---------------------------- MODULE UmqttProofs ----------------------------
(***************************************************************************)
(* What TLAPS proves of the umqtt client and its codec: the remaining      *)
(* length survives the wire, a client whose decoder was clean when it      *)
(* connected decodes exactly the packets the broker sent, however their    *)
(* bytes arrive, and the keep-alive notices a dead peer and only a dead    *)
(* one.  For every keep-alive interval, any number of connections and      *)
(* messages, and any number of packets on their way.                       *)
(***************************************************************************)
EXTENDS UmqttClient, SequenceTheorems, TLAPS

-----------------------------------------------------------------------------
(***************************************************************************)
(* The invariants of the keep-alive.                                       *)
(***************************************************************************)
Silence == clientConnected /\ timeSincePing = NoPing
Pinging == clientConnected /\ timeSincePing # NoPing

\* Ages are compared with each other: the last packet came at most an interval before
\* the PINGREQ that is out, which was the last packet sent or an earlier one.  A ping
\* is found unanswered by the first dowork that can, except right after CONNACK, where
\* an old client may still have the age of a ping of the session before.
KeepAliveInv ==
    /\ clientConnected => socketConnected
    /\ Silence => packetRecvTime <= keepAliveInterval
    /\ Silence /\ polled => packetRecvTime < keepAliveInterval
    /\ Pinging => packetRecvTime <= keepAliveInterval + timeSincePing
    /\ Pinging => timeSincePing <= maxPingRespTime + 1 \/ packetRecvTime <= 1
    /\ Pinging /\ polled => timeSincePing <= maxPingRespTime \/ packetRecvTime = 0
    /\ timeSincePing # NoPing => sendAge <= timeSincePing

-----------------------------------------------------------------------------
(***************************************************************************)
(* The invariants of the stream of bytes.                                  *)
(***************************************************************************)
AnswerTypes == {PUBACK_TYPE, PUBREC_TYPE, PUBCOMP_TYPE, SUBACK_TYPE, UNSUBACK_TYPE}

\* What a broker sends.
Packets ==
    {ConnAck(code) : code \in {0, 3, 4}} \cup {PublishPacket(kind) : kind \in Kinds}
        \cup {Answer(type) : type \in AnswerTypes} \cup {PingResp, LargePacket}

Size(packet) == Len(Transmitted(packet))

\* The decoder in the fixed header of a packet, and in its body.
Header(type, flags, stored) ==
    [codecState |-> "FIXED_HEADER", currPacket |-> type, headerFlags |-> flags,
     storeRemainLen |-> stored, totalLen |-> 0, headerData |-> <<>>]

Body(type, flags, total, data) ==
    [codecState |-> "VAR_HEADER", currPacket |-> type, headerFlags |-> flags,
     storeRemainLen |-> <<>>, totalLen |-> total, headerData |-> data]

\* The decoder when it has taken the first c bytes of a packet.
DecoderAt(packet, c) ==
    CASE c = 0 -> NewCodec
      [] c # 0 /\ packet = LargePacket ->
            Header(packet.type, packet.flags, [i \in 1 .. (c - 1) |-> NEXT_128_CHUNK])
      [] c = 1 /\ packet # LargePacket -> Header(packet.type, packet.flags, <<>>)
      [] c \notin {0, 1} /\ packet # LargePacket ->
            Body(packet.type, packet.flags, Len(packet.body), SubSeq(packet.body, 1, c - 2))

\* Packet i of those sent and not decoded begins behind byte at[i] of the bytes on their
\* way; of the first one the decoder has taken c bytes.
LaidOut(packets, bytes, decoder, c, at) ==
    LET n == Len(packets)
    IN  /\ at[1] = 0 - c
        /\ \A i \in 1 .. n : at[i + 1] = at[i] + Size(packets[i]) /\ at[i + 1] >= 1
        /\ Len(bytes) = at[n + 1]
        /\ \A i \in 1 .. (n + 1) : at[i] <= at[n + 1]
        /\ \A i \in 1 .. n : \A j \in 1 .. Size(packets[i]) :
              at[i] + j >= 1 => bytes[at[i] + j] = Transmitted(packets[i])[j]
        /\ n = 0 => c = 0 /\ decoder = NewCodec
        /\ n # 0 => decoder = DecoderAt(packets[1], c)

\* The answer to the ping that is out is at the socket once it has been seen there.
AnswerIsThere(at) ==
    Pinging /\ pingAnswered # NoPing =>
        \E i \in 1 .. Len(expected) : expected[i] = PingResp /\ at[i + 1] <= arrived

InPlace ==
    \E c \in Nat : \E at \in [1 .. (Len(expected) + 1) -> Int] :
        LaidOut(expected, inbound, codec, c, at) /\ AnswerIsThere(at)

LinkInv ==
    /\ inbound \in Seq(Int) /\ expected \in Seq(Packets)
    /\ arrived \in 0 .. Len(inbound)
    /\ owed \in AnswerTypes \cup {NoAnswer}
    /\ ~socketConnected => inbound = <<>> /\ expected = <<>> /\ broker = "none"
                           /\ owed = NoAnswer /\ ~clientConnected
    /\ pc = "read" => socketConnected

\* The broker accepts or refuses a connection once.
OneConnAck ==
    LET acks == {i \in DOMAIN expected : expected[i].type = CONNACK_TYPE}
    IN  /\ \A i, j \in acks : i = j
        /\ broker = "connecting" \/ clientConnected => acks = {}
        /\ ~(broker = "connecting" /\ clientConnected)

\* A ping is out only in a session, or its client is about to be replaced.
PingInSession ==
    timeSincePing # NoPing /\ ~clientConnected /\ pc # "disconnected"
        => ~socketConnected /\ isConnectionLost /\ isRecoverableError

SeenInTime == pc = "ping" /\ Pinging /\ pingAnswered # NoPing => pingAnswered = timeSincePing

\* Every packet is where it should be, if the decoder was clean at every connection.
CleanLink ==
    /\ ~garbled
    /\ socketConnected => InPlace
    /\ OneConnAck
    /\ PingInSession
    /\ SeenInTime
    /\ clientConnected => isRecoverableError

CleanInv == ~dirty => CleanLink

-----------------------------------------------------------------------------
(***************************************************************************)
(* The keep-alive.                                                         *)
(***************************************************************************)
\* The bounds of the ages, from the keep-alive interval.
LEMMA Limits ==
    /\ keepAliveInterval \in Nat /\ keepAliveInterval >= 1
    /\ maxPingRespTime \in Nat /\ maxPingRespTime <= keepAliveInterval
    /\ NoticedAfter = keepAliveInterval + maxPingRespTime + 1
    /\ AgeBound = keepAliveInterval + maxPingRespTime + 3
<1>1. keepAliveInterval \in Nat /\ keepAliveInterval >= 1
  BY UmqttAssumption
<1>2. keepAliveInterval \div 2 \in Nat /\ keepAliveInterval \div 2 <= keepAliveInterval
  BY <1>1
<1>3. maxPingRespTime \in Nat /\ maxPingRespTime <= keepAliveInterval
  BY <1>1, <1>2 DEF maxPingRespTime
<1> QED  BY <1>1, <1>3 DEF NoticedAfter, AgeBound

AgeTypes ==
    /\ timeSincePing \in NoPing .. AgeBound
    /\ packetRecvTime \in 0 .. AgeBound
    /\ sendAge \in 0 .. AgeBound

\* A second makes an age at most one older.
LEMMA OlderAge ==
    ASSUME NEW age \in 0 .. AgeBound
    PROVE  Older(age) \in 0 .. AgeBound /\ age <= Older(age) /\ Older(age) <= age + 1
BY Limits DEF Older

\* A step closes the connection, lets a second pass, sends a PINGREQ, ends a dowork
\* that has nothing to send, receives a packet, connects, or leaves the ages alone but
\* for that of the last packet sent.
LEMMA AgeSteps ==
    ASSUME [Next]_vars
    PROVE  \/ /\ ~socketConnected' /\ ~clientConnected'
              /\ timeSincePing' \in {timeSincePing, NoPing}
              /\ packetRecvTime' \in {packetRecvTime, 0, AgeBound}
              /\ sendAge' = sendAge
           \/ Tick
           \/ \E delivered \in BOOLEAN : SendPing(delivered)
           \/ NoPingNeeded
           \/ /\ packetRecvTime' = 0 /\ timeSincePing' \in {timeSincePing, NoPing}
              /\ sendAge' \in {sendAge, 0} /\ UNCHANGED polled
              /\ \/ UNCHANGED sessionVars
                 \/ socketConnected' = socketConnected /\ pc = "read"
           \/ /\ socketConnected' /\ clientConnected' = clientConnected /\ ~socketConnected
              /\ timeSincePing' \in {timeSincePing, NoPing}
              /\ packetRecvTime' \in {packetRecvTime, 0} /\ sendAge' = 0
           \/ /\ ~socketConnected /\ UNCHANGED sessionVars /\ sendAge' = sendAge
              /\ timeSincePing' \in {timeSincePing, NoPing}
              /\ packetRecvTime' \in {packetRecvTime, 0}
           \/ /\ UNCHANGED <<sessionVars, timeSincePing, packetRecvTime, polled>>
              /\ sendAge' \in {sendAge, 0}
<1> USE DEF sessionVars, timeVars
<1>1. CASE DisconnectWithoutSession \/ DisconnectSession \/ IoError \/ ReadError
           \/ NoPingResponse
  BY <1>1 DEF DisconnectWithoutSession, DisconnectSession, IoError, ReadError,
              NoPingResponse, SetErrorCallback, CloseConnection
<1>2. CASE ReadConnAckRefused \/ ReadPublishFails
  BY <1>2 DEF ReadConnAckRefused, ReadPublishFails, SetErrorCallback, CloseConnection,
              PacketComplete
<1>3. CASE ReadConnAck \/ ReadPingResp \/ ReadAnswer \/ ReadPublish
           \/ \E delivered \in BOOLEAN : ReadRelease(delivered)
  BY <1>3 DEF ReadConnAck, ReadPingResp, ReadAnswer, ReadPublish, ReadRelease,
              PacketComplete, ReadsByte, Sent
<1>4. CASE \E delivered \in BOOLEAN : Connect(delivered)
  BY <1>4 DEF Connect, ClientToConnect, Sent
<1>5. CASE ConnectFails
  BY <1>5 DEF ConnectFails, ClientToConnect
<1>6. CASE \E delivered \in BOOLEAN :
             Publish(delivered) \/ Subscribe(delivered) \/ Unsubscribe(delivered)
  BY <1>6 DEF Publish, Subscribe, Unsubscribe, Request, Sent
<1>7. CASE DoworkBegin \/ ReadByte \/ ReadDone
  BY <1>7 DEF DoworkBegin, ReadByte, ReadDone
<1>8. CASE \/ BrokerAccepts \/ BrokerAnswersPing \/ BrokerAnswers
           \/ \E code \in {3, 4} : BrokerRefuses(code)
           \/ \E kind \in Kinds : BrokerPublishes(PublishPacket(kind))
           \/ BrokerPublishes(LargePacket)
  BY <1>8 DEF BrokerAccepts, BrokerAnswersPing, BrokerAnswers, BrokerRefuses,
              BrokerPublishes, BrokerSends
<1>9. CASE \E k \in DOMAIN inbound : Arrive(k)
  BY <1>9 DEF Arrive
<1>10. CASE UNCHANGED vars
  BY <1>10 DEF vars
<1> QED
  BY <1>1, <1>2, <1>3, <1>4, <1>5, <1>6, <1>7, <1>8, <1>9, <1>10
     DEF Next, Calls, Dowork, Environment, Terminated

\* Ages stay within their bounds.
LEMMA AgeTypesStep == ASSUME AgeTypes, [Next]_vars PROVE AgeTypes'
<1> USE DEF AgeTypes, NoPing
<1>0. 0 \in 0 .. AgeBound /\ AgeBound \in 0 .. AgeBound /\ AgeBound \in Nat
  BY Limits
<1>1. CASE Tick
  <2>1. /\ timeSincePing # -1 => timeSincePing \in 0 .. AgeBound
        /\ timeSincePing' = IF timeSincePing = -1 THEN -1 ELSE Older(timeSincePing)
        /\ packetRecvTime' = Older(packetRecvTime) /\ sendAge' = Older(sendAge)
    BY <1>0, <1>1 DEF Tick
  <2>2. packetRecvTime' \in 0 .. AgeBound /\ sendAge' \in 0 .. AgeBound
    BY <2>1, OlderAge
  <2>3. timeSincePing # -1 => timeSincePing' \in 0 .. AgeBound
    BY <2>1, OlderAge
  <2> QED  BY <1>0, <2>1, <2>2, <2>3
<1>2. CASE \E delivered \in BOOLEAN : SendPing(delivered)
  BY <1>0, <1>2 DEF SendPing, Sent
<1>3. CASE NoPingNeeded
  BY <1>3 DEF NoPingNeeded, timeVars
<1>4. CASE /\ timeSincePing' \in {timeSincePing, NoPing}
           /\ packetRecvTime' \in {packetRecvTime, 0, AgeBound}
           /\ sendAge' \in {sendAge, 0}
  BY <1>0, <1>4
<1> QED  BY <1>1, <1>2, <1>3, <1>4, AgeSteps

\* Every step keeps the ages in order: only a tick makes them older, and the tick comes
\* after a dowork that has looked at them.
LEMMA KeepAliveStep ==
    ASSUME AgeTypes, KeepAliveInv, pc = "read" => socketConnected, [Next]_vars
    PROVE  KeepAliveInv'
<1> USE DEF KeepAliveInv, Silence, Pinging, NoPing
<1> DEFINE m == maxPingRespTime  k == keepAliveInterval
<1>0. /\ k \in Nat /\ k >= 1 /\ m \in Nat /\ AgeBound = k + m + 3
      /\ timeSincePing \in Int /\ packetRecvTime \in Nat /\ sendAge \in Nat
      /\ timeSincePing >= -1
      /\ packetRecvTime <= AgeBound /\ sendAge <= AgeBound /\ timeSincePing <= AgeBound
  BY Limits DEF AgeTypes
<1> HIDE DEF m, k
<1>1. CASE Tick
  <2>1. /\ socketConnected => polled
        /\ polled' = FALSE
        /\ timeSincePing' = IF timeSincePing = -1 THEN -1 ELSE Older(timeSincePing)
        /\ packetRecvTime' = Older(packetRecvTime) /\ sendAge' = Older(sendAge)
    BY <1>1 DEF Tick
  <2>2. clientConnected' = clientConnected /\ socketConnected' = socketConnected
    BY <1>1 DEF Tick, sessionVars
  <2>3. /\ packetRecvTime' <= packetRecvTime + 1 /\ packetRecvTime' \in Nat
        /\ timeSincePing # -1 => /\ timeSincePing' >= timeSincePing /\ timeSincePing' \in Nat
                                /\ timeSincePing' <= timeSincePing + 1
    BY <1>0, <2>1 DEF Older
  <2>4. timeSincePing # -1 => sendAge' <= timeSincePing'
    BY <1>0, <2>1 DEF Older
  <2>5. timeSincePing' = -1 <=> timeSincePing = -1
    BY <1>0, <2>1, <2>3
  <2>6. Pinging => packetRecvTime' <= k + timeSincePing'
    BY <1>0, <2>1 DEF Older, k
  <2>7. clientConnected => polled
    BY <2>1
  <2>8. Silence => packetRecvTime' <= k
    BY <1>0, <2>3, <2>7 DEF k
  <2>9. Pinging => timeSincePing' <= m + 1 \/ packetRecvTime' <= 1
    BY <1>0, <2>3, <2>7 DEF m
  <2> QED  BY <2>1, <2>2, <2>4, <2>5, <2>6, <2>8, <2>9 DEF k, m
<1>2. CASE \E delivered \in BOOLEAN : SendPing(delivered)
  <2>1. /\ UNCHANGED <<sessionVars, packetRecvTime>> /\ clientConnected
        /\ timeSincePing = -1 /\ timeSincePing' = 0 /\ sendAge' = 0
    BY <1>2 DEF SendPing, Sent, PingDue
  <2>2. UNCHANGED <<socketConnected, clientConnected>>
    BY <2>1 DEF sessionVars
  <2> QED  BY <1>0, <2>1, <2>2 DEF k, m
<1>3. CASE NoPingNeeded
  <2>1. UNCHANGED <<socketConnected, clientConnected, timeSincePing, packetRecvTime, sendAge>>
    BY <1>3 DEF NoPingNeeded, timeVars, sessionVars
  <2>2. clientConnected => ~PingUnanswered /\ ~PingDue
    BY <1>3 DEF NoPingNeeded
  <2>3. Silence => packetRecvTime < k
    BY <1>0, <2>2 DEF PingDue, k
  <2>4. Pinging => timeSincePing <= m
    BY <1>0, <2>2 DEF PingUnanswered, m
  <2> QED  BY <2>1, <2>3, <2>4 DEF k, m
<1>4. CASE ~socketConnected' /\ ~clientConnected' /\ sendAge' = sendAge
           /\ timeSincePing' \in {timeSincePing, NoPing}
  BY <1>4
<1>5. CASE /\ packetRecvTime' = 0 /\ timeSincePing' \in {timeSincePing, NoPing}
           /\ sendAge' \in {sendAge, 0} /\ UNCHANGED polled
           /\ clientConnected' => socketConnected'
  <2>1. timeSincePing' # -1 => sendAge' <= timeSincePing'
    BY <1>0, <1>5
  <2>2. timeSincePing' # -1 => timeSincePing' = timeSincePing /\ timeSincePing >= 0
    BY <1>0, <1>5
  <2>3. timeSincePing' # -1 => 0 <= k + timeSincePing'
    BY <1>0, <2>2
  <2>4. 0 <= k /\ 0 < k /\ 0 <= 1
    BY <1>0
  <2> QED  BY <1>5, <2>1, <2>3, <2>4 DEF k, m
<1>6. CASE /\ ~socketConnected /\ clientConnected' = clientConnected
           /\ timeSincePing' \in {timeSincePing, NoPing} /\ sendAge' \in {sendAge, 0}
  <2>1. ~clientConnected'
    BY <1>6
  <2>2. timeSincePing' # -1 => sendAge' <= timeSincePing'
    BY <1>0, <1>6
  <2> QED  BY <2>1, <2>2
<1>7. CASE
      /\ UNCHANGED <<socketConnected, clientConnected, timeSincePing, packetRecvTime, polled>>
           /\ sendAge' \in {sendAge, 0}
  <2>1. timeSincePing' # -1 => sendAge' <= timeSincePing'
    BY <1>0, <1>7
  <2> QED  BY <1>7, <2>1
<1> QED
  BY <1>1, <1>2, <1>3, <1>4, <1>5, <1>6, <1>7, AgeSteps DEF sessionVars

\* A session whose peer has fallen silent ends in time, and a client that has been
\* silent itself for longer than the interval has heard from the broker within it.
LEMMA KeepAliveSuffices ==
    ASSUME AgeTypes, KeepAliveInv
    PROVE  DeadPeerNoticed /\ SilentOnlyWhileReceiving
<1> USE DEF KeepAliveInv, Silence, Pinging, NoPing
<1>1. DeadPeerNoticed
  BY Limits DEF DeadPeerNoticed, AgeTypes
<1>2. SilentOnlyWhileReceiving
  BY Limits DEF SilentOnlyWhileReceiving, AgeTypes
<1> QED  BY <1>1, <1>2

-----------------------------------------------------------------------------
(***************************************************************************)
(* The packets a broker sends.                                             *)
(***************************************************************************)
\* The parts of a message.
LEMMA Parts ==
    /\ Topic \in Seq(Int) /\ Len(Topic) = 3 /\ Topic[1] = 0 /\ Topic[2] = 1
    /\ PacketId \in Seq(Int) /\ Len(PacketId) = 2
    /\ Payload \in Seq(Int) /\ Len(Payload) = 2
BY DEF Topic, PacketId, Payload

\* The bytes behind those of s.
LEMMA Behind ==
    ASSUME NEW s \in Seq(Int), NEW t \in Seq(Int)
    PROVE  SubSeq(s \o t, Len(s) + 1, Len(s) + Len(t)) = t
<1> DEFINE u == s \o t  m == Len(s)  n == Len(t)
<1>0. m \in Nat /\ n \in Nat
  BY LenProperties
<1>1. /\ u \in Seq(Int) /\ Len(u) = m + n
      /\ \A i \in 1 .. (m + n) : u[i] = IF i <= m THEN s[i] ELSE t[i - m]
  BY ConcatProperties
<1> HIDE DEF u, m, n
<1>2. \A i \in (m + 1) .. (m + n) : u[i] \in Int
  BY <1>0, <1>1
<1>3. /\ SubSeq(u, m + 1, m + n) \in Seq(Int)
      /\ Len(SubSeq(u, m + 1, m + n)) = n
      /\ \A i \in 1 .. n : SubSeq(u, m + 1, m + n)[i] = u[(m + 1) + i - 1]
  BY <1>0, <1>1, <1>2, SubSeqProperties
<1>4. ASSUME NEW i \in 1 .. n  PROVE SubSeq(u, m + 1, m + n)[i] = t[i]
  <2>1. /\ (m + 1) + i - 1 \in 1 .. (m + n) /\ ~((m + 1) + i - 1 <= m)
        /\ ((m + 1) + i - 1) - m = i
    BY <1>0
  <2> QED  BY <2>1, <1>1, <1>3, Zenon
<1> QED  BY <1>3, <1>4, SeqEqual DEF u, m, n

\* The body of a published message: its topic, the packet id unless QoS is 0, its payload.
LEMMA MessageBody ==
    ASSUME NEW kind \in Kinds
    PROVE  LET rest == IF kind.qos = 0 THEN Payload ELSE PacketId \o Payload
               body == PublishPacket(kind).body
           IN  /\ body = Topic \o rest /\ body \in Seq(Int)
               /\ rest \in Seq(Int) /\ Len(rest) = IF kind.qos = 0 THEN 2 ELSE 4
               /\ Len(body) = 3 + Len(rest)
               /\ body[1] = 0 /\ body[2] = 1
<1> DEFINE middle == IF kind.qos = 0 THEN <<>> ELSE PacketId
           rest == IF kind.qos = 0 THEN Payload ELSE PacketId \o Payload
           body == PublishPacket(kind).body
<1>0. Topic \in Seq(Int) /\ PacketId \in Seq(Int) /\ Payload \in Seq(Int)
  BY Parts
<1>1. body = (Topic \o middle) \o Payload
  BY DEF PublishPacket
<1>2. middle \in Seq(Int) /\ middle \o Payload = rest
  <2>1. CASE kind.qos = 0
    <3>1. <<>> \in Seq(Int) /\ <<>> \o Payload = Payload
      BY <1>0, EmptySeq, ConcatEmptySeq
    <3> QED  BY <2>1, <3>1
  <2>2. CASE kind.qos # 0
    <3>1. middle = PacketId /\ rest = PacketId \o Payload
      BY <2>2
    <3> HIDE DEF middle, rest
    <3> QED  BY <3>1, <1>0, Zenon
  <2> QED  BY <2>1, <2>2
<1>3. body = Topic \o rest
  <2>1. \A q \in Seq(Int) : (Topic \o q) \o Payload = Topic \o (q \o Payload)
    <3> SUFFICES ASSUME NEW q \in Seq(Int)
                 PROVE  (Topic \o q) \o Payload = Topic \o (q \o Payload)
      OBVIOUS
    <3> HIDE DEF middle, rest, body
    <3> QED  BY <1>0, ConcatAssociative, SMTT(20)
  <2> HIDE DEF middle, rest, body
  <2> QED  BY <1>1, <1>2, <2>1, Zenon
<1>4. rest \in Seq(Int) /\ Len(rest) = IF kind.qos = 0 THEN 2 ELSE 4
  <2>1. PacketId \o Payload \in Seq(Int)
        /\ Len(PacketId \o Payload) = Len(PacketId) + Len(Payload)
    BY <1>0, ConcatProperties
  <2>2. Len(PacketId \o Payload) = 4
    BY <2>1, Parts
  <2> QED  BY <2>1, <2>2, Parts
<1> HIDE DEF rest, body
<1>5. /\ Topic \o rest \in Seq(Int) /\ Len(Topic \o rest) = Len(Topic) + Len(rest)
      /\ \A i \in 1 .. Len(Topic) + Len(rest) :
            (Topic \o rest)[i] = IF i <= Len(Topic) THEN Topic[i] ELSE rest[i - Len(Topic)]
  BY <1>0, <1>4, ConcatProperties
<1>6. /\ 1 \in 1 .. Len(Topic) + Len(rest) /\ 2 \in 1 .. Len(Topic) + Len(rest)
      /\ 1 <= Len(Topic) /\ 2 <= Len(Topic)
  BY <1>4, Parts
<1>7. body[1] = Topic[1] /\ body[2] = Topic[2]
  BY <1>3, <1>5, <1>6, Zenon
<1>8. body[1] = 0 /\ body[2] = 1
  BY <1>7, Parts
<1>9. body \in Seq(Int) /\ Len(body) = 3 + Len(rest)
  BY <1>3, <1>5, Parts
<1> QED  BY <1>3, <1>4, <1>8, <1>9 DEF rest, body

\* recvCompleteCallback reads every message as it was published, but a retained one of
\* QoS 0.
LEMMA MessageUnderstood ==
    ASSUME NEW kind \in Kinds, kind # [qos |-> 0, retain |-> 1]
    PROVE  ReadMessage(PublishPacket(kind)) = [qos |-> kind.qos, payload |-> Payload]
<1> DEFINE rest == IF kind.qos = 0 THEN Payload ELSE PacketId \o Payload
           body == PublishPacket(kind).body
           flags == PublishPacket(kind).flags
<1>1. /\ body = Topic \o rest /\ body \in Seq(Int)
      /\ rest \in Seq(Int) /\ Len(rest) = IF kind.qos = 0 THEN 2 ELSE 4
      /\ Len(body) = 3 + Len(rest)
      /\ body[1] = 0 /\ body[2] = 1
  BY MessageBody
<1>2. flags = 2 * kind.qos + kind.retain
  BY DEF PublishPacket
<1>3. Qos(flags) = kind.qos
  BY <1>2 DEF Kinds, Qos
<1> HIDE DEF body, flags
<1>4. 256 * body[1] + body[2] = 1
  BY <1>1
<1>5. SubSeq(body, 4, Len(body)) = rest
  <2>1. rest \in Seq(Int) /\ Topic \in Seq(Int)
    BY <1>1, Parts
  <2> HIDE DEF rest
  <2>2. SubSeq(Topic \o rest, Len(Topic) + 1, Len(Topic) + Len(rest)) = rest
    BY <2>1, Behind
  <2>3. Len(Topic) + 1 = 4 /\ Len(Topic) + Len(rest) = Len(body)
    BY <1>1, Parts
  <2> QED  BY <1>1, <2>2, <2>3, Zenon
<1>6. ReadMessage(PublishPacket(kind)) =
         [qos |-> kind.qos,
          payload |-> IF kind.qos # 0 /\ Len(rest) >= 2 THEN SubSeq(rest, 3, Len(rest))
                                                        ELSE rest]
  <2>1. (256 * body[1] + body[2]) + 3 = 4
    BY <1>4
  <2> DEFINE read == SubSeq(body, (256 * body[1] + body[2]) + 3, Len(body))
  <2>2. ReadMessage(PublishPacket(kind)) =
           [qos |-> Qos(flags),
            payload |-> IF Qos(flags) # 0 /\ Len(read) >= 2 THEN SubSeq(read, 3, Len(read))
                                                           ELSE read]
    BY Zenon DEF ReadMessage, body, flags
  <2> HIDE DEF rest
  <2>3. read = rest
    BY <2>1, <1>5, Zenon
  <2> HIDE DEF read
  <2> QED  BY <1>3, <2>2, <2>3, Zenon
<1>7. CASE kind.qos = 0
  BY <1>6, <1>7
<1>8. CASE kind.qos # 0
  <2>1. rest = PacketId \o Payload /\ Len(rest) = 4
    BY <1>1, <1>8
  <2>2. SubSeq(PacketId \o Payload, 3, 4) = Payload
    <3>1. PacketId \in Seq(Int) /\ Payload \in Seq(Int)
      BY Parts
    <3>2. SubSeq(PacketId \o Payload, Len(PacketId) + 1, Len(PacketId) + Len(Payload)) = Payload
      BY <3>1, Behind
    <3>3. Len(PacketId) + 1 = 3 /\ Len(PacketId) + Len(Payload) = 4
      BY Parts
    <3> QED  BY <3>2, <3>3, Zenon
  <2>3. 4 >= 2
    OBVIOUS
  <2> QED  BY <1>6, <1>8, <2>1, <2>2, <2>3
<1> QED  BY <1>7, <1>8

\* Every message is passed on as it was meant, except for a retained one of QoS 0:
\* whatever the decoder hands over, and however the bytes arrived.
THEOREM MessagesUnderstood == Spec => []PublishUnderstood
<1>1. Init => PublishUnderstood
  BY DEF Init, PublishUnderstood
<1>2. PublishUnderstood /\ [Next]_vars => PublishUnderstood'
  <2> SUFFICES ASSUME PublishUnderstood, [Next]_vars  PROVE PublishUnderstood'
    OBVIOUS
  <2>1. CASE ReadPublish
    <3>1. misread' \subseteq misread \cup
             {kind \in Kinds : /\ PublishPacket(kind) = Packet
                              /\ ReadMessage(Packet) # [qos |-> kind.qos, payload |-> Payload]}
      BY <2>1 DEF ReadPublish
    <3>2. \A kind \in Kinds : /\ PublishPacket(kind) = Packet
                              /\ ReadMessage(Packet) # [qos |-> kind.qos, payload |-> Payload]
                              => kind = [qos |-> 0, retain |-> 1]
      BY MessageUnderstood
    <3> QED  BY <3>1, <3>2 DEF PublishUnderstood
  <2>2. CASE UNCHANGED misread
    BY <2>2 DEF PublishUnderstood
  <2>3. ReadPublish \/ UNCHANGED misread
    BY DEF Next, Calls, Dowork, Environment, Terminated, ConnectFails,
       DisconnectWithoutSession, DisconnectSession, Connect, Publish, Subscribe,
       Unsubscribe, Request, DoworkBegin, ReadByte, ReadError, ReadConnAck,
       ReadConnAckRefused, ReadPublishFails, ReadPingResp, ReadAnswer, ReadDone, IoError,
       NoPingResponse,
       NoPingNeeded, ReadRelease, SendPing, BrokerAccepts, BrokerAnswersPing,
       BrokerAnswers, Tick, BrokerRefuses, BrokerPublishes, BrokerSends, Arrive, vars
  <2> QED  BY <2>1, <2>2, <2>3
<1> QED  BY <1>1, <1>2, PTL DEF Spec

-----------------------------------------------------------------------------
(***************************************************************************)
(* What goes over the wire, and what the decoder makes of it.              *)
(***************************************************************************)
\* A packet other than the large one: a record whose body fits in seven bytes, and only
\* PINGRESP has none.
WholePacket(p) ==
    /\ p = [type |-> p.type, flags |-> p.flags, body |-> p.body]
    /\ p.type \in {CONNACK_TYPE, PUBLISH_TYPE, PINGRESP_TYPE} \cup AnswerTypes
    /\ p.flags \in 0 .. 3
    /\ p.body \in Seq(Int) /\ Len(p.body) <= 7
    /\ p.type = PINGRESP_TYPE <=> Len(p.body) = 0
    /\ p = PingResp <=> p.type = PINGRESP_TYPE
    /\ p.type = CONNACK_TYPE => \E code \in {0, 3, 4} : p = ConnAck(code)

\* Every packet has that shape, but for the large one.
LEMMA PacketShapes ==
    ASSUME NEW p \in Packets
    PROVE  p = LargePacket \/ (p # LargePacket /\ WholePacket(p))
<1> USE DEF CONNACK_TYPE, PUBLISH_TYPE, PINGRESP_TYPE, PUBACK_TYPE, PUBREC_TYPE, PUBCOMP_TYPE,
            SUBACK_TYPE, UNSUBACK_TYPE, AnswerTypes
<1>1. ASSUME NEW code \in {0, 3, 4}, p = ConnAck(code) PROVE p # LargePacket /\ WholePacket(p)
  <2>1. <<0, code>> \in Seq(Int) /\ Len(<<0, code>>) = 2
    OBVIOUS
  <2> HIDE DEF AnswerTypes
  <2>2. p.type = 32 /\ p.flags = 0 /\ p.body = <<0, code>>
        /\ p = [type |-> p.type, flags |-> p.flags, body |-> p.body]
    BY <1>1 DEF ConnAck
  <2>3. p # LargePacket /\ p # PingResp
    BY <2>2 DEF LargePacket, PingResp
  <2> QED BY <1>1, <2>1, <2>2, <2>3 DEF WholePacket
<1>2. ASSUME NEW kind \in Kinds, p = PublishPacket(kind) PROVE p # LargePacket /\ WholePacket(p)
  <2>1. p.body \in Seq(Int) /\ Len(p.body) <= 7 /\ Len(p.body) # 0
    <3> DEFINE rest == IF kind.qos = 0 THEN Payload ELSE PacketId \o Payload
               body == PublishPacket(kind).body
    <3>1. /\ body \in Seq(Int) /\ Len(body) = 3 + Len(rest)
          /\ Len(rest) = IF kind.qos = 0 THEN 2 ELSE 4
      BY MessageBody
    <3>2. body = p.body
      BY <1>2
    <3> HIDE DEF rest, body
    <3>3. Len(body) <= 7 /\ Len(body) # 0
      BY <3>1
    <3> QED BY <3>1, <3>2, <3>3, Zenon
  <2> HIDE DEF AnswerTypes
  <2>2. p.type = 48 /\ p = [type |-> p.type, flags |-> p.flags, body |-> p.body]
    BY <1>2 DEF PublishPacket
  <2>3. p.flags \in 0 .. 3
    BY <1>2 DEF PublishPacket, Kinds
  <2>4. p # LargePacket /\ p # PingResp
    <3>1. Len(LargePacket.body) = 0 /\ PingResp.type = 208
      BY DEF LargePacket, PingResp
    <3>2. p.body # LargePacket.body
      BY <3>1, <2>1, Zenon
    <3>3. p.type # PingResp.type
      BY <3>1, <2>2
    <3> QED BY <3>2, <3>3, Zenon
  <2> QED BY <2>1, <2>2, <2>3, <2>4 DEF WholePacket
<1>3. ASSUME NEW type \in AnswerTypes, p = Answer(type) PROVE p # LargePacket /\ WholePacket(p)
  <2> DEFINE body == IF type = SUBACK_TYPE THEN Append(PacketId, 1) ELSE PacketId
  <2>1. body \in Seq(Int) /\ Len(body) <= 7 /\ Len(body) # 0
    <3>0. PacketId \in Seq(Int) /\ 1 \in Int
      BY Parts
    <3>1. Append(PacketId, 1) \in Seq(Int) /\ Len(Append(PacketId, 1)) = Len(PacketId) + 1
      BY <3>0, AppendProperties
    <3>2. Len(PacketId) + 1 = 3
      BY Parts
    <3> QED BY <3>1, <3>2, Parts
  <2> HIDE DEF body
  <2>2. p.type = type /\ p.flags = 0 /\ p.body = body
        /\ p = [type |-> p.type, flags |-> p.flags, body |-> p.body]
    BY <1>3 DEF Answer, body
  <2>3. type # 48 /\ type # 208 /\ type # 32
    OBVIOUS
  <2>4. p # LargePacket /\ p # PingResp
    BY <2>2, <2>3 DEF LargePacket, PingResp
  <2> HIDE DEF AnswerTypes
  <2>5. Len(p.body) <= 7 /\ Len(p.body) # 0
    BY <2>1, <2>2, Zenon
  <2> QED BY <2>1, <2>2, <2>3, <2>4, <2>5 DEF WholePacket
<1>4. ASSUME p = PingResp PROVE p # LargePacket /\ WholePacket(p)
  <2>1. p.type = 208 /\ p.flags = 0 /\ p.body = <<>>
        /\ p = [type |-> p.type, flags |-> p.flags, body |-> p.body]
    BY <1>4 DEF PingResp
  <2>2. p # LargePacket
    BY <2>1 DEF LargePacket
  <2> QED BY <1>4, <2>1, <2>2 DEF WholePacket
<1> QED BY <1>1, <1>2, <1>3, <1>4 DEF Packets

\* The length of a short packet is one byte.
LEMMA ShortLength == ASSUME NEW n \in 0 .. 7 PROVE EncodedLength(n) = <<n>>
BY DEF EncodedLength

\* A packet on the wire: its first byte, its length, its body.
LEMMA TransmittedWhole ==
    ASSUME NEW p, p # LargePacket, WholePacket(p)
    PROVE  /\ Transmitted(p) \in Seq(Int) /\ Size(p) = 2 + Len(p.body) /\ Size(p) \in 2 .. 9
           /\ Transmitted(p)[1] = p.type + p.flags
           /\ Transmitted(p)[2] = Len(p.body)
           /\ \A j \in 3 .. Size(p) : Transmitted(p)[j] = p.body[j - 2]
<1> DEFINE n == Len(p.body)
           head == <<p.type + p.flags>>
           length == <<n>>
           front == head \o length
<1>1. n \in 0 .. 7 /\ p.body \in Seq(Int) /\ p.type \in Int /\ p.flags \in Int
  <2>1. p.body \in Seq(Int) /\ n <= 7 /\ p.flags \in 0 .. 3
    BY DEF WholePacket
  <2>2. p.type \in Int
    BY DEF WholePacket, CONNACK_TYPE, PUBLISH_TYPE, PINGRESP_TYPE, PUBACK_TYPE, PUBREC_TYPE,
       PUBCOMP_TYPE,
            SUBACK_TYPE, UNSUBACK_TYPE, AnswerTypes
  <2>3. n \in Nat
    BY <2>1, LenProperties
  <2> HIDE DEF n
  <2> QED BY <2>1, <2>2, <2>3
<1>2. EncodedLength(n) = length
  BY <1>1, ShortLength
<1>3. Transmitted(p) = front \o p.body
  BY <1>2 DEF Transmitted, Encoded
<1>4. /\ head \in Seq(Int) /\ Len(head) = 1 /\ head[1] = p.type + p.flags
      /\ length \in Seq(Int) /\ Len(length) = 1 /\ length[1] = n
  BY <1>1
<1> HIDE DEF head, length, n
<1>5. /\ front \in Seq(Int) /\ Len(front) = Len(head) + Len(length)
      /\ \A i \in 1 .. Len(head) + Len(length) :
            front[i] = IF i <= Len(head) THEN head[i] ELSE length[i - Len(head)]
  BY <1>4, ConcatProperties
<1>6. front \in Seq(Int) /\ Len(front) = 2 /\ front[1] = p.type + p.flags /\ front[2] = n
  <2>1. /\ 1 \in 1 .. Len(head) + Len(length) /\ 1 <= Len(head)
        /\ 2 \in 1 .. Len(head) + Len(length) /\ ~(2 <= Len(head)) /\ 2 - Len(head) = 1
        /\ Len(head) + Len(length) = 2
    BY <1>4
  <2>2. front[1] = head[1] /\ front[2] = length[1]
    BY <2>1, <1>5, Zenon
  <2> QED BY <2>1, <2>2, <1>4, <1>5, Zenon
<1> HIDE DEF front
<1>7. /\ front \o p.body \in Seq(Int) /\ Len(front \o p.body) = Len(front) + Len(p.body)
      /\ \A i \in 1 .. Len(front) + Len(p.body) :
            (front \o p.body)[i] = IF i <= Len(front) THEN front[i] ELSE p.body[i - Len(front)]
  BY <1>1, <1>6, ConcatProperties
<1>8. /\ 1 \in 1 .. Len(front) + Len(p.body) /\ 1 <= Len(front)
      /\ 2 \in 1 .. Len(front) + Len(p.body) /\ 2 <= Len(front)
      /\ Len(front) + Len(p.body) = 2 + n
  BY <1>1, <1>6 DEF n
<1>9. Transmitted(p)[1] = front[1] /\ Transmitted(p)[2] = front[2]
  BY <1>3, <1>7, <1>8, Zenon
<1>10. Size(p) = 2 + n
  BY <1>3, <1>7, <1>8, Zenon DEF Size
<1>11. ASSUME NEW j \in 3 .. 2 + n PROVE Transmitted(p)[j] = p.body[j - 2]
  <2>1. j \in 1 .. Len(front) + Len(p.body) /\ ~(j <= Len(front)) /\ j - Len(front) = j - 2
    BY <1>1, <1>6 DEF n
  <2> QED BY <2>1, <1>3, <1>7, Zenon
<1>12. Transmitted(p)[1] = p.type + p.flags /\ Transmitted(p)[2] = n
  BY <1>9, <1>6
<1>13. 2 + n \in 2 .. 9
  BY <1>1
<1>14. Transmitted(p) \in Seq(Int)
  BY <1>3, <1>7, Zenon
<1> QED BY <1>10, <1>11, <1>12, <1>13, <1>14 DEF n

\* What is sent of the large one: its first byte and the four of its length.
LEMMA TransmittedLarge ==
    /\ Transmitted(LargePacket) \in Seq(Int) /\ Size(LargePacket) = 5
    /\ Transmitted(LargePacket)[1] = PUBLISH_TYPE
    /\ \A j \in 2 .. 4 : Transmitted(LargePacket)[j] = 128
    /\ Transmitted(LargePacket)[5] = 1
<1> DEFINE head == <<PUBLISH_TYPE>>
           length == <<128, 128, 128, 1>>
<1>1. EncodedLength(LargeLength) = length
  BY DEF EncodedLength, LargeLength, More, NEXT_128_CHUNK
<1>2. Transmitted(LargePacket) = head \o length
  BY <1>1 DEF Transmitted
<1>3. /\ head \in Seq(Int) /\ Len(head) = 1 /\ head[1] = PUBLISH_TYPE
      /\ length \in Seq(Int) /\ Len(length) = 4
      /\ length[1] = 128 /\ length[2] = 128 /\ length[3] = 128 /\ length[4] = 1
  BY DEF PUBLISH_TYPE
<1> HIDE DEF head, length
<1>4. /\ head \o length \in Seq(Int) /\ Len(head \o length) = Len(head) + Len(length)
      /\ \A i \in 1 .. Len(head) + Len(length) :
            (head \o length)[i] = IF i <= Len(head) THEN head[i] ELSE length[i - Len(head)]
  <2>1. head \in Seq(Int) /\ length \in Seq(Int)
    BY <1>3
  <2> QED BY <2>1, ConcatProperties
<1>5. /\ 1 \in 1 .. Len(head) + Len(length) /\ 1 <= Len(head)
      /\ Len(head) + Len(length) = 5
  BY <1>3
<1>6. \A i \in 2 .. 5 : /\ i \in 1 .. Len(head) + Len(length)
                        /\ ~(i <= Len(head)) /\ i - Len(head) = i - 1
  BY <1>3
<1>7. Transmitted(LargePacket)[1] = head[1]
  BY <1>2, <1>4, <1>5, Zenon
<1>8. \A i \in 2 .. 5 : Transmitted(LargePacket)[i] = length[i - 1]
  BY <1>2, <1>4, <1>6, Zenon
<1>9. \A j \in 2 .. 4 : Transmitted(LargePacket)[j] = 128
  BY <1>8, <1>3
<1>10. Transmitted(LargePacket)[5] = 1
  BY <1>8, <1>3
<1>11. Transmitted(LargePacket) \in Seq(Int) /\ Size(LargePacket) = 5
  BY <1>2, <1>4, <1>5, Zenon DEF Size
<1> QED BY <1>3, <1>7, <1>9, <1>10, <1>11

\* The decoder after the first byte.
LEMMA HeaderRead ==
    ASSUME NEW type, NEW flags
    PROVE  [Header(UNKNOWN_TYPE, 0, <<>>) EXCEPT !.currPacket = type, !.headerFlags = flags]
               = Header(type, flags, <<>>)
<1> DEFINE d == Header(UNKNOWN_TYPE, 0, <<>>)
           e == Header(type, 0, <<>>)
<1>1. [d EXCEPT !.currPacket = type] = e
      /\ [e EXCEPT !.headerFlags = flags] = Header(type, flags, <<>>)
  BY DEF Header
<1> HIDE DEF d, e
<1>2. [d EXCEPT !.currPacket = type, !.headerFlags = flags]
         = [[d EXCEPT !.currPacket = type] EXCEPT !.headerFlags = flags]
  OBVIOUS
<1> QED BY <1>1, <1>2, Zenon DEF d

\* The decoder after the last byte of the length.
LEMMA LengthRead ==
    ASSUME NEW type, NEW flags, NEW n
    PROVE  [Header(type, flags, <<>>) EXCEPT
               !.codecState = "VAR_HEADER", !.storeRemainLen = <<>>,
               !.totalLen = n, !.headerData = <<>>]
               = Body(type, flags, n, <<>>)
<1> DEFINE d == Header(type, flags, <<>>)
           a == Body(type, flags, 0, <<>>)
<1>1. /\ [d EXCEPT !.codecState = "VAR_HEADER"] = a /\ [a EXCEPT !.storeRemainLen = <<>>] = a
      /\ [a EXCEPT !.totalLen = n] = Body(type, flags, n, <<>>)
      /\ [Body(type, flags, n, <<>>) EXCEPT !.headerData = <<>>] = Body(type, flags, n, <<>>)
  BY DEF Header, Body
<1> HIDE DEF d, a
<1>2. [d EXCEPT !.codecState = "VAR_HEADER", !.storeRemainLen = <<>>,
                !.totalLen = n, !.headerData = <<>>]
        = [[[[d EXCEPT !.codecState = "VAR_HEADER"] EXCEPT !.storeRemainLen = <<>>]
               EXCEPT !.totalLen = n] EXCEPT !.headerData = <<>>]
  OBVIOUS
<1> QED BY <1>1, <1>2, Zenon DEF d

\* The decoder after a byte of the length.
LEMMA LengthByteRead ==
    ASSUME NEW type, NEW flags, NEW stored, NEW x
    PROVE  [Header(type, flags, stored) EXCEPT !.storeRemainLen = x] = Header(type, flags, x)
BY DEF Header

\* The decoder after a byte of the body.
LEMMA BodyByteRead ==
    ASSUME NEW type, NEW flags, NEW n, NEW data, NEW x
    PROVE  [Body(type, flags, n, data) EXCEPT !.headerData = x] = Body(type, flags, n, x)
BY DEF Body

\* completePacketData hands over the packet and starts again.
LEMMA PacketCompleted ==
    ASSUME NEW type, NEW flags, NEW n, NEW data
    PROVE  Completed(Body(type, flags, n, data), FALSE)
               = Outcome(NewCodec, FALSE, <<[type |-> type, flags |-> flags, body |-> data]>>)
<1> DEFINE d == Body(type, flags, n, data)
<1>1. [NewCodec EXCEPT !.storeRemainLen = <<>>] = NewCodec
  BY DEF NewCodec
<1>2. d.currPacket = type /\ d.headerFlags = flags /\ d.headerData = data
      /\ d.storeRemainLen = <<>>
  BY DEF Body
<1> HIDE DEF d
<1> QED BY <1>1, <1>2, Zenon DEF Completed, d

\* Where the decoder is after c bytes.
LEMMA DecoderStages ==
    ASSUME NEW p, NEW c \in Nat
    PROVE  /\ c = 0 => DecoderAt(p, c) = Header(UNKNOWN_TYPE, 0, <<>>)
           /\ p # LargePacket /\ c = 1
                 => DecoderAt(p, c) = Header(p.type, p.flags, <<>>)
           /\ p # LargePacket /\ c >= 2
                 => DecoderAt(p, c) =
                       Body(p.type, p.flags, Len(p.body), SubSeq(p.body, 1, c - 2))
           /\ p = LargePacket /\ c # 0
                 => DecoderAt(p, c) = Header(p.type, p.flags, [i \in 1 .. (c - 1) |-> 128])
<1>1. ASSUME c = 0 PROVE DecoderAt(p, c) = Header(UNKNOWN_TYPE, 0, <<>>)
  BY <1>1 DEF DecoderAt, NewCodec, Header
<1>2. ASSUME p # LargePacket, c = 1 PROVE DecoderAt(p, c) = Header(p.type, p.flags, <<>>)
  BY <1>2 DEF DecoderAt
<1>3. ASSUME p # LargePacket, c >= 2
      PROVE  DecoderAt(p, c) = Body(p.type, p.flags, Len(p.body), SubSeq(p.body, 1, c - 2))
  BY <1>3 DEF DecoderAt
<1>4. ASSUME p = LargePacket, c # 0
      PROVE  DecoderAt(p, c) = Header(p.type, p.flags, [i \in 1 .. (c - 1) |-> 128])
  BY <1>4 DEF DecoderAt, NEXT_128_CHUNK
<1> QED BY <1>1, <1>2, <1>3, <1>4

\* The first byte holds the type and the flags.
LEMMA FirstByte ==
    ASSUME NEW type \in {CONNACK_TYPE, PUBLISH_TYPE, PINGRESP_TYPE} \cup AnswerTypes,
           NEW flags \in 0 .. 3
    PROVE  /\ ((type + flags) \div 16) * 16 = type /\ (type + flags) % 16 = flags
           /\ type # UNKNOWN_TYPE
BY DEF CONNACK_TYPE, PUBLISH_TYPE, PINGRESP_TYPE, PUBACK_TYPE, PUBREC_TYPE, PUBCOMP_TYPE,
       SUBACK_TYPE, UNSUBACK_TYPE, AnswerTypes, UNKNOWN_TYPE

\* What the decoder does with the byte after the first c ones of a packet.
LEMMA WholeDecoded ==
    ASSUME NEW p, p # LargePacket, WholePacket(p), NEW c \in Nat, c < Size(p)
    PROVE  BytesReceived(DecoderAt(p, c), Transmitted(p)[c + 1]) =
               IF c + 1 = Size(p) THEN Outcome(NewCodec, FALSE, <<p>>)
               ELSE Outcome(DecoderAt(p, c + 1), FALSE, <<>>)
<1> DEFINE byte == Transmitted(p)[c + 1]
           n == Len(p.body)
<1>0. n \in Nat
  BY LenProperties DEF WholePacket
<1>1. /\ Size(p) = 2 + n /\ Size(p) \in 2 .. 9
      /\ Transmitted(p)[1] = p.type + p.flags
      /\ Transmitted(p)[2] = n
      /\ \A j \in 3 .. Size(p) : Transmitted(p)[j] = p.body[j - 2]
  BY TransmittedWhole
<1>2. /\ p = [type |-> p.type, flags |-> p.flags, body |-> p.body]
      /\ p.body \in Seq(Int) /\ (p.type = PINGRESP_TYPE <=> n = 0)
  BY DEF WholePacket
<1>3. ((p.type + p.flags) \div 16) * 16 = p.type /\ (p.type + p.flags) % 16 = p.flags
      /\ p.type # UNKNOWN_TYPE
  BY FirstByte DEF WholePacket
<1>4. CASE c = 0
  <2>1. byte = p.type + p.flags /\ c + 1 # Size(p) /\ c + 1 = 1
    BY <1>1, <1>4
  <2>2. DecoderAt(p, c) = Header(UNKNOWN_TYPE, 0, <<>>)
    BY <1>4, DecoderStages
  <2>3. DecoderAt(p, c + 1) = Header(p.type, p.flags, <<>>)
    BY <2>1, DecoderStages
  <2> HIDE DEF byte
  <2>4. BytesReceived(DecoderAt(p, c), byte) =
          Outcome([DecoderAt(p, c) EXCEPT !.currPacket = (byte \div 16) * 16,
                                         !.headerFlags = byte % 16], FALSE, <<>>)
    BY <2>2 DEF BytesReceived, Header, Body
  <2>5. (byte \div 16) * 16 = p.type /\ byte % 16 = p.flags
    BY <2>1, <1>3
  <2>6. [DecoderAt(p, c) EXCEPT !.currPacket = p.type, !.headerFlags = p.flags]
           = DecoderAt(p, c + 1)
    BY <2>2, <2>3, HeaderRead, Zenon
  <2> QED BY <2>1, <2>4, <2>5, <2>6 DEF byte
<1>5. CASE c = 1
  <2>1. byte = n /\ c + 1 = 2 /\ (c + 1) - 2 = 0 /\ c + 1 >= 2 /\ c + 1 \in Nat /\ n \in 0 .. 7
    <3>1. c + 1 = 2 /\ (c + 1) - 2 = 0 /\ c + 1 >= 2 /\ c + 1 \in Nat
      BY <1>5
    <3>2. byte = n
      BY <1>1, <3>1, Zenon
    <3> HIDE DEF n
    <3>3. n \in 0 .. 7
      BY <1>0, <1>1
    <3> QED BY <3>1, <3>2, <3>3
  <2>2. DecoderAt(p, c) = Header(p.type, p.flags, <<>>)
    BY <1>5, DecoderStages
  <2>3. DecoderAt(p, c + 1) = Body(p.type, p.flags, n, SubSeq(p.body, 1, 0))
    <3>1. DecoderAt(p, c + 1) = Body(p.type, p.flags, n, SubSeq(p.body, 1, (c + 1) - 2))
      BY <2>1, DecoderStages
    <3> QED BY <2>1, <3>1, Zenon
  <2>4. SubSeq(p.body, 1, 0) = <<>>
    BY <1>2, SubSeqEmpty
  <2> HIDE DEF n, byte
  <2> DEFINE d == DecoderAt(p, c)
             stored == Append(d.storeRemainLen, byte)
             next == Body(p.type, p.flags, n, <<>>)
  <2>5. BytesReceived(d, byte) = LengthByte(d, byte)
    BY <2>2, <1>3 DEF BytesReceived, Header, Body
  <2>6. stored = <<n>> /\ ~TooLong(stored)
    BY <2>1, <2>2 DEF TooLong, Header, Body
  <2>7. DecodedLength(stored) = n
    BY <2>1, <2>6 DEF DecodedLength
  <2>8. ~(byte >= NEXT_128_CHUNK)
    BY <2>1 DEF NEXT_128_CHUNK
  <2>9. [d EXCEPT !.codecState = "VAR_HEADER", !.storeRemainLen = LengthBytesErased(stored),
                  !.totalLen = DecodedLength(stored), !.headerData = <<>>] = next
    BY <2>2, <2>7, LengthRead, Zenon DEF LengthBytesErased
  <2> HIDE DEF next
  <2>10. LengthByte(d, byte) = IF d.currPacket = PINGRESP_TYPE THEN Completed(next, FALSE)
                               ELSE Outcome(next, FALSE, <<>>)
    BY <2>6, <2>8, <2>9 DEF LengthByte
  <2>11. d.currPacket = p.type
    BY <2>2 DEF Header, Body
  <2>12. CASE n = 0
    <3>1. Completed(next, FALSE)
             = Outcome(NewCodec, FALSE, <<[type |-> p.type, flags |-> p.flags, body |-> <<>>]>>)
      BY PacketCompleted, Zenon DEF next
    <3>2. p.body = <<>>
      BY <1>2, <2>12, EmptySeq DEF n
    <3>3. c + 1 = Size(p)
      BY <1>1, <1>5, <2>12
    <3> QED BY <3>1, <3>2, <3>3, <1>2, <2>5, <2>10, <2>11, <2>12 DEF byte
  <2>13. CASE n # 0
    <3>1. c + 1 # Size(p)
      BY <1>1, <1>5, <2>1, <2>13
    <3>2. DecoderAt(p, c + 1) = next
      BY <2>3, <2>4 DEF next
    <3> QED BY <3>1, <3>2, <1>2, <2>5, <2>10, <2>11, <2>13 DEF byte
  <2> QED BY <2>12, <2>13
<1>6. CASE c >= 2
  <2>1. /\ n \in 1 .. 7 /\ c - 2 \in 0 .. (n - 1) /\ c - 1 \in 1 .. n /\ c + 1 \in 3 .. Size(p)
        /\ c + 1 >= 2
        /\ c + 1 \in Nat /\ (c + 1) - 2 = c - 1 /\ (c + 1 = Size(p) <=> c - 1 = n)
    <3> HIDE DEF n
    <3> QED BY <1>0, <1>1, <1>6
  <2>2. byte = p.body[c - 1]
    BY <1>1, <2>1, Zenon
  <2> DEFINE d == DecoderAt(p, c)
             next == Body(p.type, p.flags, n, SubSeq(p.body, 1, c - 1))
  <2>3. d = Body(p.type, p.flags, n, SubSeq(p.body, 1, c - 2))
    BY <1>6, DecoderStages
  <2>4. DecoderAt(p, c + 1) = next
    <3>1. DecoderAt(p, c + 1) = Body(p.type, p.flags, n, SubSeq(p.body, 1, (c + 1) - 2))
      BY <2>1, DecoderStages
    <3> QED BY <2>1, <3>1, Zenon
  <2>5. Append(SubSeq(p.body, 1, c - 2), byte) = SubSeq(p.body, 1, c - 1)
    <3> DEFINE k == c - 2
    <3>1. k \in 0 .. (Len(p.body) - 1) /\ k + 1 = c - 1
      BY <2>1
    <3> HIDE DEF k
    <3>2. Append(SubSeq(p.body, 1, k), p.body[k + 1]) = SubSeq(p.body, 1, k + 1)
      BY <3>1, <1>2
    <3> QED BY <3>1, <3>2, <2>2 DEF k
  <2>6. Len(SubSeq(p.body, 1, c - 1)) = c - 1
    <3> DEFINE k == c - 1
    <3>1. k \in 1 .. Len(p.body)
      BY <2>1
    <3> HIDE DEF k
    <3>2. Len(SubSeq(p.body, 1, k)) = k
      BY <3>1, <1>2
    <3> QED BY <3>2 DEF k
  <2> HIDE DEF n, byte
  <2>7. BytesReceived(d, byte) = BodyByte(d, byte)
    BY <2>3 DEF BytesReceived, Header, Body
  <2>8. [d EXCEPT !.headerData = Append(d.headerData, byte)] = next /\ d.totalLen = n
    <3>1. d.headerData = SubSeq(p.body, 1, c - 2) /\ d.totalLen = n
      BY <2>3 DEF Header, Body
    <3>2. [d EXCEPT !.headerData = SubSeq(p.body, 1, c - 1)] = next
      <4>1. [Body(p.type, p.flags, n, SubSeq(p.body, 1, c - 2))
                EXCEPT !.headerData = SubSeq(p.body, 1, c - 1)]
              = Body(p.type, p.flags, n, SubSeq(p.body, 1, c - 1))
        <5> DEFINE x == SubSeq(p.body, 1, c - 1)
                   y == SubSeq(p.body, 1, c - 2)
        <5> HIDE DEF x, y
        <5>1. [Body(p.type, p.flags, n, y) EXCEPT !.headerData = x]
                 = Body(p.type, p.flags, n, x)
          BY BodyByteRead
        <5> QED BY <5>1 DEF x, y
      <4> QED BY <2>3, <4>1, Zenon
    <3> QED BY <2>5, <3>1, <3>2, Zenon
  <2>9. AllReceived(next) <=> c - 1 = n
    <3>1. next.headerData = SubSeq(p.body, 1, c - 1) /\ next.totalLen = n
      BY DEF Header, Body
    <3>2. c - 1 >= n <=> c - 1 = n
      BY <2>1
    <3> QED BY <2>6, <3>1, <3>2 DEF AllReceived
  <2>10. n # 0
    BY <2>1
  <2>11. Completed(next, FALSE)
            = Outcome(NewCodec, FALSE, <<[type |-> p.type, flags |-> p.flags,
                                          body |-> SubSeq(p.body, 1, c - 1)]>>)
    BY PacketCompleted, Zenon
  <2> HIDE DEF next, d
  <2>12. BodyByte(d, byte) = IF AllReceived(next) THEN Completed(next, FALSE)
                             ELSE Outcome(next, FALSE, <<>>)
    BY <2>8, <2>10 DEF BodyByte
  <2>13. CASE c - 1 = n
    <3>1. SubSeq(p.body, 1, c - 1) = p.body
      BY <1>2, <2>13, SubSeqFull DEF n
    <3> QED BY <3>1, <1>2, <2>1, <2>7, <2>9, <2>11, <2>12, <2>13 DEF d, byte
  <2>14. CASE c - 1 # n
    BY <2>1, <2>4, <2>7, <2>9, <2>12, <2>14 DEF d, byte
  <2> QED BY <2>13, <2>14
<1>7. c = 0 \/ c = 1 \/ c >= 2
  OBVIOUS
<1> QED BY <1>4, <1>5, <1>6, <1>7

\* The large packet is refused at the last byte of its length.
LEMMA LargeDecoded ==
    ASSUME NEW c \in Nat, c < Size(LargePacket)
    PROVE  LET outcome == BytesReceived(DecoderAt(LargePacket, c),
                                        Transmitted(LargePacket)[c + 1])
           IN  IF c + 1 = Size(LargePacket) THEN outcome.failed
               ELSE outcome = Outcome(DecoderAt(LargePacket, c + 1), FALSE, <<>>)
<1> DEFINE p == LargePacket
           byte == Transmitted(p)[c + 1]
           outcome == BytesReceived(DecoderAt(p, c), byte)
<1> SUFFICES IF c + 1 = Size(p) THEN outcome.failed
             ELSE outcome = Outcome(DecoderAt(p, c + 1), FALSE, <<>>)
  BY Zenon
<1>0. Size(p) = 5 /\ p.type = 48 /\ p.flags = 0
  BY TransmittedLarge DEF LargePacket, PUBLISH_TYPE
<1>1. CASE c = 0
  <2>1. byte = 48 /\ c + 1 = 1
    BY <1>1, TransmittedLarge DEF PUBLISH_TYPE
  <2>2. DecoderAt(p, c) = Header(UNKNOWN_TYPE, 0, <<>>)
    BY <1>1, DecoderStages
  <2>3. DecoderAt(p, c + 1) = Header(p.type, p.flags, [i \in 1 .. ((c + 1) - 1) |-> 128])
    BY <2>1, DecoderStages
  <2>4. [i \in 1 .. ((c + 1) - 1) |-> 128] = <<>>
    BY <1>1
  <2> HIDE DEF byte, p
  <2>5. outcome = Outcome([DecoderAt(p, c) EXCEPT !.currPacket = (byte \div 16) * 16,
                                         !.headerFlags = byte % 16], FALSE, <<>>)
    BY <2>2 DEF BytesReceived, Header, Body
  <2>6. (byte \div 16) * 16 = 48 /\ byte % 16 = 0
    BY <2>1
  <2>7. [DecoderAt(p, c) EXCEPT !.currPacket = 48, !.headerFlags = 0] = DecoderAt(p, c + 1)
    <3>1. [Header(UNKNOWN_TYPE, 0, <<>>) EXCEPT !.currPacket = 48, !.headerFlags = 0]
             = Header(48, 0, <<>>)
      BY HeaderRead
    <3> QED BY <2>2, <2>3, <2>4, <1>0, <3>1, Zenon
  <2>8. c + 1 # Size(p)
    BY <1>0, <1>1
  <2> QED BY <2>5, <2>6, <2>7, <2>8 DEF byte, p
<1>2. CASE c \in 1 .. 4
  <2> DEFINE d == DecoderAt(p, c)
             stored == [i \in 1 .. (c - 1) |-> 128]
  <2>1. d = Header(p.type, p.flags, stored)
    BY <1>2, DecoderStages
  <2>2. c + 1 # 0 /\ (c + 1) - 1 = c
    BY <1>2
  <2>3. DecoderAt(p, c + 1) = Header(p.type, p.flags, [i \in 1 .. c |-> 128])
    BY <2>2, DecoderStages
  <2> HIDE DEF p, byte
  <2>4. outcome = LengthByte(d, byte)
    BY <2>1, <1>0 DEF BytesReceived, UNKNOWN_TYPE, Header, Body
  <2>5. d.storeRemainLen = stored /\ d.currPacket = 48
    BY <1>0, <2>1 DEF Header, Body
  <2>6. CASE c < 4
    <3>1. byte = 128 /\ c + 1 # Size(p)
      <4>1. c + 1 \in 2 .. 4 /\ c + 1 # Size(p)
        BY <1>0, <1>2, <2>6
      <4> QED BY <4>1, TransmittedLarge DEF byte, p
    <3>2. Append(stored, 128) = [i \in 1 .. c |-> 128]
      BY <1>2
    <3>3. [d EXCEPT !.storeRemainLen = Append(d.storeRemainLen, byte)] = DecoderAt(p, c + 1)
      <4>1. [d EXCEPT !.storeRemainLen = [i \in 1 .. c |-> 128]] = DecoderAt(p, c + 1)
        <5>1. [Header(p.type, p.flags, stored) EXCEPT !.storeRemainLen = [i \in 1 .. c |-> 128]]
                = Header(p.type, p.flags, [i \in 1 .. c |-> 128])
          <6> DEFINE x == [i \in 1 .. c |-> 128]
          <6> HIDE DEF x, stored
          <6> QED BY LengthByteRead DEF x
        <5> QED BY <2>1, <2>3, <5>1, Zenon
      <4> QED BY <2>5, <3>1, <3>2, <4>1, Zenon
    <3> HIDE DEF d, stored
    <3>4. LengthByte(d, byte)
             = Outcome([d EXCEPT !.storeRemainLen = Append(d.storeRemainLen, byte)], FALSE, <<>>)
      BY <3>1, <2>5 DEF LengthByte, NEXT_128_CHUNK, PINGRESP_TYPE
    <3> QED BY <2>4, <3>1, <3>3, <3>4 DEF d, p, byte
  <2>7. CASE c = 4
    <3>1. byte = 1 /\ c + 1 = Size(p)
      BY <1>0, <2>7, TransmittedLarge DEF byte, p
    <3>2. Len(Append(stored, 1)) = 4
      BY <2>7
    <3>3. TooLong(Append(d.storeRemainLen, byte))
      <4>1. Append(d.storeRemainLen, byte) = Append(stored, 1)
        BY <3>1, <2>5, Zenon
      <4>2. Len(Append(d.storeRemainLen, byte)) = 4
        BY <3>2, <4>1, Zenon
      <4> HIDE DEF d, stored
      <4> QED BY <4>2 DEF TooLong
    <3> HIDE DEF d, stored
    <3>4. LengthByte(d, byte).failed
      BY <3>1, <3>3 DEF LengthByte, NEXT_128_CHUNK, Outcome
    <3>5. outcome.failed
      BY <2>4, <3>4, Zenon
    <3> HIDE DEF outcome
    <3> QED BY <3>1, <3>5, Zenon
  <2>8. c < 4 \/ c = 4
    BY <1>2
  <2> QED BY <2>6, <2>7, <2>8, Zenon
<1>3. c = 0 \/ c \in 1 .. 4
  BY <1>0
<1> QED BY <1>1, <1>2, <1>3, Zenon

-----------------------------------------------------------------------------
(***************************************************************************)
(* The bytes on their way.                                                 *)
(***************************************************************************)
\* Every packet has two bytes at least.
LEMMA Sizes ==
    ASSUME NEW p \in Packets
    PROVE  Transmitted(p) \in Seq(Int) /\ Size(p) \in Nat /\ Size(p) >= 2
<1>1. CASE p = LargePacket
  BY <1>1, TransmittedLarge
<1>2. CASE p # LargePacket /\ WholePacket(p)
  BY <1>2, TransmittedWhole
<1> QED BY <1>1, <1>2, PacketShapes

\* The next byte on the wire is the one the decoder waits for.
LEMMA FrontByte ==
    ASSUME NEW packets \in Seq(Packets), NEW bytes \in Seq(Int), NEW decoder, NEW c \in Nat,
           NEW at \in [1 .. (Len(packets) + 1) -> Int],
           LaidOut(packets, bytes, decoder, c, at), bytes # <<>>
    PROVE  /\ packets # <<>> /\ Len(packets) \in Nat \ {0} /\ packets[1] \in Packets
           /\ c < Size(packets[1]) /\ Head(bytes) = Transmitted(packets[1])[c + 1]
           /\ decoder = DecoderAt(packets[1], c)
           /\ at[1] = 0 - c /\ at[2] = Size(packets[1]) - c
<1> DEFINE n == Len(packets)
<1>0. n \in Nat /\ Len(bytes) \in Nat /\ Len(bytes) > 0
  BY LenProperties, EmptySeq
<1>1. /\ at[1] = 0 - c /\ Len(bytes) = at[n + 1] /\ (n = 0 => c = 0)
      /\ n # 0 => decoder = DecoderAt(packets[1], c)
      /\ \A i \in 1 .. n : at[i + 1] = at[i] + Size(packets[i]) /\ at[i + 1] >= 1
      /\ \A i \in 1 .. n : \A j \in 1 .. Size(packets[i]) :
              at[i] + j >= 1 => bytes[at[i] + j] = Transmitted(packets[i])[j]
  BY DEF LaidOut
<1>2. n # 0
  <2> HIDE DEF n
  <2>1. ASSUME n = 0 PROVE FALSE
    <3>1. n + 1 = 1
      BY <2>1
    <3>2. at[n + 1] = 0 - c
      BY <3>1, <1>1, Zenon
    <3> QED BY <1>0, <1>1, <2>1, <3>2
  <2> QED BY <2>1
<1>3. packets[1] \in Packets /\ packets # <<>>
  BY <1>0, <1>2
<1>4. Size(packets[1]) \in Nat
  BY <1>3, Sizes
<1> HIDE DEF n
<1>5. 1 \in 1 .. n /\ 1 + 1 = 2
  BY <1>0, <1>2
<1>6. at[2] = at[1] + Size(packets[1]) /\ at[2] >= 1
  BY <1>1, <1>5, Zenon
<1>7. at[2] = Size(packets[1]) - c /\ c < Size(packets[1]) /\ c + 1 \in 1 .. Size(packets[1])
      /\ at[1] + (c + 1) = 1 /\ 1 >= 1
  BY <1>1, <1>4, <1>6
<1>8. bytes[1] = Transmitted(packets[1])[c + 1]
  BY <1>1, <1>5, <1>7, Zenon
<1>9. Head(bytes) = bytes[1]
  OBVIOUS
<1>10. n \in Nat \ {0}
  BY <1>0, <1>2
<1> QED BY <1>1, <1>2, <1>3, <1>7, <1>8, <1>9, <1>10, Zenon DEF n

\* What is left when a byte has been read.
LEMMA TailBytes ==
    ASSUME NEW bytes \in Seq(Int), bytes # <<>>
    PROVE  /\ Tail(bytes) \in Seq(Int) /\ Len(Tail(bytes)) = Len(bytes) - 1
           /\ \A k \in Nat : k >= 1 /\ k + 1 <= Len(bytes) => Tail(bytes)[k] = bytes[k + 1]
BY HeadTailProperties

\* A byte within a packet is read.
LEMMA InsideRead ==
    ASSUME NEW packets \in Seq(Packets), NEW bytes \in Seq(Int), NEW decoder, NEW c \in Nat,
           NEW at \in [1 .. (Len(packets) + 1) -> Int],
           LaidOut(packets, bytes, decoder, c, at), bytes # <<>>, c + 1 < Size(packets[1])
    PROVE  LaidOut(packets, Tail(bytes), DecoderAt(packets[1], c + 1), c + 1,
                   [i \in 1 .. (Len(packets) + 1) |-> at[i] - 1])
<1> DEFINE n == Len(packets)
           back == [i \in 1 .. (n + 1) |-> at[i] - 1]
<1>0. n \in Nat /\ n # 0 /\ at[2] = Size(packets[1]) - c
      /\ \A i \in 1 .. n : Size(packets[i]) \in Nat /\ Size(packets[i]) >= 2
  <2>1. \A i \in 1 .. n : packets[i] \in Packets
    OBVIOUS
  <2> QED BY <2>1, FrontByte, Sizes, SMTT(30)
<1>1. /\ at[1] = 0 - c /\ Len(bytes) = at[n + 1]
      /\ \A i \in 1 .. n : at[i + 1] = at[i] + Size(packets[i]) /\ at[i + 1] >= 1
      /\ \A i \in 1 .. (n + 1) : at[i] <= at[n + 1]
      /\ \A i \in 1 .. n : \A j \in 1 .. Size(packets[i]) :
              at[i] + j >= 1 => bytes[at[i] + j] = Transmitted(packets[i])[j]
  BY DEF LaidOut
<1> HIDE DEF n
<1>2. \A i \in 1 .. (n + 1) : back[i] = at[i] - 1 /\ at[i] \in Int
  BY DEF n
<1> HIDE DEF back
<1>3. back[1] = 0 - (c + 1)
  BY <1>0, <1>1, <1>2
<1>4. ASSUME NEW i \in 1 .. n PROVE back[i + 1] = back[i] + Size(packets[i]) /\ back[i + 1] >= 1
  <2>1. i \in 1 .. (n + 1) /\ i + 1 \in 1 .. (n + 1)
        /\ (i # 1 => i - 1 \in 1 .. n /\ (i - 1) + 1 = i)
    BY <1>0
  <2>2. back[i + 1] = at[i + 1] - 1 /\ back[i] = at[i] - 1 /\ at[i] \in Int /\ at[i + 1] \in Int
    BY <1>2, <2>1
  <2>3. at[i + 1] = at[i] + Size(packets[i]) /\ Size(packets[i]) \in Nat
        /\ Size(packets[i]) >= 2
    BY <1>0, <1>1
  <2>6. at[i + 1] >= 2 => back[i + 1] = back[i] + Size(packets[i]) /\ back[i + 1] >= 1
    <3> DEFINE a == at[i]  b == at[i + 1]  s == Size(packets[i])  d == back[i]  e == back[i + 1]
    <3>1. e = b - 1 /\ d = a - 1 /\ b = a + s /\ a \in Int /\ s \in Nat
      BY <2>2, <2>3
    <3> HIDE DEF a, b, s, d, e
    <3>2. b >= 2 => e = d + s /\ e >= 1
      BY <3>1
    <3> QED BY <3>2 DEF a, b, s, d, e
  <2>4. CASE i = 1
    <3>1. at[i + 1] = Size(packets[1]) - c /\ Size(packets[1]) \in Nat
      BY <1>0, <2>3, <2>4
    <3>2. at[i + 1] >= 2
      <4> DEFINE a == at[i + 1]  s == Size(packets[1])
      <4>1. a = s - c /\ s \in Nat /\ c + 1 < s
        BY <3>1
      <4> HIDE DEF a, s
      <4> QED BY <4>1 DEF a
    <3> QED BY <2>6, <3>2
  <2>5. CASE i # 1
    <3>1. at[i] >= 1
      BY <1>1, <2>1, <2>5, Zenon
    <3>2. at[i + 1] >= 2
      <4> DEFINE a == at[i]  b == at[i + 1]  s == Size(packets[i])
      <4>1. b = a + s /\ a \in Int /\ s \in Nat /\ s >= 2 /\ a >= 1
        BY <2>2, <2>3, <3>1
      <4> HIDE DEF a, b, s
      <4> QED BY <4>1 DEF b
    <3> QED BY <2>6, <3>2
  <2> QED BY <2>4, <2>5
<1>5. Len(Tail(bytes)) = back[n + 1]
  <2>1. n + 1 \in 1 .. (n + 1)
    BY <1>0
  <2>2. back[n + 1] = at[n + 1] - 1
    BY <2>1, <1>2, Zenon
  <2>3. Len(Tail(bytes)) = Len(bytes) - 1
    BY TailBytes
  <2> QED BY <1>1, <2>2, <2>3, Zenon
<1>6. ASSUME NEW i \in 1 .. (n + 1) PROVE back[i] <= back[n + 1]
  <2>1. n + 1 \in 1 .. (n + 1)
    BY <1>0
  <2> DEFINE a == at[i]  b == at[n + 1]  d == back[i]  e == back[n + 1]
  <2>2. a <= b /\ a \in Int /\ b \in Int /\ d = a - 1 /\ e = b - 1
    BY <2>1, <1>1, <1>2, Zenon
  <2> HIDE DEF a, b, d, e
  <2>3. d <= e
    BY <2>2
  <2> QED BY <2>3 DEF d, e
<1>7. ASSUME NEW i \in 1 .. n, NEW j \in 1 .. Size(packets[i]), back[i] + j >= 1
      PROVE  Tail(bytes)[back[i] + j] = Transmitted(packets[i])[j]
  <2>1. i \in 1 .. (n + 1) /\ i + 1 \in 1 .. (n + 1)
    BY <1>0
  <2>2. back[i] = at[i] - 1 /\ at[i] \in Int /\ at[i + 1] \in Int
    BY <1>2, <2>1
  <2>3. at[i + 1] = at[i] + Size(packets[i]) /\ Size(packets[i]) \in Nat
        /\ at[i + 1] <= at[n + 1]
    BY <1>0, <1>1, <2>1
  <2>4. at[n + 1] \in Int
    <3>1. n + 1 \in 1 .. (n + 1)
      BY <1>0
    <3> QED BY <3>1, <1>2, Zenon
  <2>5. /\ back[i] + j \in Nat /\ back[i] + j >= 1 /\ (back[i] + j) + 1 = at[i] + j
        /\ at[i] + j >= 1 /\ (back[i] + j) + 1 <= Len(bytes)
    <3> DEFINE a == at[i]  b == at[i + 1]  e == at[n + 1]  s == Size(packets[i])  d == back[i]
               l == Len(bytes)
    <3>1. /\ d = a - 1 /\ a \in Int /\ b \in Int /\ e \in Int /\ b = a + s /\ s \in Nat
          /\ b <= e
          /\ l = e /\ d + j >= 1 /\ j \in 1 .. s
      BY <1>1, <1>7, <2>2, <2>3, <2>4, Zenon
    <3> HIDE DEF a, b, d, e, s, l
    <3>2. d + j \in Nat /\ d + j >= 1 /\ (d + j) + 1 = a + j /\ a + j >= 1 /\ (d + j) + 1 <= l
      BY <3>1
    <3> QED BY <3>2 DEF a, d, l
  <2>6. Tail(bytes)[back[i] + j] = bytes[(back[i] + j) + 1]
    BY <2>5, TailBytes
  <2>7. bytes[at[i] + j] = Transmitted(packets[i])[j]
    BY <1>1, <2>5
  <2> QED BY <2>5, <2>6, <2>7, Zenon
<1> QED BY <1>0, <1>3, <1>4, <1>5, <1>6, <1>7, Zenon DEF LaidOut, back, n

\* The last byte of a packet is read.
LEMMA LastRead ==
    ASSUME NEW packets \in Seq(Packets), NEW bytes \in Seq(Int), NEW decoder, NEW c \in Nat,
           NEW at \in [1 .. (Len(packets) + 1) -> Int],
           LaidOut(packets, bytes, decoder, c, at), bytes # <<>>, c + 1 = Size(packets[1])
    PROVE  LaidOut(Tail(packets), Tail(bytes), NewCodec, 0,
                   [i \in 1 .. Len(packets) |-> at[i + 1] - 1])
<1> DEFINE n == Len(packets)
           back == [i \in 1 .. n |-> at[i + 1] - 1]
           rest == Tail(packets)
<1>0. n \in Nat /\ n # 0 /\ at[2] = Size(packets[1]) - c /\ packets # <<>>
      /\ \A i \in 1 .. n : /\ packets[i] \in Packets
                           /\ Size(packets[i]) \in Nat /\ Size(packets[i]) >= 2
  <2>1. \A i \in 1 .. n : packets[i] \in Packets
    OBVIOUS
  <2> QED BY <2>1, FrontByte, Sizes, SMTT(30)
<1>1. /\ Len(bytes) = at[n + 1]
      /\ \A i \in 1 .. n : at[i + 1] = at[i] + Size(packets[i]) /\ at[i + 1] >= 1
      /\ \A i \in 1 .. (n + 1) : at[i] <= at[n + 1]
      /\ \A i \in 1 .. n : \A j \in 1 .. Size(packets[i]) :
              at[i] + j >= 1 => bytes[at[i] + j] = Transmitted(packets[i])[j]
  BY DEF LaidOut
<1>2. rest \in Seq(Packets) /\ Len(rest) = n - 1
      /\ \A i \in 1 .. (n - 1) : rest[i] = packets[i + 1]
  BY <1>0, HeadTailProperties
<1>3. \A i \in 1 .. (n + 1) : at[i] \in Int
  OBVIOUS
<1> HIDE DEF n, rest
<1>4. \A i \in 1 .. n : back[i] = at[i + 1] - 1
  OBVIOUS
<1> HIDE DEF back
<1>5. back[1] = 0 - 0
  <2>1. 1 \in 1 .. n /\ 1 + 1 = 2 /\ 2 \in 1 .. (n + 1) /\ 1 \in 1 .. n
    BY <1>0
  <2>2. back[1] = at[2] - 1 /\ Size(packets[1]) \in Nat
    BY <1>0, <1>4, <2>1
  <2> QED BY <1>0, <2>2
<1>6. ASSUME NEW i \in 1 .. (n - 1)
      PROVE  back[i + 1] = back[i] + Size(rest[i]) /\ back[i + 1] >= 1
  <2>1. i \in 1 .. n /\ i + 1 \in 1 .. n /\ i + 1 \in 1 .. (n + 1)
        /\ (i + 1) + 1 \in 1 .. (n + 1)
    BY <1>0
  <2>2. back[i + 1] = at[(i + 1) + 1] - 1 /\ back[i] = at[i + 1] - 1
    BY <1>4, <2>1
  <2>3. /\ at[(i + 1) + 1] = at[i + 1] + Size(packets[i + 1]) /\ at[i + 1] >= 1
        /\ Size(packets[i + 1]) \in Nat /\ Size(packets[i + 1]) >= 2
    BY <1>0, <1>1, <2>1
  <2>4. at[i + 1] \in Int /\ rest[i] = packets[i + 1]
    BY <1>2, <1>3, <2>1
  <2> DEFINE a == at[i + 1]  b == at[(i + 1) + 1]  s == Size(packets[i + 1])
             d == back[i]  e == back[i + 1]
  <2>5. e = b - 1 /\ d = a - 1 /\ b = a + s /\ a >= 1 /\ a \in Int /\ s \in Nat /\ s >= 2
    BY <2>2, <2>3, <2>4
  <2> HIDE DEF a, b, s, d, e
  <2>6. e = d + s /\ e >= 1
    BY <2>5
  <2> QED BY <2>4, <2>6, Zenon DEF d, e, s
<1>7. Len(Tail(bytes)) = back[(n - 1) + 1]
  <2>1. n \in 1 .. n /\ (n - 1) + 1 = n
    BY <1>0
  <2>2. back[n] = at[n + 1] - 1
    BY <2>1, <1>4, Zenon
  <2>3. Len(Tail(bytes)) = Len(bytes) - 1
    BY TailBytes
  <2> QED BY <1>1, <2>1, <2>2, <2>3, Zenon
<1>8. \A i \in 1 .. ((n - 1) + 1) : back[i] <= back[(n - 1) + 1]
  <2>1. n \in 1 .. n /\ (n - 1) + 1 = n /\ n + 1 \in 1 .. (n + 1)
    BY <1>0
  <2> SUFFICES ASSUME NEW i \in 1 .. n PROVE back[i] <= back[n]
    BY <2>1
  <2>2. i + 1 \in 1 .. (n + 1)
    BY <1>0
  <2>3. at[i + 1] <= at[n + 1] /\ at[i + 1] \in Int /\ at[n + 1] \in Int
    BY <1>1, <1>3, <2>1, <2>2
  <2>4. back[i] = at[i + 1] - 1 /\ back[n] = at[n + 1] - 1
    BY <1>4, <2>1
  <2> QED BY <2>3, <2>4
<1>9. ASSUME NEW i \in 1 .. (n - 1), NEW j \in 1 .. Size(rest[i]), back[i] + j >= 1
      PROVE  Tail(bytes)[back[i] + j] = Transmitted(rest[i])[j]
  <2>1. i \in 1 .. n /\ i + 1 \in 1 .. n /\ i + 1 \in 1 .. (n + 1)
        /\ (i + 1) + 1 \in 1 .. (n + 1)
    BY <1>0
  <2>2. back[i] = at[i + 1] - 1 /\ at[i + 1] \in Int /\ at[(i + 1) + 1] \in Int
        /\ rest[i] = packets[i + 1]
    BY <1>2, <1>3, <1>4, <2>1
  <2>3. /\ at[(i + 1) + 1] = at[i + 1] + Size(packets[i + 1]) /\ Size(packets[i + 1]) \in Nat
        /\ at[(i + 1) + 1] <= at[n + 1]
    BY <1>0, <1>1, <2>1
  <2>4. at[n + 1] \in Int
    <3>1. n + 1 \in 1 .. (n + 1)
      BY <1>0
    <3> QED BY <3>1, <1>3, Zenon
  <2>5. j \in 1 .. Size(packets[i + 1])
    BY <2>2
  <2>6. /\ back[i] + j \in Nat /\ back[i] + j >= 1 /\ (back[i] + j) + 1 = at[i + 1] + j
        /\ at[i + 1] + j >= 1 /\ (back[i] + j) + 1 <= Len(bytes)
    <3> DEFINE a == at[i + 1]  b == at[(i + 1) + 1]  e == at[n + 1]  s == Size(packets[i + 1])
               d == back[i]  l == Len(bytes)
    <3>1. /\ d = a - 1 /\ a \in Int /\ b \in Int /\ e \in Int /\ b = a + s /\ s \in Nat
          /\ b <= e
          /\ l = e /\ d + j >= 1 /\ j \in 1 .. s
      BY <1>1, <1>9, <2>2, <2>3, <2>4, <2>5, Zenon
    <3> HIDE DEF a, b, d, e, s, l
    <3>2. d + j \in Nat /\ d + j >= 1 /\ (d + j) + 1 = a + j /\ a + j >= 1 /\ (d + j) + 1 <= l
      BY <3>1
    <3> QED BY <3>2 DEF a, d, l
  <2>7. Tail(bytes)[back[i] + j] = bytes[(back[i] + j) + 1]
    BY <2>6, TailBytes
  <2>8. bytes[at[i + 1] + j] = Transmitted(packets[i + 1])[j]
    BY <1>1, <2>1, <2>5, <2>6
  <2> QED BY <2>2, <2>6, <2>7, <2>8, Zenon
<1>10. DecoderAt(rest[1], 0) = NewCodec
  BY DEF DecoderAt
<1>11. Len(rest) = n - 1
  BY <1>2
<1> QED BY <1>5, <1>6, <1>7, <1>8, <1>9, <1>10, <1>11, Zenon DEF LaidOut, back, n, rest

\* One more packet is sent.
LEMMA OneMoreSent ==
    ASSUME NEW packets \in Seq(Packets), NEW bytes \in Seq(Int), NEW decoder, NEW c \in Nat,
           NEW at \in [1 .. (Len(packets) + 1) -> Int],
           LaidOut(packets, bytes, decoder, c, at), NEW p \in Packets
    PROVE  LaidOut(Append(packets, p), bytes \o Transmitted(p), decoder, c,
                   [i \in 1 .. (Len(packets) + 2) |-> IF i <= Len(packets) + 1 THEN at[i]
                                                    ELSE at[Len(packets) + 1] + Size(p)])
<1> DEFINE n == Len(packets)
           next == [i \in 1 .. (n + 2) |-> IF i <= n + 1 THEN at[i] ELSE at[n + 1] + Size(p)]
           all == Append(packets, p)
           sent == bytes \o Transmitted(p)
<1>0. /\ n \in Nat /\ Len(bytes) \in Nat
      /\ Transmitted(p) \in Seq(Int) /\ Size(p) \in Nat /\ Size(p) >= 2
      /\ \A i \in 1 .. n : packets[i] \in Packets
  BY LenProperties, Sizes
<1>1. /\ at[1] = 0 - c /\ Len(bytes) = at[n + 1] /\ (n = 0 => c = 0 /\ decoder = NewCodec)
      /\ n # 0 => decoder = DecoderAt(packets[1], c)
      /\ \A i \in 1 .. n : at[i + 1] = at[i] + Size(packets[i]) /\ at[i + 1] >= 1
      /\ \A i \in 1 .. (n + 1) : at[i] <= at[n + 1]
      /\ \A i \in 1 .. n : \A j \in 1 .. Size(packets[i]) :
              at[i] + j >= 1 => bytes[at[i] + j] = Transmitted(packets[i])[j]
  BY DEF LaidOut
<1>2. /\ all \in Seq(Packets) /\ Len(all) = n + 1 /\ all[n + 1] = p
      /\ \A i \in 1 .. n : all[i] = packets[i]
  BY AppendProperties
<1>3. /\ sent \in Seq(Int) /\ Len(sent) = Len(bytes) + Size(p)
      /\ \A k \in 1 .. (Len(bytes) + Size(p)) :
            sent[k] = IF k <= Len(bytes) THEN bytes[k] ELSE Transmitted(p)[k - Len(bytes)]
  BY <1>0, ConcatProperties DEF Size
<1>4. \A i \in 1 .. (n + 1) : at[i] \in Int
  OBVIOUS
<1> HIDE DEF n, all, sent
<1>5. /\ \A i \in 1 .. (n + 1) : next[i] = at[i]
      /\ next[n + 2] = at[n + 1] + Size(p)
  BY <1>0
<1> HIDE DEF next
<1>6. n + 1 \in 1 .. (n + 1) /\ 1 \in 1 .. (n + 1) /\ (n + 1) + 1 = n + 2
  BY <1>0
<1> DEFINE l == Len(bytes)  s == Size(p)
<1>7. next[n + 1] = l /\ next[n + 2] = l + s /\ next[1] = 0 - c
  BY <1>1, <1>5, <1>6, Zenon
<1>8. l \in Nat /\ s \in Nat /\ s >= 2
  BY <1>0
<1>9. ASSUME NEW i \in 1 .. (n + 1)
      PROVE  next[i + 1] = next[i] + Size(all[i]) /\ next[i + 1] >= 1
  <2>1. CASE i = n + 1
    <3>1. next[i + 1] = l + s /\ next[i] = l /\ Size(all[i]) = s
      BY <1>2, <1>6, <1>7, <2>1, Zenon
    <3> HIDE DEF l, s
    <3>2. l + s >= 1
      BY <1>8
    <3> QED BY <3>1, <3>2, Zenon
  <2>2. CASE i # n + 1
    <3>1. i \in 1 .. n /\ i + 1 \in 1 .. (n + 1)
      BY <1>0, <2>2
    <3> QED BY <3>1, <1>1, <1>2, <1>5, Zenon
  <2> QED BY <2>1, <2>2
<1>10. ASSUME NEW i \in 1 .. (n + 1) PROVE next[i] <= l
  BY <1>1, <1>5, Zenon
<1>11. ASSUME NEW i \in 1 .. (n + 2) PROVE next[i] <= next[n + 2]
  <2>1. CASE i = n + 2
    <3> HIDE DEF l, s
    <3>1. l + s <= l + s
      BY <1>8
    <3> QED BY <2>1, <3>1, <1>7, Zenon
  <2>2. CASE i # n + 2
    <3>1. i \in 1 .. (n + 1)
      BY <1>0, <2>2
    <3> DEFINE a == next[i]
    <3>2. a <= l /\ a \in Int
      BY <1>4, <1>5, <1>10, <3>1, Zenon
    <3> HIDE DEF a, l, s
    <3>3. a <= l + s
      BY <1>8, <3>2
    <3> QED BY <3>3, <1>7, Zenon DEF a
  <2> QED BY <2>1, <2>2
<1>12. ASSUME NEW i \in 1 .. (n + 1), NEW j \in 1 .. Size(all[i]), next[i] + j >= 1
       PROVE  sent[next[i] + j] = Transmitted(all[i])[j]
  <2>1. CASE i = n + 1
    <3>1. next[i] = l /\ all[i] = p /\ j \in 1 .. s
      BY <1>2, <1>7, <2>1, Zenon
    <3> HIDE DEF l, s
    <3>2. l + j \in 1 .. (l + s) /\ ~(l + j <= l) /\ (l + j) - l = j
      BY <1>8, <3>1
    <3>3. sent[l + j] = Transmitted(p)[j]
      BY <1>3, <3>2, Zenon DEF l, s
    <3> QED BY <3>1, <3>3, Zenon
  <2>2. CASE i # n + 1
    <3>1. i \in 1 .. n /\ i + 1 \in 1 .. (n + 1)
      BY <1>0, <2>2
    <3> DEFINE a == at[i]  b == at[i + 1]  z == Size(packets[i])
    <3>2. next[i] = a /\ all[i] = packets[i] /\ b = a + z /\ b <= l /\ a \in Int /\ b \in Int
      BY <1>1, <1>2, <1>4, <1>5, <3>1, Zenon
    <3>3. z \in Nat
      BY <1>0, <3>1, Sizes
    <3>4. j \in 1 .. z /\ a + j >= 1
      BY <3>2, <1>12, Zenon
    <3>5. bytes[a + j] = Transmitted(packets[i])[j]
      BY <1>1, <3>1, <3>4, Zenon
    <3> HIDE DEF a, b, z, l, s
    <3>6. a + j \in 1 .. (l + s) /\ a + j <= l
      BY <1>8, <3>2, <3>3, <3>4
    <3>7. sent[a + j] = bytes[a + j]
      BY <1>3, <3>6, Zenon DEF l, s
    <3> QED BY <3>2, <3>5, <3>7, Zenon
  <2> QED BY <2>1, <2>2
<1>13. decoder = DecoderAt(all[1], c) /\ n + 1 # 0
  <2>1. CASE n = 0
    <3>1. DecoderAt(all[1], 0) = NewCodec
      BY DEF DecoderAt
    <3> QED BY <1>0, <1>1, <2>1, <3>1
  <2>2. CASE n # 0
    <3>1. 1 \in 1 .. n /\ n + 1 # 0
      BY <1>0, <2>2
    <3> QED BY <1>1, <1>2, <2>2, <3>1, Zenon
  <2> QED BY <2>1, <2>2
<1>14. Len(sent) = next[(n + 1) + 1] /\ Len(all) = n + 1
  BY <1>2, <1>3, <1>6, <1>7, Zenon
<1>15. \A i \in 1 .. ((n + 1) + 1) : next[i] <= next[(n + 1) + 1]
  BY <1>6, <1>11, Zenon
<1> QED BY <1>7, <1>9, <1>12, <1>13, <1>14, <1>15, Zenon DEF LaidOut, next, n, all, sent

-----------------------------------------------------------------------------
(***************************************************************************)
(* The link: what a step does to the bytes and to the session.             *)
(***************************************************************************)
\* What the broker's actions send.
LEMMA SentPackets ==
    /\ \A code \in {0, 3, 4} : ConnAck(code) \in Packets
    /\ \A kind \in Kinds : PublishPacket(kind) \in Packets
    /\ \A type \in AnswerTypes : Answer(type) \in Packets
    /\ PingResp \in Packets /\ LargePacket \in Packets
BY DEF Packets

\* What the decoder makes of the next byte, when the packets are in place.
LEMMA ByteTaken ==
    ASSUME inbound \in Seq(Int), expected \in Seq(Packets),
           arrived \in 0 .. Len(inbound), arrived > 0,
           NEW c \in Nat, NEW at \in [1 .. (Len(expected) + 1) -> Int],
           LaidOut(expected, inbound, codec, c, at)
    PROVE  LET p == expected[1]
           IN  /\ expected # <<>> /\ inbound # <<>> /\ p \in Packets /\ Head(expected) = p
               /\ \/ /\ c + 1 < Size(p) /\ ~NextByte.failed /\ NextByte.packets = <<>>
                     /\ NextByte.codec = DecoderAt(p, c + 1)
                  \/ /\ c + 1 = Size(p) /\ p # LargePacket /\ ~NextByte.failed
                     /\ NextByte.packets = <<p>> /\ NextByte.codec = NewCodec
                  \/ NextByte.failed
<1> DEFINE p == expected[1]
<1>0. inbound # <<>>
  BY EmptySeq
<1>1. /\ expected # <<>> /\ p \in Packets /\ c < Size(p)
      /\ Head(inbound) = Transmitted(p)[c + 1] /\ codec = DecoderAt(p, c)
  BY <1>0, FrontByte
<1>2. Head(expected) = p
  BY <1>1
<1>3. Size(p) \in Nat
  BY <1>1, Sizes
<1>4. NextByte = BytesReceived(DecoderAt(p, c), Transmitted(p)[c + 1])
  BY <1>1, Zenon DEF NextByte
<1> HIDE DEF p
<1>5. c + 1 < Size(p) \/ c + 1 = Size(p)
  BY <1>1, <1>3
<1>6. \A decoder, packets : /\ Outcome(decoder, FALSE, packets).codec = decoder
                            /\ ~Outcome(decoder, FALSE, packets).failed
                            /\ Outcome(decoder, FALSE, packets).packets = packets
  BY DEF Outcome
<1>7. c + 1 < Size(p) => c + 1 # Size(p)
  BY <1>3
<1>8. CASE p = LargePacket
  <2>1. CASE c + 1 = Size(p)
    <3>1. NextByte.failed
      BY <1>1, <1>4, <1>8, <2>1, LargeDecoded, Zenon
    <3> QED BY <1>0, <1>1, <1>2, <3>1, ZenonT(40) DEF p
  <2>2. CASE c + 1 < Size(p)
    <3>1. NextByte = Outcome(DecoderAt(p, c + 1), FALSE, <<>>)
      BY <1>1, <1>4, <1>7, <1>8, <2>2, LargeDecoded, Zenon
    <3> QED BY <1>0, <1>1, <1>2, <1>6, <2>2, <3>1, ZenonT(40) DEF p
  <2> QED BY <1>5, <2>1, <2>2, Zenon
<1>9. CASE p # LargePacket
  <2>0. WholePacket(p)
    BY <1>1, <1>9, PacketShapes, Zenon
  <2>1. CASE c + 1 = Size(p)
    <3>1. NextByte = Outcome(NewCodec, FALSE, <<p>>)
      BY <1>1, <1>4, <1>9, <2>0, <2>1, WholeDecoded, Zenon
    <3> QED BY <1>0, <1>1, <1>2, <1>6, <1>9, <2>1, <3>1, ZenonT(40) DEF p
  <2>2. CASE c + 1 < Size(p)
    <3>1. NextByte = Outcome(DecoderAt(p, c + 1), FALSE, <<>>)
      BY <1>1, <1>4, <1>7, <1>9, <2>0, <2>2, WholeDecoded, Zenon
    <3> QED BY <1>0, <1>1, <1>2, <1>6, <2>2, <3>1, ZenonT(40) DEF p
  <2> QED BY <1>5, <2>1, <2>2, Zenon
<1> QED BY <1>8, <1>9

-----------------------------------------------------------------------------
\* Every action keeps the link consistent.
LEMMA LinkStep == ASSUME LinkInv, [Next]_vars PROVE LinkInv'
<1> USE DEF LinkInv
<1>0. <<>> \in Seq(Int) /\ <<>> \in Seq(Packets) /\ Len(<<>>) = 0 /\ 0 \in 0 .. 0
  BY EmptySeq
<1>1. CASE DisconnectWithoutSession \/ DisconnectSession \/ IoError \/ ReadError
           \/ NoPingResponse \/ ReadConnAckRefused \/ ReadPublishFails
  <2>1. CloseConnection /\ pc' # "read"
    BY <1>1 DEF DisconnectWithoutSession, DisconnectSession, IoError, ReadError,
              NoPingResponse, SetErrorCallback, ReadConnAckRefused, ReadPublishFails,
              DoworkEnd
  <2>2. /\ inbound' = <<>> /\ expected' = <<>> /\ arrived' = 0 /\ owed' = NoAnswer
        /\ broker' = "none"
        /\ ~clientConnected'
    BY <2>1 DEF CloseConnection
  <2> QED BY <1>0, <2>1, <2>2
<1>2. CASE \E delivered \in BOOLEAN : Connect(delivered)
  BY <1>2 DEF Connect, wireVars
<1>3. CASE ConnectFails
  BY <1>3 DEF ConnectFails, wireVars, brokerVars, sessionVars
<1>4. CASE \E delivered \in BOOLEAN :
             Publish(delivered) \/ Subscribe(delivered) \/ Unsubscribe(delivered)
  <2>1. /\ socketConnected /\ UNCHANGED <<inbound, arrived, expected, socketConnected, pc>>
        /\ owed' \in {owed, SUBACK_TYPE, UNSUBACK_TYPE, PUBACK_TYPE, PUBREC_TYPE}
    BY <1>4 DEF Publish, Subscribe, Unsubscribe, Request, wireVars, sessionVars, NoAnswer
  <2> QED BY <2>1 DEF AnswerTypes
<1>5. CASE DoworkBegin
  BY <1>5 DEF DoworkBegin, sessionVars, wireVars, brokerVars
<1>6. CASE ReadDone \/ NoPingNeeded \/ Tick \/ \E delivered \in BOOLEAN : SendPing(delivered)
  BY <1>6 DEF ReadDone, NoPingNeeded, Tick, SendPing, DoworkEnd, sessionVars, wireVars,
     brokerVars
<1>7. CASE ReadByte \/ ReadConnAck \/ ReadPingResp \/ ReadAnswer \/ ReadPublish
           \/ \E delivered \in BOOLEAN : ReadRelease(delivered)
  <2>1. /\ pc = "read" /\ arrived > 0 /\ inbound' = Tail(inbound) /\ arrived' = arrived - 1
        /\ expected' \in {expected, IF expected = <<>> THEN <<>> ELSE Tail(expected)}
        /\ UNCHANGED <<socketConnected, broker>> /\ owed' \in {owed, PUBCOMP_TYPE}
    BY <1>7 DEF ReadByte, ReadConnAck, ReadPingResp, ReadAnswer, ReadPublish, ReadRelease,
              PacketComplete, ReadsByte, LeavesRest, Decoded, sessionVars, brokerVars
  <2>2. socketConnected'
    BY <2>1
  <2>3. inbound # <<>>
    BY <2>1, EmptySeq
  <2>4. inbound' \in Seq(Int) /\ Len(inbound') = Len(inbound) - 1
    BY <2>1, <2>3, TailBytes
  <2>5. arrived' \in 0 .. Len(inbound')
    <3>1. Len(inbound) \in Nat
      BY LenProperties
    <3> QED BY <2>1, <2>4, <3>1
  <2>6. expected' \in Seq(Packets)
    <3>1. expected # <<>> => Tail(expected) \in Seq(Packets)
      BY HeadTailProperties
    <3> QED BY <2>1, <3>1, <1>0
  <2> QED BY <2>1, <2>2, <2>4, <2>5, <2>6 DEF AnswerTypes
<1>8. ASSUME NEW p \in Packets, BrokerSends(p), broker # "none" \/ owed # NoAnswer,
             owed' \in {owed, NoAnswer}
      PROVE  LinkInv'
  <2>1. /\ expected' = Append(expected, p) /\ inbound' = inbound \o Transmitted(p)
        /\ UNCHANGED <<arrived, pc, socketConnected>>
    BY <1>8 DEF BrokerSends, sessionVars
  <2>2. socketConnected
    BY <1>8
  <2>3. expected' \in Seq(Packets)
    BY <2>1
  <2>4. Transmitted(p) \in Seq(Int)
    BY Sizes
  <2>5. inbound' \in Seq(Int) /\ Len(inbound') = Len(inbound) + Len(Transmitted(p))
    BY <2>1, <2>4, ConcatProperties
  <2>6. Len(inbound) \in Nat /\ Len(Transmitted(p)) \in Nat
    BY <2>4, LenProperties
  <2>7. arrived' \in 0 .. Len(inbound')
    BY <2>1, <2>5, <2>6
  <2> QED BY <1>8, <2>1, <2>2, <2>3, <2>5, <2>7
<1>9. CASE BrokerAccepts
  BY <1>9, <1>8, SentPackets DEF BrokerAccepts
<1>10. CASE \E code \in {3, 4} : BrokerRefuses(code)
  BY <1>10, <1>8, SentPackets DEF BrokerRefuses
<1>11. CASE \E kind \in Kinds : BrokerPublishes(PublishPacket(kind))
  BY <1>11, <1>8, SentPackets DEF BrokerPublishes, brokerVars
<1>12. CASE BrokerPublishes(LargePacket)
  BY <1>12, <1>8, SentPackets DEF BrokerPublishes, brokerVars
<1>13. CASE BrokerAnswersPing
  BY <1>13, <1>8, SentPackets DEF BrokerAnswersPing
<1>14. CASE BrokerAnswers
  <2>1. owed \in AnswerTypes
    BY <1>14 DEF BrokerAnswers
  <2>2. Answer(owed) \in Packets
    BY <2>1, SentPackets
  <2> QED BY <1>14, <1>8, <2>2 DEF BrokerAnswers
<1>15. CASE \E k \in DOMAIN inbound : Arrive(k)
  <2>1. PICK k \in DOMAIN inbound : Arrive(k)
    BY <1>15
  <2>2. k \in 1 .. Len(inbound)
    OBVIOUS
  <2>3. arrived' = k /\ inbound' = inbound /\ expected' = expected /\ pc' = pc
    BY <2>1 DEF Arrive
  <2>4. UNCHANGED <<owed, broker, socketConnected, clientConnected>>
    BY <2>1 DEF Arrive, sessionVars, brokerVars
  <2>5. arrived' \in 0 .. Len(inbound')
    BY <2>2, <2>3
  <2> QED BY <2>3, <2>4, <2>5
<1>16. CASE UNCHANGED vars
  BY <1>16 DEF vars, sessionVars, wireVars, brokerVars
<1> QED
  BY <1>1, <1>2, <1>3, <1>4, <1>5, <1>6, <1>7, <1>9, <1>10, <1>11, <1>12, <1>13, <1>14, <1>15,
     <1>16 DEF Next, Calls, Dowork, Environment, Terminated

\* The packets stay where they are when neither the bytes nor the decoder change.
LEMMA PlaceKept ==
    ASSUME InPlace, UNCHANGED <<expected, inbound, codec, arrived>>,
           Pinging' /\ pingAnswered' # NoPing => Pinging /\ pingAnswered # NoPing
    PROVE  InPlace'
<1>1. PICK c \in Nat, at \in [1 .. (Len(expected) + 1) -> Int] :
         LaidOut(expected, inbound, codec, c, at) /\ AnswerIsThere(at)
  BY Zenon DEF InPlace
<1>2. expected' = expected /\ inbound' = inbound /\ codec' = codec /\ arrived' = arrived
  OBVIOUS
<1>3. AnswerIsThere(at)'
  BY <1>1, <1>2, Zenon DEF AnswerIsThere
<1> QED BY <1>1, <1>2, <1>3, Zenon DEF InPlace

\* When everything has arrived, so has the PINGRESP.
LEMMA PlaceArrived ==
    ASSUME LinkInv, InPlace, NEW k \in DOMAIN inbound, Arrive(k)
    PROVE  InPlace'
<1>1. PICK c \in Nat, at \in [1 .. (Len(expected) + 1) -> Int] :
         LaidOut(expected, inbound, codec, c, at) /\ AnswerIsThere(at)
  BY Zenon DEF InPlace
<1>2. /\ expected' = expected /\ inbound' = inbound /\ codec' = codec /\ arrived' = k
      /\ k > arrived
      /\ Pinging' = Pinging
      /\ pingAnswered' = IF /\ k = Len(inbound)
                            /\ PingResp \in {expected[i] : i \in DOMAIN expected}
                         THEN timeSincePing ELSE pingAnswered
  BY DEF Arrive, sessionVars, timeVars, Pinging
<1>3. /\ Len(expected) \in Nat /\ DOMAIN expected = 1 .. Len(expected) /\ arrived \in Int
      /\ inbound \in Seq(Int) /\ Len(inbound) \in Nat
  BY LenProperties DEF LinkInv
<1>4. \A i \in 1 .. Len(expected) : at[i + 1] \in Int
  <2>1. \A i \in 1 .. Len(expected) : i + 1 \in 1 .. (Len(expected) + 1)
    BY <1>3
  <2> QED BY <2>1, Zenon
<1>5. AnswerIsThere(at)'
  <2> SUFFICES ASSUME Pinging', pingAnswered' # NoPing
               PROVE  \E i \in 1 .. Len(expected) : expected[i] = PingResp /\ at[i + 1] <= k
    BY <1>2, Zenon DEF AnswerIsThere
  <2>1. CASE k = Len(inbound) /\ PingResp \in {expected[i] : i \in DOMAIN expected}
    <3>1. PICK i \in 1 .. Len(expected) : expected[i] = PingResp
      BY <1>3, <2>1, Zenon
    <3>2. i + 1 \in 1 .. (Len(expected) + 1)
      BY <1>3
    <3>3. at[i + 1] <= at[Len(expected) + 1] /\ Len(inbound) = at[Len(expected) + 1]
      BY <1>1, <3>2, Zenon DEF LaidOut
    <3> QED BY <2>1, <3>1, <3>3, Zenon
  <2>2. CASE ~(k = Len(inbound) /\ PingResp \in {expected[i] : i \in DOMAIN expected})
    <3>1. pingAnswered' = pingAnswered /\ Pinging
      BY <1>2, <2>2, Zenon
    <3>2. PICK i \in 1 .. Len(expected) : expected[i] = PingResp /\ at[i + 1] <= arrived
      BY <1>1, <3>1, Zenon DEF AnswerIsThere
    <3>3. k \in Int
      <4>1. k \in 1 .. Len(inbound)
        BY <1>3
      <4> QED BY <4>1, <1>3
    <3>4. at[i + 1] <= k
      BY <1>2, <1>3, <1>4, <3>2, <3>3
    <3> QED BY <3>2, <3>4, Zenon
  <2> QED BY <2>1, <2>2
<1> QED BY <1>1, <1>2, <1>5, Zenon DEF InPlace

\* A packet is sent behind the others.
LEMMA PlaceSent ==
    ASSUME LinkInv, InPlace, NEW p \in Packets, BrokerSends(p)
    PROVE  InPlace'
<1>1. PICK c \in Nat, at \in [1 .. (Len(expected) + 1) -> Int] :
         LaidOut(expected, inbound, codec, c, at) /\ AnswerIsThere(at)
  BY Zenon DEF InPlace
<1>2. /\ expected' = Append(expected, p) /\ inbound' = inbound \o Transmitted(p)
      /\ codec' = codec /\ arrived' = arrived /\ pingAnswered' = pingAnswered
      /\ Pinging' = Pinging
  BY DEF BrokerSends, sessionVars, timeVars, Pinging
<1>0. Len(expected) \in Nat
  BY LenProperties DEF LinkInv
<1>13. LaidOut(Append(expected, p), inbound \o Transmitted(p), codec, c,
               [i \in 1 .. (Len(expected) + 2) |-> IF i <= Len(expected) + 1 THEN at[i]
                                                  ELSE at[Len(expected) + 1] + Size(p)])
  <2>1. inbound \in Seq(Int) /\ expected \in Seq(Packets)
    BY DEF LinkInv
  <2> QED BY <1>1, <2>1, OneMoreSent, Zenon
<1> PICK n \in Nat : n = Len(expected)
  BY <1>0
<1> DEFINE next == [i \in 1 .. (n + 2) |-> IF i <= n + 1 THEN at[i] ELSE at[n + 1] + Size(p)]
<1>3. /\ n \in Nat /\ inbound \in Seq(Int) /\ expected \in Seq(Packets)
      /\ Len(Append(expected, p)) = n + 1
      /\ \A i \in 1 .. n : Append(expected, p)[i] = expected[i]
  BY LenProperties, AppendProperties DEF LinkInv
<1>4. LaidOut(Append(expected, p), inbound \o Transmitted(p), codec, c, next)
  BY <1>13, Zenon
<1>5. Size(p) \in Nat
  BY Sizes
<1>6. \A i \in 1 .. (n + 1) : at[i] \in Int
  OBVIOUS
<1>7. next \in [1 .. (n + 2) -> Int]
  <2>1. ASSUME NEW i \in 1 .. (n + 2)
        PROVE  (IF i <= n + 1 THEN at[i] ELSE at[n + 1] + Size(p)) \in Int
    <3>1. n + 1 \in 1 .. (n + 1)
      BY <1>3
    <3>2. at[n + 1] \in Int
      BY <3>1, <1>6, Zenon
    <3>3. i <= n + 1 => i \in 1 .. (n + 1)
      BY <1>3
    <3>4. at[n + 1] + Size(p) \in Int
      BY <1>5, <3>2
    <3> QED BY <1>6, <3>3, <3>4, Zenon
  <2> QED BY <2>1, Zenon
<1>8. \A i \in 1 .. (n + 1) : next[i] = at[i]
  BY <1>3
<1> HIDE DEF next
<1>9. \A i \in 1 .. n : i + 1 \in 1 .. (n + 1) /\ i \in 1 .. (n + 1)
  BY <1>3
<1>10. (n + 1) + 1 = n + 2
  BY <1>3
<1>11. AnswerIsThere(next)'
  <2> SUFFICES ASSUME Pinging, pingAnswered # NoPing
               PROVE  \E i \in 1 .. (n + 1) :
                          Append(expected, p)[i] = PingResp /\ next[i + 1] <= arrived
    BY <1>2, <1>3, Zenon DEF AnswerIsThere
  <2>1. PICK i \in 1 .. n : expected[i] = PingResp /\ at[i + 1] <= arrived
    BY <1>1, Zenon DEF AnswerIsThere
  <2> QED BY <2>1, <1>3, <1>8, <1>9, Zenon
<1>12. next \in [1 .. (Len(Append(expected, p)) + 1) -> Int]
  BY <1>3, <1>7, <1>10, Zenon
<1> QED BY <1>1, <1>2, <1>4, <1>11, <1>12, Zenon DEF InPlace

\* A byte within a packet is read.
LEMMA PlaceInside ==
    ASSUME LinkInv, InPlace, ReadByte
    PROVE  InPlace'
<1>1. PICK c \in Nat, at \in [1 .. (Len(expected) + 1) -> Int] :
         LaidOut(expected, inbound, codec, c, at) /\ AnswerIsThere(at)
  BY Zenon DEF InPlace
<1>2. /\ inbound' = Tail(inbound) /\ arrived' = arrived - 1 /\ codec' = NextByte.codec
      /\ arrived > 0
      /\ ~NextByte.failed /\ NextByte.packets = <<>>
      /\ expected' = expected /\ pingAnswered' = pingAnswered /\ Pinging' = Pinging
  BY DEF ReadByte, ReadsByte, LeavesRest, sessionVars, timeVars, Pinging
<1>0. Len(expected) \in Nat
  BY LenProperties DEF LinkInv
<1> PICK n \in Nat : n = Len(expected)
  BY <1>0
<1> DEFINE p == expected[1]
           back == [i \in 1 .. (n + 1) |-> at[i] - 1]
<1>3. n \in Nat /\ inbound \in Seq(Int) /\ expected \in Seq(Packets)
      /\ arrived \in 0 .. Len(inbound)
      /\ arrived \in Int
  BY LenProperties DEF LinkInv
<1>4. inbound # <<>> /\ c + 1 < Size(p) /\ codec' = DecoderAt(p, c + 1)
  <2>1. /\ inbound # <<>>
        /\ \/ /\ c + 1 < Size(p) /\ ~NextByte.failed /\ NextByte.packets = <<>>
              /\ NextByte.codec = DecoderAt(p, c + 1)
           \/ NextByte.packets = <<p>>
           \/ NextByte.failed
    BY <1>1, <1>2, <1>3, ByteTaken, Zenon
  <2>2. <<p>> # <<>>
    OBVIOUS
  <2> QED BY <2>1, <2>2, <1>2, Zenon
<1>5. LaidOut(expected, Tail(inbound), DecoderAt(p, c + 1), c + 1, back)
  BY <1>1, <1>3, <1>4, InsideRead, ZenonT(40)
<1>6. \A i \in 1 .. (n + 1) : at[i] \in Int
  OBVIOUS
<1>7. back \in [1 .. (n + 1) -> Int] /\ \A i \in 1 .. (n + 1) : back[i] = at[i] - 1
  BY <1>6
<1> HIDE DEF back
<1>8. AnswerIsThere(back)'
  <2> SUFFICES ASSUME Pinging, pingAnswered # NoPing
               PROVE  \E i \in 1 .. n : expected[i] = PingResp /\ back[i + 1] <= arrived - 1
    BY <1>2, Zenon DEF AnswerIsThere
  <2>1. PICK i \in 1 .. n : expected[i] = PingResp /\ at[i + 1] <= arrived
    BY <1>1, Zenon DEF AnswerIsThere
  <2>2. i + 1 \in 1 .. (n + 1)
    BY <1>3
  <2> DEFINE a == at[i + 1]  b == back[i + 1]
  <2>3. a \in Int /\ b = a - 1 /\ a <= arrived
    BY <1>6, <1>7, <2>1, <2>2, Zenon
  <2> HIDE DEF a, b
  <2>4. b <= arrived - 1
    BY <1>3, <2>3
  <2> QED BY <2>1, <2>4, Zenon DEF b
<1>9. c + 1 \in Nat
  OBVIOUS
<1>10. \E d \in Nat : \E r \in [1 .. (Len(expected) + 1) -> Int] :
          LaidOut(expected, Tail(inbound), DecoderAt(p, c + 1), d, r) /\ AnswerIsThere(r)'
  BY <1>5, <1>7, <1>8, <1>9, Zenon
<1> QED BY <1>2, <1>4, <1>10, Zenon DEF InPlace

\* A packet is complete: it is the one the broker sent.
LEMMA PacketAsSent ==
    ASSUME LinkInv, InPlace, NEW types, PacketComplete(types)
    PROVE  /\ expected # <<>> /\ Packet = expected[1] /\ Packet = Head(expected)
           /\ Packet \in Packets
           /\ Packet # LargePacket /\ Packet.type \in types /\ codec' = NewCodec
           /\ ~garbled => ~garbled'
<1>1. PICK c \in Nat, at \in [1 .. (Len(expected) + 1) -> Int] :
         LaidOut(expected, inbound, codec, c, at) /\ AnswerIsThere(at)
  BY Zenon DEF InPlace
<1>2. /\ codec' = NextByte.codec /\ arrived > 0 /\ ~NextByte.failed /\ NextByte.packets # <<>>
      /\ Packet.type \in types
      /\ garbled' = (garbled \/ expected = <<>> \/ Packet # Head(expected))
  BY DEF PacketComplete, ReadsByte, Packet
<1>3. inbound \in Seq(Int) /\ expected \in Seq(Packets) /\ arrived \in 0 .. Len(inbound)
  BY DEF LinkInv
<1> DEFINE p == expected[1]
<1>4. /\ expected # <<>> /\ p \in Packets /\ Head(expected) = p /\ p # LargePacket
      /\ NextByte.packets = <<p>> /\ NextByte.codec = NewCodec
  BY <1>1, <1>2, <1>3, ByteTaken, Zenon
<1> HIDE DEF p
<1>5. Packet = p
  <2>1. <<p>>[1] = p
    OBVIOUS
  <2> QED BY <1>4, <2>1, Zenon DEF Packet
<1> QED BY <1>2, <1>4, <1>5, Zenon DEF p

\* A packet is complete, and the next one begins; unless it was the PINGRESP, the
\* PINGRESP is still there.
LEMMA PlaceAfterPacket ==
    ASSUME LinkInv, InPlace, NEW types, PacketComplete(types), LeavesRest, Decoded,
           Pinging' /\ pingAnswered' # NoPing
               => Pinging /\ pingAnswered # NoPing /\ expected[1] # PingResp
    PROVE  InPlace'
<1>1. PICK c \in Nat, at \in [1 .. (Len(expected) + 1) -> Int] :
         LaidOut(expected, inbound, codec, c, at) /\ AnswerIsThere(at)
  BY Zenon DEF InPlace
<1>2. /\ inbound' = Tail(inbound) /\ arrived' = arrived - 1 /\ codec' = NextByte.codec
      /\ arrived > 0
      /\ ~NextByte.failed /\ NextByte.packets # <<>>
      /\ expected # <<>> => expected' = Tail(expected)
  BY DEF PacketComplete, ReadsByte, LeavesRest, Decoded
<1>0. Len(expected) \in Nat
  BY LenProperties DEF LinkInv
<1> PICK n \in Nat : n = Len(expected)
  BY <1>0
<1> DEFINE p == expected[1]
           back == [i \in 1 .. n |-> at[i + 1] - 1]
<1>3. n \in Nat /\ inbound \in Seq(Int) /\ expected \in Seq(Packets)
      /\ arrived \in 0 .. Len(inbound)
      /\ arrived \in Int
  BY LenProperties DEF LinkInv
<1>4. inbound # <<>> /\ c + 1 = Size(p) /\ codec' = NewCodec /\ expected # <<>>
  BY <1>1, <1>2, <1>3, ByteTaken, Zenon
<1>5. LaidOut(Tail(expected), Tail(inbound), NewCodec, 0, back)
  <2>1. c + 1 = Size(expected[1])
    BY <1>4
  <2>2. LaidOut(Tail(expected), Tail(inbound), NewCodec, 0,
                [i \in 1 .. Len(expected) |-> at[i + 1] - 1])
    BY <1>1, <1>3, <1>4, <2>1, LastRead, Zenon
  <2> QED  BY <2>2
<1>6. \A i \in 1 .. n : at[i + 1] \in Int
  <2>1. at \in [1 .. (n + 1) -> Int]
    OBVIOUS
  <2> HIDE DEF back, p
  <2> QED  BY <2>1, <1>3, SMT
<1>7. back \in [1 .. n -> Int] /\ \A i \in 1 .. n : back[i] = at[i + 1] - 1
  BY <1>6
<1>8. Len(Tail(expected)) = n - 1 /\ (n - 1) + 1 = n
      /\ \A i \in 1 .. (n - 1) : Tail(expected)[i] = expected[i + 1]
  BY <1>3, <1>4, HeadTailProperties
<1> HIDE DEF back, p
<1>9. AnswerIsThere(back)'
  <2> SUFFICES ASSUME Pinging', pingAnswered' # NoPing
               PROVE  \E i \in 1 .. (n - 1) :
                          Tail(expected)[i] = PingResp /\ back[i + 1] <= arrived - 1
    BY <1>2, <1>4, <1>8, Zenon DEF AnswerIsThere
  <2>1. PICK i \in 1 .. n : expected[i] = PingResp /\ at[i + 1] <= arrived
    BY <1>1, Zenon DEF AnswerIsThere
  <2>2. i # 1
    BY <2>1, Zenon
  <2>3. i - 1 \in 1 .. (n - 1) /\ (i - 1) + 1 = i
    BY <1>3, <2>2
  <2> DEFINE a == at[i + 1]  b == back[i]
  <2>4. a \in Int /\ b = a - 1 /\ a <= arrived
    BY <1>6, <1>7, <2>1, Zenon
  <2> HIDE DEF a, b
  <2>5. b <= arrived - 1
    BY <1>3, <2>4
  <2>6. Tail(expected)[i - 1] = PingResp
    BY <1>8, <2>1, <2>3, Zenon
  <2> QED BY <2>3, <2>5, <2>6, Zenon DEF b
<1>10. 0 \in Nat /\ back \in [1 .. (Len(Tail(expected)) + 1) -> Int]
  BY <1>7, <1>8, Zenon
<1>11. \E d \in Nat : \E r \in [1 .. (Len(Tail(expected)) + 1) -> Int] :
          LaidOut(Tail(expected), Tail(inbound), NewCodec, d, r) /\ AnswerIsThere(r)'
  BY <1>5, <1>9, <1>10, Zenon
<1> QED BY <1>2, <1>4, <1>11, Zenon DEF InPlace

\* A connection begins with a clean decoder and nothing on the way.
LEMMA PlaceAtFirst ==
    ASSUME expected' = <<>>, inbound' = <<>>, codec' = NewCodec, ~clientConnected'
    PROVE  InPlace'
<1> DEFINE at == [i \in 1 .. 1 |-> 0]
<1>1. Len(<<>>) = 0 /\ 0 + 1 = 1 /\ 1 .. 0 = {} /\ 0 - 0 = 0 /\ 0 <= 0
  <2>1. Len(<<>>) = 0
    OBVIOUS
  <2>2. 0 + 1 = 1 /\ 0 <= 0
    OBVIOUS
  <2>3. 1 .. 0 = {}
    OBVIOUS
  <2>4. 0 - 0 = 0
    OBVIOUS
  <2> QED BY <2>1, <2>2, <2>3, <2>4, Zenon
<1>2. at \in [1 .. 1 -> Int] /\ at[1] = 0 /\ \A i \in 1 .. 1 : at[i] = 0
  OBVIOUS
<1> HIDE DEF at
<1>3. LaidOut(<<>>, <<>>, NewCodec, 0, at)
  <2> SUFFICES /\ at[1] = 0 /\ \A i \in 1 .. 1 : at[i] <= at[1]
    BY <1>1, <1>2, Zenon DEF LaidOut
  <2> QED BY <1>1, <1>2, Zenon
<1>4. AnswerIsThere(at)'
  BY Zenon DEF AnswerIsThere, Pinging, at
<1>5. 0 \in Nat
  OBVIOUS
<1>6. \E d \in Nat : \E r \in [1 .. (Len(<<>>) + 1) -> Int] :
          LaidOut(<<>>, <<>>, NewCodec, d, r) /\ AnswerIsThere(r)'
  BY <1>1, <1>2, <1>3, <1>4, <1>5, Zenon
<1> QED BY <1>6, Zenon DEF InPlace

-----------------------------------------------------------------------------
(***************************************************************************)
(* At most one CONNACK on a connection.                                    *)
(***************************************************************************)
\* Nothing changes in what was sent.
LEMMA AcksKept ==
    ASSUME OneConnAck, UNCHANGED <<expected, broker, clientConnected>>
    PROVE  OneConnAck'
BY Zenon DEF OneConnAck

\* The packets behind the first.
LEMMA AcksAfterTail ==
    ASSUME expected \in Seq(Packets), expected # <<>>, expected' = Tail(expected), OneConnAck
    PROVE  /\ \A i \in DOMAIN expected' :
                 i + 1 \in DOMAIN expected /\ expected'[i] = expected[i + 1] /\ i + 1 # 1
           /\ \A i, j \in DOMAIN expected' : i + 1 = j + 1 => i = j
           /\ 1 \in DOMAIN expected
<1>1. Len(expected) \in Nat /\ Len(expected) # 0 /\ DOMAIN expected = 1 .. Len(expected)
  BY LenProperties, EmptySeq
<1>2. /\ expected' \in Seq(Packets) /\ Len(expected') = Len(expected) - 1
      /\ \A i \in 1 .. Len(expected') : expected'[i] = expected[i + 1]
  BY HeadTailProperties
<1>3. DOMAIN expected' = 1 .. (Len(expected) - 1)
  BY <1>2, LenProperties
<1>4. \A i \in DOMAIN expected' : expected'[i] = expected[i + 1]
  BY <1>2, <1>3, Zenon
<1>5. \A i \in 1 .. (Len(expected) - 1) : i + 1 \in 1 .. Len(expected) /\ i + 1 # 1
  BY <1>1
<1>6. \A i, j \in 1 .. (Len(expected) - 1) : i + 1 = j + 1 => i = j
  BY <1>1
<1>7. 1 \in 1 .. Len(expected)
  BY <1>1
<1> QED BY <1>1, <1>3, <1>4, <1>5, <1>6, <1>7, Zenon

\* The first packet is read; a CONNACK begins the session.
LEMMA AcksAfterPacket ==
    ASSUME expected \in Seq(Packets), expected # <<>>, expected' = Tail(expected), OneConnAck,
           broker' = broker,
           clientConnected' = clientConnected \/ expected[1].type = CONNACK_TYPE
    PROVE  OneConnAck'
<1> DEFINE acks == {i \in DOMAIN expected : expected[i].type = CONNACK_TYPE}
<1>1. /\ \A i \in DOMAIN expected' :
            i + 1 \in DOMAIN expected /\ expected'[i] = expected[i + 1] /\ i + 1 # 1
      /\ \A i, j \in DOMAIN expected' : i + 1 = j + 1 => i = j
      /\ 1 \in DOMAIN expected
  BY AcksAfterTail
<1>2. /\ \A i, j \in acks : i = j
      /\ broker = "connecting" \/ clientConnected => acks = {}
      /\ ~(broker = "connecting" /\ clientConnected)
  BY Zenon DEF OneConnAck
<1>3. \A i \in DOMAIN expected' : expected'[i].type = CONNACK_TYPE => i + 1 \in acks
  BY <1>1, Zenon
<1>4. ASSUME NEW i \in DOMAIN expected', NEW j \in DOMAIN expected',
             expected'[i].type = CONNACK_TYPE, expected'[j].type = CONNACK_TYPE
      PROVE  i = j
  BY <1>1, <1>2, <1>3, <1>4, Zenon
<1>5. expected[1].type = CONNACK_TYPE => 1 \in acks
  BY <1>1, Zenon
<1>6. ASSUME broker' = "connecting" \/ clientConnected', NEW i \in DOMAIN expected',
             expected'[i].type = CONNACK_TYPE
      PROVE  FALSE
  <2>1. i + 1 \in acks /\ i + 1 # 1
    BY <1>1, <1>3, <1>6, Zenon
  <2>2. CASE expected[1].type = CONNACK_TYPE
    BY <1>2, <1>5, <2>1, <2>2, Zenon
  <2>3. CASE expected[1].type # CONNACK_TYPE
    <3>1. broker' = broker /\ clientConnected' = clientConnected
      BY <2>3
    <3>2. broker = "connecting" \/ clientConnected
      BY <1>6, <3>1
    <3>3. acks = {}
      BY <1>2, <3>2, Zenon
    <3> QED BY <2>1, <3>3, Zenon
  <2> QED BY <2>2, <2>3
<1>7. ~(broker' = "connecting" /\ clientConnected')
  BY <1>2, <1>5, Zenon
<1> QED BY <1>4, <1>6, <1>7, Zenon DEF OneConnAck

\* A CONNACK is sent only by a broker that has CONNECT.
LEMMA AcksAfterSent ==
    ASSUME expected \in Seq(Packets), NEW p \in Packets, expected' = Append(expected, p),
           OneConnAck,
           clientConnected' = clientConnected,
           p.type = CONNACK_TYPE => broker = "connecting" /\ broker' # "connecting",
           p.type # CONNACK_TYPE => broker' = broker
    PROVE  OneConnAck'
<1> DEFINE acks == {i \in DOMAIN expected : expected[i].type = CONNACK_TYPE}
           n == Len(expected)
<1>1. n \in Nat /\ DOMAIN expected = 1 .. n
  BY LenProperties
<1>2. /\ expected' \in Seq(Packets) /\ Len(expected') = n + 1 /\ expected'[n + 1] = p
      /\ \A i \in 1 .. n : expected'[i] = expected[i]
  BY AppendProperties
<1>3. DOMAIN expected' = 1 .. (n + 1)
  BY <1>2, LenProperties
<1> HIDE DEF n
<1>4. \A i \in 1 .. (n + 1) : i \in 1 .. n \/ i = n + 1
  BY <1>1
<1>5. /\ \A i, j \in acks : i = j
      /\ broker = "connecting" \/ clientConnected => acks = {}
      /\ ~(broker = "connecting" /\ clientConnected)
  BY Zenon DEF OneConnAck
<1>6. \A i \in DOMAIN expected' : expected'[i].type = CONNACK_TYPE
         => i \in acks \/ (i = n + 1 /\ p.type = CONNACK_TYPE)
  BY <1>1, <1>2, <1>3, <1>4, Zenon
<1>7. p.type = CONNACK_TYPE => acks = {} /\ ~clientConnected'
  BY <1>5, Zenon
<1>8. ASSUME NEW i \in DOMAIN expected', NEW j \in DOMAIN expected',
             expected'[i].type = CONNACK_TYPE, expected'[j].type = CONNACK_TYPE
      PROVE  i = j
  BY <1>5, <1>6, <1>7, <1>8, Zenon
<1>9. ASSUME broker' = "connecting" \/ clientConnected', NEW i \in DOMAIN expected',
             expected'[i].type = CONNACK_TYPE
      PROVE  FALSE
  BY <1>5, <1>6, <1>7, <1>9, Zenon
<1>10. ~(broker' = "connecting" /\ clientConnected')
  BY <1>5, <1>7, Zenon
<1> QED BY <1>8, <1>9, <1>10, Zenon DEF OneConnAck

\* Nothing has been sent.
LEMMA AcksAtFirst ==
    ASSUME expected' = <<>>, ~clientConnected'
    PROVE  OneConnAck'
<1>1. DOMAIN <<>> = {}
  OBVIOUS
<1> QED BY <1>1, Zenon DEF OneConnAck

-----------------------------------------------------------------------------
\* Every step of a client whose decoder was clean at every connection keeps the packets
\* in place.
LEMMA CleanStep == ASSUME LinkInv, CleanInv, [Next]_vars PROVE CleanInv'
<1> SUFFICES ASSUME ~dirty' PROVE CleanLink'
  BY DEF CleanInv
<1>0. ASSUME ~dirty  PROVE CleanLink
  BY <1>0 DEF CleanInv
<1>a. /\ inbound \in Seq(Int) /\ expected \in Seq(Packets) /\ (pc = "read" => socketConnected)
      /\ (~socketConnected => expected = <<>> /\ inbound = <<>> /\ ~clientConnected)
  BY DEF LinkInv
\* The connection is closed.
<1>1. ASSUME CloseConnection, CleanLink, garbled' => garbled,
             \/ timeSincePing' = NoPing
             \/ /\ timeSincePing' = timeSincePing
                /\ \/ pc' = "disconnected"
                   \/ pc # "disconnected" /\ socketConnected /\ ~clientConnected
                   \/ /\ clientConnected /\ isConnectionLost'
                      /\ isRecoverableError' = isRecoverableError
      PROVE  CleanLink'
  <2>1. ~socketConnected' /\ ~clientConnected' /\ expected' = <<>>
    BY <1>1 DEF CloseConnection
  <2>2. OneConnAck'
    BY <2>1, AcksAtFirst
  <2>3. PingInSession'
    BY <1>1, <2>1, Zenon DEF PingInSession, CleanLink
  <2>4. SeenInTime'
    BY <2>1, Zenon DEF SeenInTime, Pinging
  <2> QED BY <1>1, <2>1, <2>2, <2>3, <2>4, Zenon DEF CleanLink
<1>2. CASE DisconnectWithoutSession \/ DisconnectSession \/ IoError \/ ReadError
           \/ NoPingResponse
  <2>1. /\ CloseConnection /\ garbled' = garbled /\ dirty' = dirty
        /\ \/ timeSincePing' = NoPing
           \/ /\ timeSincePing' = timeSincePing
              /\ \/ pc' = "disconnected"
                 \/ pc # "disconnected" /\ socketConnected /\ ~clientConnected
                 \/ /\ clientConnected /\ isConnectionLost'
                    /\ isRecoverableError' = isRecoverableError
    BY <1>2, <1>a DEF DisconnectWithoutSession, DisconnectSession, IoError, ReadError,
              NoPingResponse, SetErrorCallback, ReadsByte, timeVars
  <2> QED BY <1>0, <1>1, <2>1, Zenon
<1>3. CASE ReadConnAckRefused
  <2>1. /\ CloseConnection /\ PacketComplete({CONNACK_TYPE}) /\ dirty' = dirty
        /\ timeSincePing' = timeSincePing /\ pc = "read" /\ pc' = "idle"
    BY <1>3 DEF ReadConnAckRefused, PacketComplete, ReadsByte
  <2>2. CleanLink /\ socketConnected /\ InPlace /\ ~garbled
    BY <1>0, <1>a, <2>1, Zenon DEF CleanLink
  <2>3. expected # <<>> /\ expected[1].type = CONNACK_TYPE /\ ~garbled'
    BY <2>1, <2>2, PacketAsSent
  <2>4. 1 \in DOMAIN expected
    BY <1>a, <2>3, EmptySeq, LenProperties
  <2>5. ~clientConnected
    BY <2>2, <2>3, <2>4, Zenon DEF CleanLink, OneConnAck
  <2>6. pc # "disconnected"
    BY <2>1
  <2>7. timeSincePing' = NoPing
    BY <2>1, <2>2, <2>5, <2>6, Zenon DEF CleanLink, PingInSession
  <2>8. ~socketConnected' /\ ~clientConnected' /\ expected' = <<>>
    BY <2>1 DEF CloseConnection
  <2>9. OneConnAck'
    BY <2>8, AcksAtFirst
  <2> QED BY <2>3, <2>7, <2>8, <2>9, Zenon DEF CleanLink, PingInSession, SeenInTime, Pinging
<1>3a. CASE ReadPublishFails
  <2>1. /\ CloseConnection /\ PacketComplete({PUBLISH_TYPE}) /\ dirty' = dirty
        /\ timeSincePing' = timeSincePing /\ pc = "read"
        /\ isConnectionLost' /\ isRecoverableError' = isRecoverableError
    BY <1>3a DEF ReadPublishFails, SetErrorCallback, PacketComplete, ReadsByte
  <2>2. CleanLink /\ socketConnected /\ InPlace /\ ~garbled
    BY <1>0, <1>a, <2>1, Zenon DEF CleanLink
  <2>3. ~garbled'
    BY <2>1, <2>2, PacketAsSent
  <2>4. pc # "disconnected"
    BY <2>1
  <2> QED BY <1>1, <2>1, <2>2, <2>3, <2>4, Zenon
\* A client is connected.
<1>4. CASE (\E delivered \in BOOLEAN : Connect(delivered)) \/ ConnectFails
  <2>1. /\ pc = "idle" /\ pc' = "idle" /\ ~socketConnected /\ ClientToConnect
        /\ clientConnected' = clientConnected /\ expected' = expected /\ inbound' = inbound
        /\ garbled' = garbled /\ (socketConnected' => codec' = NewCodec) /\ ~dirty
        /\ isRecoverableError' = isRecoverableError
    <3>1. CASE \E delivered \in BOOLEAN : Connect(delivered)
      BY <3>1 DEF Connect, wireVars, userVars
    <3>2. CASE ConnectFails
      BY <3>2 DEF ConnectFails, wireVars, sessionVars
    <3> QED BY <1>4, <3>1, <3>2
  <2>2. CleanLink /\ ~clientConnected' /\ expected' = <<>> /\ inbound' = <<>>
    BY <1>0, <1>a, <2>1, Zenon
  <2>3. socketConnected' => InPlace'
    BY <2>1, <2>2, PlaceAtFirst, Zenon
  <2>4. OneConnAck'
    BY <2>2, AcksAtFirst
  <2>5. timeSincePing' = NoPing
    <3>1. timeSincePing = NoPing \/ (isConnectionLost /\ isRecoverableError)
      BY <1>a, <2>1, <2>2 DEF CleanLink, PingInSession
    <3> QED BY <2>1, <3>1 DEF ClientToConnect
  <2> QED
    BY <2>1, <2>2, <2>3, <2>4, <2>5, Zenon DEF CleanLink, PingInSession, SeenInTime, Pinging
\* The bytes and the session stay as they are.
<1>5. ASSUME UNCHANGED <<expected, inbound, codec, arrived, socketConnected, clientConnected,
                         broker, garbled, dirty, isConnectionLost, isRecoverableError>>,
             Pinging' /\ pingAnswered' # NoPing => Pinging /\ pingAnswered # NoPing,
             timeSincePing' # NoPing /\ ~clientConnected => timeSincePing # NoPing,
             pc' # "disconnected" => pc # "disconnected",
             pc' = "ping" => \/ /\ pc = "ping" /\ timeSincePing' = timeSincePing
                                /\ pingAnswered' = pingAnswered
                             \/ arrived = 0 /\ socketConnected
      PROVE  CleanLink'
  <2>1. CleanLink
    BY <1>0, <1>5
  <2>2. socketConnected' => InPlace'
    BY <1>5, <2>1, PlaceKept DEF CleanLink
  <2>3. OneConnAck'
    BY <1>5, <2>1, AcksKept DEF CleanLink
  <2>4. PingInSession'
    BY <1>5, <2>1 DEF CleanLink, PingInSession
  <2>5. SeenInTime'
    <3> SUFFICES ASSUME pc' = "ping", Pinging', pingAnswered' # NoPing
                 PROVE  pingAnswered' = timeSincePing'
      BY DEF SeenInTime
    <3>1. CASE arrived = 0 /\ socketConnected
      <4>1. InPlace /\ Pinging /\ pingAnswered # NoPing
        BY <1>5, <2>1, <3>1 DEF CleanLink
      <4>2. PICK c \in Nat, at \in [1 .. (Len(expected) + 1) -> Int] :
               LaidOut(expected, inbound, codec, c, at) /\ AnswerIsThere(at)
        BY <4>1, Zenon DEF InPlace
      <4>3. PICK i \in 1 .. Len(expected) : at[i + 1] <= arrived
        BY <4>1, <4>2, Zenon DEF AnswerIsThere
      <4>4. at[i + 1] >= 1
        BY <4>2, Zenon DEF LaidOut
      <4>5. i + 1 \in 1 .. (Len(expected) + 1)
        BY <1>a, LenProperties
      <4>6. at[i + 1] \in Int
        BY <4>5, Zenon
      <4> QED BY <3>1, <4>3, <4>4, <4>6
    <3>2. CASE pc = "ping" /\ timeSincePing' = timeSincePing /\ pingAnswered' = pingAnswered
      BY <1>5, <2>1, <3>2 DEF CleanLink, SeenInTime
    <3> QED BY <1>5, <3>1, <3>2
  <2> QED BY <1>5, <2>1, <2>2, <2>3, <2>4, <2>5 DEF CleanLink
<1>6. CASE \E delivered \in BOOLEAN :
             Publish(delivered) \/ Subscribe(delivered) \/ Unsubscribe(delivered)
  BY <1>5, <1>6 DEF Publish, Subscribe, Unsubscribe, Request, wireVars, sessionVars, userVars,
     Pinging
<1>7. CASE DoworkBegin \/ ReadDone \/ NoPingNeeded \/ UNCHANGED vars
  BY <1>5, <1>7, <1>a DEF DoworkBegin, ReadDone, NoPingNeeded, DoworkEnd, wireVars, sessionVars,
     userVars,
     timeVars, brokerVars, Pinging, vars
<1>8. CASE Tick
  <2>1. timeSincePing' # NoPing => timeSincePing # NoPing
    BY <1>8 DEF Tick
  <2> QED BY <1>5, <1>8, <2>1 DEF Tick, wireVars, sessionVars, userVars, brokerVars, Pinging
<1>9. CASE \E delivered \in BOOLEAN : SendPing(delivered)
  BY <1>5, <1>9 DEF SendPing, DoworkEnd, wireVars, sessionVars, userVars, Pinging
\* The broker sends a packet.
<1>10. ASSUME NEW p \in Packets, BrokerSends(p),
              p.type = CONNACK_TYPE => broker = "connecting" /\ broker' # "connecting",
              p.type # CONNACK_TYPE => broker' = broker
       PROVE  CleanLink'
  <2>1. /\ UNCHANGED <<socketConnected, clientConnected, timeSincePing, isConnectionLost,
                       isRecoverableError, pc, pingAnswered, garbled, dirty>>
        /\ expected' = Append(expected, p)
    BY <1>10 DEF BrokerSends, sessionVars, timeVars, userVars
  <2>2. CleanLink
    BY <1>0, <2>1
  <2>3. socketConnected' => InPlace'
    BY <1>10, <2>1, <2>2, PlaceSent DEF CleanLink
  <2>4. OneConnAck'
    BY <1>10, <1>a, <2>1, <2>2, AcksAfterSent DEF CleanLink
  <2> QED BY <2>1, <2>2, <2>3, <2>4 DEF CleanLink, PingInSession, SeenInTime, Pinging
<1>11. CASE BrokerAccepts
  <2>1. ConnAck(0) \in Packets /\ ConnAck(0).type = CONNACK_TYPE
    BY SentPackets DEF ConnAck
  <2> QED BY <1>10, <1>11, <2>1 DEF BrokerAccepts
<1>12. CASE \E code \in {3, 4} : BrokerRefuses(code)
  <2>1. \A code \in {3, 4} : ConnAck(code) \in Packets /\ ConnAck(code).type = CONNACK_TYPE
    BY SentPackets DEF ConnAck
  <2> QED BY <1>10, <1>12, <2>1 DEF BrokerRefuses
<1>13. CASE \E kind \in Kinds : BrokerPublishes(PublishPacket(kind))
  <2>1. \A kind \in Kinds :
           PublishPacket(kind) \in Packets /\ PublishPacket(kind).type # CONNACK_TYPE
    BY SentPackets DEF PublishPacket, PUBLISH_TYPE, CONNACK_TYPE
  <2> QED BY <1>10, <1>13, <2>1 DEF BrokerPublishes, brokerVars
<1>14. CASE BrokerPublishes(LargePacket)
  <2>1. LargePacket \in Packets /\ LargePacket.type # CONNACK_TYPE
    BY SentPackets DEF LargePacket, PUBLISH_TYPE, CONNACK_TYPE
  <2> QED BY <1>10, <1>14, <2>1 DEF BrokerPublishes, brokerVars
<1>15. CASE BrokerAnswersPing
  <2>1. PingResp \in Packets /\ PingResp.type # CONNACK_TYPE
    BY SentPackets DEF PingResp, PINGRESP_TYPE, CONNACK_TYPE
  <2> QED BY <1>10, <1>15, <2>1 DEF BrokerAnswersPing
<1>16. CASE BrokerAnswers
  <2>1. owed \in AnswerTypes
    BY <1>16 DEF BrokerAnswers, LinkInv
  <2>2. Answer(owed).type = owed
    BY DEF Answer
  <2>3. owed # CONNACK_TYPE
    BY <2>1 DEF AnswerTypes, PUBACK_TYPE, PUBREC_TYPE, PUBCOMP_TYPE, SUBACK_TYPE, UNSUBACK_TYPE,
       CONNACK_TYPE
  <2>4. Answer(owed) \in Packets /\ Answer(owed).type # CONNACK_TYPE
    BY <2>1, <2>2, <2>3, SentPackets
  <2> QED BY <1>10, <1>16, <2>4 DEF BrokerAnswers
\* Bytes arrive.
<1>17. CASE \E k \in DOMAIN inbound : Arrive(k)
  <2>1. PICK k \in DOMAIN inbound : Arrive(k)
    BY <1>17
  <2>2. /\ UNCHANGED <<socketConnected, clientConnected, timeSincePing, isConnectionLost,
                       isRecoverableError, pc, garbled, dirty, expected, broker>>
        /\ pingAnswered' \in {pingAnswered, timeSincePing}
    BY <2>1 DEF Arrive, sessionVars, timeVars, userVars, brokerVars
  <2>3. CleanLink
    BY <1>0, <2>2
  <2>4. socketConnected' => InPlace'
    BY <2>1, <2>2, <2>3, PlaceArrived DEF CleanLink
  <2>5. OneConnAck'
    BY <2>2, <2>3, AcksKept DEF CleanLink
  <2> QED BY <2>2, <2>3, <2>4, <2>5 DEF CleanLink, PingInSession, SeenInTime, Pinging
\* A byte is read.
<1>18. CASE ReadByte
  <2>1. /\ UNCHANGED <<socketConnected, clientConnected, timeSincePing, isConnectionLost,
                       isRecoverableError, pc, pingAnswered, garbled, dirty, expected, broker>>
    BY <1>18 DEF ReadByte, sessionVars, timeVars, userVars, brokerVars
  <2>2. CleanLink
    BY <1>0, <2>1
  <2>3. socketConnected' => InPlace'
    BY <1>18, <2>1, <2>2, PlaceInside DEF CleanLink
  <2>4. OneConnAck'
    BY <2>1, <2>2, AcksKept DEF CleanLink
  <2> QED BY <2>1, <2>2, <2>3, <2>4 DEF CleanLink, PingInSession, SeenInTime, Pinging
\* A packet is complete.
<1>19. ASSUME NEW types, PacketComplete(types), LeavesRest, Decoded, dirty' = dirty,
              UNCHANGED <<socketConnected, broker, pc>>,
              \/ /\ UNCHANGED <<clientConnected, timeSincePing, isConnectionLost,
                                isRecoverableError, pingAnswered>>
                 /\ PINGRESP_TYPE \notin types
              \/ /\ UNCHANGED <<clientConnected, isConnectionLost, isRecoverableError>>
                 /\ timeSincePing' = NoPing
              \/ /\ types = {CONNACK_TYPE} /\ clientConnected' /\ isRecoverableError'
                 /\ timeSincePing' = timeSincePing
       PROVE  CleanLink'
  <2>1. pc = "read"
    BY <1>19 DEF PacketComplete, ReadsByte
  <2>2. CleanLink /\ socketConnected /\ InPlace /\ ~garbled
    BY <1>0, <1>19, <1>a, <2>1 DEF CleanLink
  <2>3. /\ expected # <<>> /\ Packet = expected[1] /\ Packet \in Packets /\ Packet # LargePacket
        /\ Packet.type \in types /\ ~garbled'
    BY <1>19, <2>2, PacketAsSent
  <2>4. expected' = Tail(expected)
    BY <1>19, <2>3 DEF Decoded
  <2>5. 1 \in DOMAIN expected
    BY <1>a, <2>3, EmptySeq, LenProperties
  <2>6. types = {CONNACK_TYPE} => ~clientConnected /\ timeSincePing = NoPing
    <3>1. types = {CONNACK_TYPE} => expected[1].type = CONNACK_TYPE
      BY <2>3
    <3>2. types = {CONNACK_TYPE} => ~clientConnected
      BY <2>2, <2>5, <3>1, Zenon DEF CleanLink, OneConnAck
    <3>3. pc # "disconnected"
      BY <2>1
    <3> QED BY <2>2, <3>2, <3>3, Zenon DEF CleanLink, PingInSession
  <2>7. PINGRESP_TYPE \notin types => expected[1] # PingResp
    BY <2>3 DEF PingResp
  <2>8. Pinging' /\ pingAnswered' # NoPing
            => Pinging /\ pingAnswered # NoPing /\ expected[1] # PingResp
    BY <1>19, <2>6, <2>7 DEF Pinging
  <2>9. InPlace'
    BY <1>19, <2>2, <2>8, PlaceAfterPacket
  <2>10. OneConnAck'
    <3>1. clientConnected' = clientConnected \/ expected[1].type = CONNACK_TYPE
      BY <1>19, <2>3
    <3>2. broker' = broker /\ OneConnAck
      BY <1>19, <2>2 DEF CleanLink
    <3> QED BY <1>a, <2>3, <2>4, <3>1, <3>2, AcksAfterPacket
  <2>11. pc' # "ping"
    BY <1>19, <2>1
  <2>12. PingInSession'
    BY <1>19, <2>1, <2>2 DEF CleanLink, PingInSession
  <2>13. SeenInTime'
    BY <2>11 DEF SeenInTime
  <2>14. clientConnected' => isRecoverableError'
    BY <1>19, <2>2 DEF CleanLink
  <2> QED BY <2>3, <2>9, <2>10, <2>12, <2>13, <2>14 DEF CleanLink
<1>20. CASE ReadConnAck
  <2>1. PacketComplete({CONNACK_TYPE}) /\ LeavesRest /\ Decoded /\ clientConnected'
        /\ isRecoverableError'
        /\ UNCHANGED <<socketConnected, broker, pc, dirty, timeSincePing>>
    BY <1>20 DEF ReadConnAck, brokerVars
  <2> QED BY <1>19, <2>1
<1>21. CASE ReadPingResp
  <2>1. PacketComplete({PINGRESP_TYPE}) /\ LeavesRest /\ Decoded /\ timeSincePing' = NoPing
        /\ UNCHANGED <<socketConnected, broker, pc, dirty, clientConnected, isConnectionLost,
                       isRecoverableError>>
    BY <1>21 DEF ReadPingResp, brokerVars, sessionVars, userVars
  <2> QED BY <1>19, <2>1
<1>22. CASE ReadAnswer
  <2> DEFINE types == 0 .. 255 \ {CONNACK_TYPE, PINGRESP_TYPE, PUBLISH_TYPE,
                                 PUBREC_TYPE, PUBREL_TYPE}
  <2>1. PacketComplete(types) /\ LeavesRest /\ Decoded
        /\ UNCHANGED <<socketConnected, broker, pc, dirty, clientConnected, isConnectionLost,
                       isRecoverableError, timeSincePing, pingAnswered>>
    BY <1>22 DEF ReadAnswer, brokerVars, sessionVars, userVars
  <2>2. PINGRESP_TYPE \notin types
    OBVIOUS
  <2> HIDE DEF types
  <2> QED BY <1>19, <2>1, <2>2
<1>23. CASE ReadPublish
  <2>1. PacketComplete({PUBLISH_TYPE}) /\ LeavesRest /\ Decoded
        /\ UNCHANGED <<socketConnected, broker, pc, dirty, clientConnected, isConnectionLost,
                       isRecoverableError, timeSincePing, pingAnswered>>
    BY <1>23 DEF ReadPublish, brokerVars, sessionVars, userVars
  <2>2. PINGRESP_TYPE \notin {PUBLISH_TYPE}
    BY DEF PINGRESP_TYPE, PUBLISH_TYPE
  <2> QED BY <1>19, <2>1, <2>2
<1>24. CASE \E delivered \in BOOLEAN : ReadRelease(delivered)
  <2>1. PacketComplete({PUBREC_TYPE, PUBREL_TYPE}) /\ LeavesRest /\ Decoded
        /\ UNCHANGED <<socketConnected, broker, pc, dirty, clientConnected, isConnectionLost,
                       isRecoverableError, timeSincePing, pingAnswered>>
    BY <1>24 DEF ReadRelease, sessionVars, userVars
  <2>2. PINGRESP_TYPE \notin {PUBREC_TYPE, PUBREL_TYPE}
    BY DEF PINGRESP_TYPE, PUBREC_TYPE, PUBREL_TYPE
  <2> QED BY <1>19, <2>1, <2>2
<1> QED
  BY <1>2, <1>3, <1>3a, <1>4, <1>6, <1>7, <1>8, <1>9, <1>11, <1>12, <1>13, <1>14, <1>15, <1>16, <1>17,
     <1>18, <1>20, <1>21, <1>22, <1>23, <1>24 DEF Next, Calls, Dowork, Environment, Terminated

-----------------------------------------------------------------------------
(***************************************************************************)
(* The theorems of the client.                                             *)
(***************************************************************************)
UmqttInv == AgeTypes /\ KeepAliveInv /\ LinkInv /\ CleanInv

\* The inductive invariant of the client: the ages, the link, and the packets on it.
THEOREM UmqttInvariant == Spec => []UmqttInv
<1>1. Init => UmqttInv
  <2> SUFFICES ASSUME Init  PROVE UmqttInv
    OBVIOUS
  <2> USE DEF Init
  <2>1. AgeTypes
    BY Limits DEF AgeTypes, NoPing
  <2>2. KeepAliveInv
    BY DEF KeepAliveInv, Silence, Pinging
  <2>3. LinkInv
    <3>1. <<>> \in Seq(Int) /\ <<>> \in Seq(Packets) /\ Len(<<>>) = 0 /\ 0 \in 0 .. 0
      BY EmptySeq
    <3> QED  BY <3>1 DEF LinkInv
  <2>4. CleanInv
    <3>1. DOMAIN <<>> = {}
      OBVIOUS
    <3> QED
      BY <3>1 DEF CleanInv, CleanLink, OneConnAck, PingInSession, SeenInTime
  <2> QED  BY <2>1, <2>2, <2>3, <2>4 DEF UmqttInv
<1>2. UmqttInv /\ [Next]_vars => UmqttInv'
  <2> SUFFICES ASSUME UmqttInv, [Next]_vars  PROVE UmqttInv'
    OBVIOUS
  <2>1. AgeTypes /\ KeepAliveInv /\ LinkInv /\ CleanInv /\ (pc = "read" => socketConnected)
    BY DEF UmqttInv, LinkInv
  <2> QED  BY <2>1, AgeTypesStep, KeepAliveStep, LinkStep, CleanStep DEF UmqttInv
<1> QED  BY <1>1, <1>2, PTL DEF Spec

\* The packets mqtt_client.c acts upon are those the broker sent, in order, however
\* their bytes arrive, unless a client was connected again with half a packet in its
\* decoder.
THEOREM PacketsAsSent == Spec => []DecodedAsSent
<1>1. UmqttInv => DecodedAsSent
  BY DEF UmqttInv, CleanInv, CleanLink, DecodedAsSent
<1> QED  BY <1>1, UmqttInvariant, PTL

\* mqtt_client_dowork ends a session whose peer has fallen silent within the
\* keep-alive interval and the time allowed for a ping.
THEOREM DeadPeersNoticed == Spec => []DeadPeerNoticed
<1>1. UmqttInv => DeadPeerNoticed
  BY KeepAliveSuffices DEF UmqttInv
<1> QED  BY <1>1, UmqttInvariant, PTL

\* A client that has sent nothing for longer than the interval has heard from the broker
\* within it.
THEOREM SilenceMeansReceiving == Spec => []SilentOnlyWhileReceiving
<1>1. UmqttInv => SilentOnlyWhileReceiving
  BY KeepAliveSuffices DEF UmqttInv
<1> QED  BY <1>1, UmqttInvariant, PTL

\* mqtt_client_dowork never drops a peer whose PINGRESP was at the socket in time, if
\* the decoder was clean at every connection.
THEOREM AnsweredPingsCount == Spec => AnsweredPingKeepsSession
<1>1. UmqttInv /\ [Next]_vars =>
        [NoPingResponse /\ ~dirty
             => ~(pingAnswered # NoPing /\ pingAnswered <= maxPingRespTime)]_vars
  <2> SUFFICES ASSUME UmqttInv, NoPingResponse, ~dirty, pingAnswered # NoPing,
                      pingAnswered <= maxPingRespTime
               PROVE  FALSE
    OBVIOUS
  <2>1. pc = "ping" /\ clientConnected /\ timeSincePing # NoPing
        /\ timeSincePing > maxPingRespTime
    BY DEF NoPingResponse, PingUnanswered
  <2>2. pingAnswered = timeSincePing
    BY <2>1 DEF UmqttInv, CleanInv, CleanLink, SeenInTime, Pinging
  <2>3. timeSincePing \in Int
    BY Limits DEF UmqttInv, AgeTypes, NoPing
  <2> QED  BY <2>1, <2>2, <2>3, Limits
<1> QED  BY <1>1, UmqttInvariant, PTL DEF Spec, AnsweredPingKeepsSession

-----------------------------------------------------------------------------
(***************************************************************************)
(* The remaining length of a packet, as mqtt_codec.c writes and reads it,  *)
(* for every length the decoder accepts.                                   *)
(***************************************************************************)
\* What division by 128 gives, as constructFixedHeader uses it.
LEMMA Chunk ==
    ASSUME NEW n \in Nat
    PROVE  /\ n \div 128 \in Nat
           /\ n % 128 \in 0 .. 127
           /\ n = 128 * (n \div 128) + (n % 128)
           /\ n \div (128 * 128) = (n \div 128) \div 128
           /\ ((n % 128) + 128) % 128 = n % 128
  <1>1. /\ n \div 128 \in Nat
        /\ n % 128 \in 0 .. 127
        /\ n = 128 * (n \div 128) + (n % 128)
    BY SMT
  <1>2. n \div (128 * 128) = (n \div 128) \div 128
    BY SMT
  <1>3. ((n % 128) + 128) % 128 = n % 128
    BY SMT, <1>1
  <1> QED BY SMT, <1>1, <1>2, <1>3

\* The byte for a chunk with more to come: its top bit is set and its low bits are
\* those of the length.
LEMMA MoreByte ==
    ASSUME NEW n \in Nat
    PROVE  /\ More(n) \in 128 .. 255
           /\ More(n) % 128 = n % 128
  BY SMT, Chunk DEF More, NEXT_128_CHUNK

\* Every length below 128 * 128 * 128 that constructFixedHeader encodes is read back by
\* prepareheaderDataInfo as it was, from at most three bytes of which only the last
\* one says that it is the last.
THEOREM LengthRoundTrip ==
    ASSUME NEW n \in Nat, n < 128 * 128 * 128
    PROVE  RoundTrip(n)
  <1>1. CASE n < 128
    <2>1. EncodedLength(n) = <<n>>
      BY SMT, <1>1 DEF EncodedLength
    <2>2. DecodedLength(<<n>>) = n
      BY SMT, <1>1 DEF DecodedLength
    <2> QED BY SMT, <1>1, <2>1, <2>2 DEF RoundTrip, TooLong, Byte, NEXT_128_CHUNK
  <1>2. CASE n >= 128 /\ n < (128 * 128)
    <2> DEFINE a == More(n)  b == n \div 128
    <2>1. EncodedLength(n) = <<a, b>>
      BY SMT, <1>2 DEF EncodedLength
    <2>2. b \in 1 .. 127
      BY SMT, <1>2
    <2>3. a \in 128 .. 255 /\ a % 128 = n % 128
      BY Zenon, MoreByte
    <2>4. n = 128 * b + (n % 128)
      BY SMT, Chunk
    <2> HIDE DEF a, b
    <2>5. DecodedLength(<<a, b>>) = n
      BY SMT, <2>2, <2>3, <2>4 DEF DecodedLength
    <2> QED BY SMT, <2>1, <2>2, <2>3, <2>5 DEF RoundTrip, TooLong, Byte, NEXT_128_CHUNK
  <1>3. CASE n >= (128 * 128)
    <2> DEFINE a == More(n)  m == n \div 128  b == More(m)  c == n \div (128 * 128)
    <2>1. EncodedLength(n) = <<a, b, c>>
      BY SMT, <1>3 DEF EncodedLength
    <2>2. m \in Nat /\ c = m \div 128 /\ n = 128 * m + (n % 128)
      BY SMT, Chunk
    <2>3. c \in 1 .. 127
      BY SMT, <1>3
    <2>4. a \in 128 .. 255 /\ a % 128 = n % 128
      BY Zenon, MoreByte
    <2> HIDE DEF m
    <2>5. b \in 128 .. 255 /\ b % 128 = m % 128
      BY SMT, <2>2, MoreByte
    <2>6. m = 128 * c + (m % 128)
      BY SMT, <2>2, Chunk
    <2> HIDE DEF a, b, c
    <2>7. DecodedLength(<<a, b, c>>) = n
      BY SMT, <2>2, <2>3, <2>4, <2>5, <2>6 DEF DecodedLength
    <2> QED BY SMT, <2>1, <2>3, <2>4, <2>5, <2>7 DEF RoundTrip, TooLong, Byte, NEXT_128_CHUNK
  <1> QED BY SMT, <1>1, <1>2, <1>3

=============================================================================
