------------------------------ MODULE MqttCodec ------------------------------
(***************************************************************************)
(* The MQTT codec of umqtt/src/mqtt_codec.c: the fixed header it writes    *)
(* and the decoder that is fed the bytes of the socket one by one and      *)
(* keeps what it has seen of a packet between two calls.                   *)
(*                                                                         *)
(* Bytes are numbers from 0 to 255.  Allocation never fails.  A broker     *)
(* sends at most four length bytes, as MQTT says.                          *)
(***************************************************************************)
EXTENDS Integers, Sequences

\* CONTROL_PACKET_TYPE
CONNACK_TYPE == 32
PUBLISH_TYPE == 48
PUBACK_TYPE == 64
PUBREC_TYPE == 80
PUBREL_TYPE == 96
PUBCOMP_TYPE == 112
SUBACK_TYPE == 144
UNSUBACK_TYPE == 176
PINGRESP_TYPE == 208
PACKET_TYPE_ERROR == 225
UNKNOWN_TYPE == 226

Byte == 0 .. 255
NEXT_128_CHUNK == 128

-----------------------------------------------------------------------------
\* encode |= NEXT_128_CHUNK: the byte for the low bits of n when more follow.
More(n) == (n % 128) + NEXT_128_CHUNK

\* The loop of constructFixedHeader: seven bits per byte, low ones first, the top
\* bit set on every byte but the last.
EncodedLength(n) ==
    CASE n < 128 -> <<n>>
      [] n >= 128 /\ n < (128 * 128) -> <<More(n), n \div 128>>
      [] n >= (128 * 128) /\ n < (128 * 128 * 128) ->
            <<More(n), More(n \div 128), n \div (128 * 128)>>
      [] n >= (128 * 128 * 128) ->
            <<More(n), More(n \div 128), More(n \div (128 * 128)),
              n \div (128 * 128 * 128)>>

\* A packet as it goes over the wire.
Encoded(packet) ==
    <<packet.type + packet.flags>> \o EncodedLength(Len(packet.body)) \o packet.body

\* The loop of prepareheaderDataInfo over the stored length bytes.
DecodedLength(stored) ==
    LET digit(i) == IF i <= Len(stored) THEN stored[i] % 128 ELSE 0
    IN  digit(1) + 128 * digit(2) + (128 * 128) * digit(3) + (128 * 128 * 128) * digit(4)

\* The multiplier exceeds 128 * 128 * 128 after the fourth byte.
TooLong(stored) == Len(stored) > 3

-----------------------------------------------------------------------------
\* MQTTCODEC_INSTANCE: headerData is what has been stored of totalLen bytes.
NewCodec ==
    [codecState |-> "FIXED_HEADER", currPacket |-> UNKNOWN_TYPE, headerFlags |-> 0,
     storeRemainLen |-> <<>>, totalLen |-> 0, headerData |-> <<>>]

\* What a byte leads to: the new decoder, whether decoding failed, and the packet
\* that is complete, if any.
Outcome(codec, failed, packets) == [codec |-> codec, failed |-> failed, packets |-> packets]

\* completePacketData
Completed(codec, failed) ==
    Outcome([NewCodec EXCEPT !.storeRemainLen = codec.storeRemainLen], failed,
            <<[type |-> codec.currPacket, flags |-> codec.headerFlags,
               body |-> codec.headerData]>>)

\* remainLenIndex goes back to 0 and the length bytes are erased.
LengthBytesErased(stored) == <<>>

\* prepareheaderDataInfo: a byte of the remaining length.
LengthByte(codec, byte) ==
    LET stored == Append(codec.storeRemainLen, byte)
        failed == byte < NEXT_128_CHUNK /\ TooLong(stored)
        next == IF byte >= NEXT_128_CHUNK
                THEN [codec EXCEPT !.storeRemainLen = stored]
                ELSE [codec EXCEPT !.codecState = "VAR_HEADER",
                                   !.storeRemainLen = LengthBytesErased(stored),
                                   !.totalLen = DecodedLength(stored),
                                   !.headerData = <<>>]
    IN  IF failed
        THEN Outcome([next EXCEPT !.currPacket = PACKET_TYPE_ERROR], TRUE, <<>>)
        ELSE IF codec.currPacket = PINGRESP_TYPE THEN Completed(next, FALSE)
        ELSE Outcome(next, FALSE, <<>>)

\* A bug the decoder could have: it waits for one byte too many.
AllReceivedOffByOne(codec) == Len(codec.headerData) > codec.totalLen

\* bufferOffset >= totalLen
AllReceived(codec) == Len(codec.headerData) >= codec.totalLen

\* A byte of the body.  A packet without one has no buffer: the next byte only
\* changes the state, and the one after it is an error.
BodyByte(codec, byte) ==
    LET next == [codec EXCEPT !.headerData = Append(codec.headerData, byte)]
    IN  IF codec.totalLen = 0
        THEN Outcome([codec EXCEPT !.codecState = "PAYLOAD"], FALSE, <<>>)
        ELSE IF AllReceived(next) THEN Completed(next, FALSE)
        ELSE Outcome(next, FALSE, <<>>)

\* One iteration of mqtt_codec_bytesReceived.
BytesReceived(codec, byte) ==
    CASE codec.codecState = "FIXED_HEADER" /\ codec.currPacket = UNKNOWN_TYPE ->
            Outcome([codec EXCEPT !.currPacket = (byte \div 16) * 16,
                                  !.headerFlags = byte % 16], FALSE, <<>>)
      [] codec.codecState = "FIXED_HEADER" /\ codec.currPacket # UNKNOWN_TYPE ->
            LengthByte(codec, byte)
      [] codec.codecState = "VAR_HEADER" -> BodyByte(codec, byte)
      [] codec.codecState = "PAYLOAD" ->
            Outcome([codec EXCEPT !.currPacket = PACKET_TYPE_ERROR], TRUE, <<>>)

-----------------------------------------------------------------------------
\* Every length below 128 * 128 * 128 is decoded as it was encoded.  (The decoder
\* refuses longer ones, although MQTT allows four length bytes.)
RoundTrip(n) ==
    /\ EncodedLength(n) \in Seq(Byte)
    /\ ~TooLong(EncodedLength(n))
    /\ DecodedLength(EncodedLength(n)) = n
    /\ \A i \in 1 .. Len(EncodedLength(n)) :
          (EncodedLength(n)[i] < NEXT_128_CHUNK) <=> (i = Len(EncodedLength(n)))

=============================================================================
