-------------------------- MODULE IothubMqttProofs --------------------------
(***************************************************************************)
(* What TLAPS proves of IothubMqttClient, for every keepAliveInterval,     *)
(* every range of packet ids, every setting of the retry timer and any     *)
(* number of calls of the application and of the acquisition threads.      *)
(***************************************************************************)
EXTENDS IothubMqttClient, SequenceTheorems, TLAPS

\* What is proved of the reconnection timer, with the client's status for its own.  The
\* client keeps no record of when it was polled: of the theorems that speak of one, none
\* is used here.
Timer == INSTANCE RetryLogicProofs
             WITH status <- mqttClientStatus, prompt <- FALSE, polledAt <- RL!Never,
                  downSince <- BootTime

\* What the status says of the session below it.  Each layer keeps its own flags;
\* they agree because CONNACK is answered once, by the session that asked for it.
SessionInv ==
    /\ StatusIsTrue /\ HandlesAgree
    /\ clientConnected => mqttClientStatus = RL!CONNECTED
    /\ CONNECT \in wire => mqttClientStatus = RL!CONNECTING

\* A queue has one entry for each call.
Distinct(queue) ==
    \A i, j \in DOMAIN queue : queue[i].op = queue[j].op => i = j

\* A call that waits has been made, waits in one queue and has not been told; a call
\* that has not been made yet has not been told either.
ToldInv ==
    /\ ToldAtMostOnce
    /\ \A op \in Ops : op > Len(ops) => results[op] = <<>>
    /\ \A op \in OpsOf(pub_ack_waiting_queue) \cup OpsOf(sub_ack_waiting_queue) :
          op <= Len(ops)
    /\ Distinct(pub_ack_waiting_queue) /\ Distinct(sub_ack_waiting_queue)
    /\ OpsOf(pub_ack_waiting_queue) \cap OpsOf(sub_ack_waiting_queue) = {}

\* As long as no packet id has been given out twice, it is the number of the call.
IdsAreOps(queue) == \A i \in DOMAIN queue : queue[i].id = queue[i].op

ReceivedInv ==
    /\ SuccessMeansReceived
    /\ \A packet \in wire : packet # CONNECT => packet.op \in received
    /\ Len(ops) < UShrtMax =>
          /\ packetId = Len(ops)
          /\ \A packet \in wire : packet.id = packet.op
          /\ IdsAreOps(pub_ack_waiting_queue) /\ IdsAreOps(sub_ack_waiting_queue)

-----------------------------------------------------------------------------
(***************************************************************************)
(* The session: its flags and the two pointers to the transport.           *)
(***************************************************************************)
LEMMA SessionStep == ASSUME SessionInv, [Next]_vars PROVE SessionInv'
<1> USE DEF SessionInv, StatusIsTrue, HandlesAgree, RL!NOT_CONNECTED, RL!CONNECTING,
            RL!CONNECTED, NULL, CloseConnection, OnMqttErrorComplete, CONNECT
<1>1. CASE DoworkConnect
  BY <1>1 DEF DoworkConnect, ConnectAttempt
<1>2. CASE DoworkConnectFails
  BY <1>2 DEF DoworkConnectFails, ConnectAttempt
<1>3. CASE DoworkBackOff
  BY <1>3 DEF DoworkBackOff, handleVars, umqttVars
<1>4. CASE DoworkConnectTimeout
  BY <1>4 DEF DoworkConnectTimeout, DisconnectFromClient
<1>5. CASE DoworkProceed
  BY <1>5 DEF DoworkProceed, handleVars, umqttVars
<1>6. CASE ConnAckAccepted
  BY <1>6 DEF ConnAckAccepted, Answer
<1>7. CASE ConnAckRefused
  BY <1>7 DEF ConnAckRefused
<1>8. CASE IoError
  BY <1>8 DEF IoError
<1>9. CASE IoDone
  BY <1>9 DEF IoDone, handleVars, umqttVars
<1>10. CASE \E packet \in wire :
              PubAck(packet) \/ SubAck(packet, "SUCCESS") \/ SubAck(packet, "REFUSED")
  BY <1>10 DEF PubAck, SubAck, Answer, handleVars, umqttVars
<1>11. CASE \E outcome \in {"delivered", "dropped", "failed"} :
              \/ PublishQos1(outcome) \/ PublishQos0(outcome)
              \/ SendUnwatched(outcome) \/ Subscribe(outcome)
  <2>1. UNCHANGED <<handleVars, umqttVars>>
    BY <1>11 DEF PublishQos1, PublishQos0, SendUnwatched, Subscribe
  <2>2. CONNECT \in wire' => CONNECT \in wire
    BY <1>11 DEF PublishQos1, PublishQos0, SendUnwatched, Subscribe, Send
  <2> QED  BY <2>1, <2>2 DEF handleVars, umqttVars
<1>12. CASE DisconnectSession
  BY <1>12 DEF DisconnectSession
<1>13. CASE DisconnectUnsent
  BY <1>13 DEF DisconnectUnsent
<1>14. CASE DisconnectSocket
  BY <1>14 DEF DisconnectSocket
<1>15. CASE Destroy
  BY <1>15 DEF Destroy, DisconnectFromClient
<1>16. CASE Tick
  BY <1>16 DEF Tick, handleVars, umqttVars
<1>17. CASE UNCHANGED vars
  BY <1>17 DEF vars, handleVars, umqttVars
<1> QED
  BY <1>1, <1>2, <1>3, <1>4, <1>5, <1>6, <1>7, <1>8, <1>9, <1>10, <1>11, <1>12,
     <1>13, <1>14, <1>15, <1>16, <1>17 DEF Next, Dowork, Application, Terminated

LEMMA Session == Spec => []SessionInv
<1>1. Init => SessionInv
  BY DEF Init, RL!Init, RL!NOT_CONNECTED, RL!CONNECTING, RL!CONNECTED, SessionInv,
         StatusIsTrue, HandlesAgree
<1> QED  BY <1>1, SessionStep, PTL DEF Spec

-----------------------------------------------------------------------------
(***************************************************************************)
(* The two abstract specifications the client implements.                  *)
(***************************************************************************)
LEMMA TimerStep == ASSUME SessionInv, [Next]_vars PROVE [RL!Next]_(RL!vars)
<1> USE DEF RL!NOT_CONNECTED, RL!CONNECTING, RL!CONNECTED, RL!vars, RL!retryLogic,
            retryLogic, timerVars, handleVars
<1>1. CASE DoworkConnect
  <2>1. RL!Attempt
    BY <1>1 DEF DoworkConnect, ConnectAttempt, RL!Attempt
  <2> QED  BY <2>1 DEF RL!Next
<1>2. CASE DoworkConnectFails
  <2>1. RL!Attempt
    BY <1>2 DEF DoworkConnectFails, ConnectAttempt, RL!Attempt, OnMqttErrorComplete
  <2> QED  BY <2>1 DEF RL!Next
<1>3. CASE DoworkBackOff
  <2>1. RL!BackOff
    BY <1>3 DEF DoworkBackOff, RL!BackOff
  <2> QED  BY <2>1 DEF RL!Next
<1>4. CASE DoworkConnectTimeout
  <2>1. RL!Lost
    BY <1>4 DEF DoworkConnectTimeout, DisconnectFromClient, RL!Lost
  <2> QED  BY <2>1 DEF RL!Next
<1>5. CASE DoworkProceed
  BY <1>5 DEF DoworkProceed
<1>6. CASE ConnAckAccepted
  <2>1. mqttClientStatus = RL!CONNECTING
    BY <1>6 DEF ConnAckAccepted, Answer, SessionInv
  <2>2. RL!Accepted
    BY <1>6, <2>1 DEF ConnAckAccepted, RL!Accepted
  <2> QED  BY <2>2 DEF RL!Next
<1>7. CASE ConnAckRefused
  <2>1. mqttClientStatus = RL!CONNECTING
    BY <1>7 DEF ConnAckRefused, SessionInv
  <2>2. RL!Lost
    BY <1>7, <2>1 DEF ConnAckRefused, RL!Lost
  <2> QED  BY <2>2 DEF RL!Next
<1>8. CASE IoError
  <2>1. mqttClientStatus # RL!NOT_CONNECTED
    BY <1>8 DEF IoError, SessionInv, StatusIsTrue
  <2>2. RL!Lost
    BY <1>8, <2>1 DEF IoError, OnMqttErrorComplete, RL!Lost
  <2> QED  BY <2>2 DEF RL!Next
<1>9. CASE IoDone
  BY <1>9 DEF IoDone
<1>10. CASE \E packet \in wire :
              PubAck(packet) \/ SubAck(packet, "SUCCESS") \/ SubAck(packet, "REFUSED")
  BY <1>10 DEF PubAck, SubAck
<1>11. CASE \E outcome \in {"delivered", "dropped", "failed"} :
              \/ PublishQos1(outcome) \/ PublishQos0(outcome)
              \/ SendUnwatched(outcome) \/ Subscribe(outcome)
  BY <1>11 DEF PublishQos1, PublishQos0, SendUnwatched, Subscribe
<1>12. CASE DisconnectSession
  <2>1. mqttClientStatus = RL!CONNECTED
    BY <1>12 DEF DisconnectSession, SessionInv
  <2>2. RL!Lost
    BY <1>12, <2>1 DEF DisconnectSession, RL!Lost
  <2> QED  BY <2>2 DEF RL!Next
<1>13. CASE DisconnectUnsent
  BY <1>13 DEF DisconnectUnsent
<1>14. CASE DisconnectSocket
  BY <1>14 DEF DisconnectSocket
<1>15. CASE Destroy
  <2>1. mqttClientStatus' = RL!NOT_CONNECTED /\ UNCHANGED timerVars
    BY <1>15 DEF Destroy, DisconnectFromClient
  <2>2. mqttClientStatus # RL!NOT_CONNECTED => RL!Lost
    BY <2>1 DEF RL!Lost
  <2> QED  BY <2>1, <2>2 DEF RL!Next
<1>16. CASE Tick
  <2>1. RL!Tick
    BY <1>16 DEF Tick, RL!Tick
  <2> QED  BY <2>1 DEF RL!Next
<1>17. CASE UNCHANGED vars
  BY <1>17 DEF vars
<1> QED
  BY <1>1, <1>2, <1>3, <1>4, <1>5, <1>6, <1>7, <1>8, <1>9, <1>10, <1>11, <1>12,
     <1>13, <1>14, <1>15, <1>16, <1>17 DEF Next, Dowork, Application, Terminated

\* The client of iothub_mqtt_client.c, with its sockets, packets and threads,
\* implements the reconnection timer: an attempt is a connect of
\* initialize_mqtt_connection, only CONNACK stops the timer, and no callback,
\* publish or disconnect touches it.
THEOREM RetryLogicImplemented == Spec => ImplementsRetryLogic
<1>1. Init => RL!Init
  BY DEF Init
<1> QED  BY <1>1, TimerStep, Session, PTL DEF Spec, ImplementsRetryLogic, RL!Spec

LEMMA SessionImplemented == ASSUME SessionInv, [Next]_vars PROVE [S!Next]_(S!sessionVars)
<1> USE DEF RL!NOT_CONNECTED, RL!CONNECTING, RL!CONNECTED, handleVars, S!Next,
            S!sessionVars, S!NOT_CONNECTED, S!CONNECTING, S!CONNECTED
<1>1. CASE DoworkConnect
  BY <1>1 DEF DoworkConnect, ConnectAttempt, S!Connect
<1>2. CASE DoworkConnectFails
  BY <1>2 DEF DoworkConnectFails, OnMqttErrorComplete, S!Fail
<1>3. CASE DoworkBackOff \/ DoworkProceed \/ IoDone
  BY <1>3 DEF DoworkBackOff, DoworkProceed, IoDone
<1>4. CASE DoworkConnectTimeout
  BY <1>4 DEF DoworkConnectTimeout, DisconnectFromClient, S!TimeOut
<1>6. CASE ConnAckAccepted
  BY <1>6 DEF ConnAckAccepted, Answer, SessionInv, S!Accept
<1>7. CASE ConnAckRefused
  BY <1>7 DEF ConnAckRefused, SessionInv, S!Refuse
<1>8. CASE IoError
  BY <1>8 DEF IoError, OnMqttErrorComplete, S!Fail
<1>10. CASE \E packet \in wire :
              PubAck(packet) \/ SubAck(packet, "SUCCESS") \/ SubAck(packet, "REFUSED")
  BY <1>10 DEF PubAck, SubAck
<1>11. CASE \E outcome \in {"delivered", "dropped", "failed"} :
              \/ PublishQos1(outcome) \/ PublishQos0(outcome)
              \/ SendUnwatched(outcome) \/ Subscribe(outcome)
  BY <1>11 DEF PublishQos1, PublishQos0, SendUnwatched, Subscribe
<1>12. CASE DisconnectSession
  BY <1>12 DEF DisconnectSession, SessionInv, S!Disconnect
<1>13. CASE DisconnectUnsent \/ DisconnectSocket
  BY <1>13 DEF DisconnectUnsent, DisconnectSocket
<1>15. CASE Destroy
  BY <1>15 DEF Destroy, DisconnectFromClient, S!Fail
<1>16. CASE Tick \/ UNCHANGED vars
  BY <1>16 DEF Tick, vars
<1> QED
  BY <1>1, <1>2, <1>3, <1>4, <1>6, <1>7, <1>8, <1>10, <1>11, <1>12, <1>13, <1>15, <1>16
     DEF Next, Dowork, Application, Terminated

\* To the application the client is the abstract session IoteaClient is built on:
\* CONNACK finds the client connecting, DISCONNECT finds it connected, and every
\* way a session can end leaves the flags that session promises.
THEOREM MqttSessionImplemented == Spec => ImplementsMqttSession
<1>1. Init => S!Init
  BY DEF Init, RL!Init, RL!NOT_CONNECTED, S!Init, S!NOT_CONNECTED
<1> QED  BY <1>1, SessionImplemented, Session, PTL DEF Spec, ImplementsMqttSession, S!Spec

\* The timer the theorems of RetryLogicProofs speak of is the client's.
LEMMA TimerIsTheClients == Spec => Timer!Spec
<1> USE DEF RL!NOT_CONNECTED, Timer!NOT_CONNECTED, RL!CONNECTING, Timer!CONNECTING,
            RL!CONNECTED, Timer!CONNECTED, RL!EPOCH, Timer!EPOCH, RL!Never,
            Timer!Never, RL!vars, Timer!vars, RL!retryLogic, Timer!retryLogic
<1>1. RL!Init => Timer!Init
  BY DEF RL!Init, Timer!Init, RL!CreateRetryLogic, Timer!CreateRetryLogic
<1>2. RL!StartRetryTimer <=> Timer!StartRetryTimer
  BY DEF RL!StartRetryTimer, Timer!StartRetryTimer
<1>3. RL!StopRetryTimer <=> Timer!StopRetryTimer
  BY DEF RL!StopRetryTimer, Timer!StopRetryTimer
<1>4. RL!PolicyAsked <=> Timer!PolicyAsked
  BY DEF RL!PolicyAsked, Timer!PolicyAsked, RL!TooSoon, Timer!TooSoon, RL!diffTime,
         Timer!diffTime
<1>5. /\ RL!BackOffDelays(retrycount) = Timer!BackOffDelays(retrycount)
      /\ \A delay : RL!WithinLimit(delay) <=> Timer!WithinLimit(delay)
  BY DEF RL!BackOffDelays, Timer!BackOffDelays, RL!HalfDelta, Timer!HalfDelta,
         RL!WithinLimit, Timer!WithinLimit
<1>6. RL!CanRetryTrue => Timer!CanRetryTrue
  <2>1. RL!FirstAttempt => Timer!FirstAttempt
    BY <1>2 DEF RL!FirstAttempt, Timer!FirstAttempt
  <2>2. RL!RetryAttempt => Timer!RetryAttempt
    BY <1>4, <1>5 DEF RL!RetryAttempt, Timer!RetryAttempt, RL!diffTime, Timer!diffTime
  <2> QED  BY <2>1, <2>2 DEF RL!CanRetryTrue, Timer!CanRetryTrue
<1>7. RL!CanRetryFalse => Timer!CanRetryFalse
  <2>1. RL!RetryPostponed => Timer!RetryPostponed
    BY <1>4, <1>5 DEF RL!RetryPostponed, Timer!RetryPostponed, RL!diffTime, Timer!diffTime
  <2>2. RL!RetryGivesUp => Timer!RetryGivesUp
    BY <1>3, <1>4, <1>5 DEF RL!RetryGivesUp, Timer!RetryGivesUp
  <2>3. RL!RetryStarts => Timer!RetryStarts
    BY <1>2 DEF RL!RetryStarts, Timer!RetryStarts
  <2>4. RL!RetryRefused => Timer!RetryRefused
    BY DEF RL!RetryRefused, Timer!RetryRefused, RL!TooSoon, Timer!TooSoon, RL!diffTime,
           Timer!diffTime
  <2> QED  BY <2>1, <2>2, <2>3, <2>4 DEF RL!CanRetryFalse, Timer!CanRetryFalse
<1>8. [RL!Next]_(RL!vars) => [Timer!Next]_(Timer!vars)
  BY <1>3, <1>6, <1>7 DEF RL!Next, Timer!Next, RL!Tick, Timer!Tick, RL!Attempt,
     Timer!Attempt, RL!BackOff, Timer!BackOff, RL!Accepted, Timer!Accepted, RL!Lost,
     Timer!Lost
<1> HIDE DEF RL!vars, Timer!vars
<1> QED
  BY <1>1, <1>8, RetryLogicImplemented, PTL DEF ImplementsRetryLogic, RL!Spec, Timer!Spec

-----------------------------------------------------------------------------
(***************************************************************************)
(* The queues of calls that wait for an acknowledgement.                   *)
(***************************************************************************)
\* RemoveAt closes the gap it makes.
LEMMA Removed ==
    ASSUME NEW E, NEW queue \in Seq(E), NEW k \in 1 .. Len(queue)
    PROVE  /\ RemoveAt(queue, k) \in Seq(E)
           /\ Len(RemoveAt(queue, k)) = Len(queue) - 1
           /\ \A i \in 1 .. (Len(queue) - 1) :
                 RemoveAt(queue, k)[i] = queue[IF i < k THEN i ELSE i + 1]
<1> DEFINE before == SubSeq(queue, 1, k - 1)
           after == SubSeq(queue, k + 1, Len(queue))
<1>0. Len(queue) \in Nat /\ \A i \in 1 .. Len(queue) : queue[i] \in E
  BY LenProperties, ElementOfSeq
<1>1. /\ before \in Seq(E)
      /\ Len(before) = k - 1
      /\ \A i \in 1 .. (k - 1) : before[i] = queue[i]
  <2>1. \A i \in 1 .. (k - 1) : queue[i] \in E
    BY <1>0
  <2>2. /\ before \in Seq(E)
        /\ Len(before) = IF 1 <= k - 1 THEN (k - 1) - 1 + 1 ELSE 0
        /\ \A i \in 1 .. ((k - 1) - 1 + 1) : before[i] = queue[1 + i - 1]
    BY <2>1, <1>0, SubSeqProperties
  <2> HIDE DEF before
  <2> QED  BY <2>2, <1>0
<1>2. /\ after \in Seq(E)
      /\ Len(after) = Len(queue) - k
      /\ \A i \in 1 .. (Len(queue) - k) : after[i] = queue[k + i]
  <2>1. \A i \in (k + 1) .. Len(queue) : queue[i] \in E
    BY <1>0
  <2>2. /\ after \in Seq(E)
        /\ Len(after) = IF k + 1 <= Len(queue) THEN Len(queue) - (k + 1) + 1 ELSE 0
        /\ \A i \in 1 .. (Len(queue) - (k + 1) + 1) : after[i] = queue[(k + 1) + i - 1]
    BY <2>1, <1>0, SubSeqProperties
  <2> HIDE DEF after
  <2> QED  BY <2>2, <1>0
<1>3. RemoveAt(queue, k) = before \o after
  BY DEF RemoveAt
<1> HIDE DEF before, after
<1>4. /\ before \o after \in Seq(E)
      /\ Len(before \o after) = Len(before) + Len(after)
      /\ \A i \in 1 .. Len(before) + Len(after) :
            (before \o after)[i] = IF i <= Len(before) THEN before[i]
                                                      ELSE after[i - Len(before)]
  BY <1>1, <1>2, ConcatProperties
<1>5. ASSUME NEW i \in 1 .. (Len(queue) - 1)
      PROVE  (before \o after)[i] = queue[IF i < k THEN i ELSE i + 1]
  <2>1. CASE i < k
    BY <2>1, <1>0, <1>1, <1>2, <1>4
  <2>2. CASE ~(i < k)
    <3>1. /\ (before \o after)[i] = after[i - (k - 1)]
          /\ i - (k - 1) \in 1 .. (Len(queue) - k)
      BY <2>2, <1>0, <1>1, <1>2, <1>4
    <3>2. k + (i - (k - 1)) = i + 1
      BY <1>0
    <3> QED  BY <2>2, <3>1, <3>2, <1>2
  <2> QED  BY <2>1, <2>2
<1>6. Len(before) + Len(after) = Len(queue) - 1
  BY <1>0, <1>1, <1>2
<1> QED  BY <1>3, <1>4, <1>5, <1>6, Zenon

\* What taking the acknowledged entry out of a queue leaves.
LEMMA AckedEntry ==
    ASSUME NEW queue \in Seq(Entries), NEW id
    PROVE  LET found == FirstWithId(queue, id)
               left == Without(queue, found)
           IN  /\ left \in Seq(Entries)
               /\ OpsOf(left) \subseteq OpsOf(queue)
               /\ {queue[i].op : i \in found} \subseteq OpsOf(queue)
               /\ \A i \in found : i \in DOMAIN queue /\ queue[i].id = id
               /\ Distinct(queue) => Distinct(left)
               /\ Distinct(queue) => OpsOf(left) \cap {queue[i].op : i \in found} = {}
               /\ IdsAreOps(queue) => IdsAreOps(left)
<1> DEFINE found == FirstWithId(queue, id)
           left == Without(queue, found)
<1>0. Len(queue) \in Nat /\ DOMAIN queue = 1 .. Len(queue)
  BY LenProperties
<1>1. /\ \A i \in found : i \in DOMAIN queue /\ queue[i].id = id
      /\ {queue[i].op : i \in found} \subseteq OpsOf(queue)
  BY DEF FirstWithId, OpsOf
<1>2. CASE found = {}
  <2>1. left = queue
    BY <1>2 DEF Without
  <2> QED  BY <1>1, <1>2, <2>1
<1>3. CASE found # {}
  <2> DEFINE k == CHOOSE i \in found : TRUE
  <2>1. k \in found /\ k \in 1 .. Len(queue) /\ left = RemoveAt(queue, k)
    BY <1>0, <1>1, <1>3 DEF Without
  <2>2. \A i \in found : i = k
    <3> SUFFICES ASSUME NEW i \in found, i # k  PROVE FALSE
      OBVIOUS
    <3> HIDE DEF k
    <3>1. /\ i \in 1 .. Len(queue) /\ queue[i].id = id /\ queue[k].id = id
          /\ \A j \in 1 .. (i - 1) : queue[j].id # id
          /\ \A j \in 1 .. (k - 1) : queue[j].id # id
      BY <1>0, <2>1 DEF FirstWithId
    <3>2. CASE i < k
      BY <1>0, <2>1, <3>1, <3>2
    <3>3. CASE k < i
      BY <1>0, <2>1, <3>1, <3>3
    <3> QED  BY <1>0, <2>1, <3>1, <3>2, <3>3
  <2> HIDE DEF k, found, left
  <2>3. /\ left \in Seq(Entries)
        /\ Len(left) = Len(queue) - 1
        /\ \A i \in 1 .. (Len(queue) - 1) :
              left[i] = queue[IF i < k THEN i ELSE i + 1]
    BY <2>1, Removed
  <2>4. DOMAIN left = 1 .. (Len(queue) - 1)
    BY <2>3, LenProperties
  <2> DEFINE from(i) == IF i < k THEN i ELSE i + 1
  <2>5. \A i \in DOMAIN left : from(i) \in DOMAIN queue /\ from(i) # k /\ left[i] = queue[from(i)]
    BY <1>0, <2>1, <2>3, <2>4
  <2>6. \A i, j \in DOMAIN left : from(i) = from(j) => i = j
    BY <1>0, <2>1, <2>4
  <2> HIDE DEF from
  <2>7. OpsOf(left) \subseteq OpsOf(queue) /\ (IdsAreOps(queue) => IdsAreOps(left))
    BY <2>5 DEF OpsOf, IdsAreOps
  <2>8. Distinct(queue) => Distinct(left)
    BY <2>5, <2>6 DEF Distinct
  <2>9. Distinct(queue) => OpsOf(left) \cap {queue[i].op : i \in found} = {}
    BY <1>0, <2>1, <2>2, <2>5 DEF Distinct, OpsOf
  <2> QED  BY <1>1, <2>3, <2>7, <2>8, <2>9 DEF found, left
<1> QED  BY <1>2, <1>3

\* What queueing one more call adds.
LEMMA AddedEntry ==
    ASSUME NEW queue \in Seq(Entries), NEW entry \in Entries
    PROVE  LET longer == Append(queue, entry)
           IN  /\ longer \in Seq(Entries)
               /\ OpsOf(longer) = OpsOf(queue) \cup {entry.op}
               /\ Distinct(queue) /\ entry.op \notin OpsOf(queue) => Distinct(longer)
               /\ IdsAreOps(queue) /\ entry.id = entry.op => IdsAreOps(longer)
<1> DEFINE longer == Append(queue, entry)
<1>1. Len(queue) \in Nat /\ DOMAIN queue = 1 .. Len(queue)
  BY LenProperties
<1>2. /\ longer \in Seq(Entries)
      /\ Len(longer) = Len(queue) + 1
      /\ \A i \in 1 .. Len(queue) : longer[i] = queue[i]
      /\ longer[Len(queue) + 1] = entry
  BY AppendProperties
<1> HIDE DEF longer
<1>3. DOMAIN longer = 1 .. (Len(queue) + 1)
  BY <1>2, LenProperties
<1>4. DOMAIN longer = DOMAIN queue \cup {Len(queue) + 1} /\ Len(queue) + 1 \notin DOMAIN queue
  BY <1>1, <1>3
<1>5. \A i \in DOMAIN queue : longer[i] = queue[i]
  BY <1>1, <1>2
<1> QED
  BY <1>2, <1>4, <1>5 DEF OpsOf, Distinct, IdsAreOps, longer

-----------------------------------------------------------------------------
(***************************************************************************)
(* The calls: their types, who is told what, and what the broker got.      *)
(***************************************************************************)
Calls == {"PUBLISH", "PUBLISH0", "UNWATCHED", "SUBSCRIBE"}
Outcomes == {"SUCCESS", "FAILED", "REFUSED"}

CallTypes ==
    /\ packetId \in 0 .. (UShrtMax - 1)
    /\ pub_ack_waiting_queue \in Seq(Entries)
    /\ sub_ack_waiting_queue \in Seq(Entries)
    /\ ops \in Seq(Calls) /\ Len(ops) <= MaxOps
    /\ results \in [Ops -> Seq(Outcomes)]
    /\ received \subseteq DOMAIN ops

\* A step either makes a call, answers one, flushes the queues after a loss, or
\* leaves the calls alone.
LEMMA CallSteps ==
    ASSUME [Next]_vars
    PROVE  \/ NotifyAckFailure /\ wire' = {} /\ UNCHANGED opVars
           \/ \E packet \in wire :
                 PubAck(packet) \/ SubAck(packet, "SUCCESS") \/ SubAck(packet, "REFUSED")
           \/ \E outcome \in {"delivered", "dropped", "failed"} :
                 \/ PublishQos1(outcome) \/ PublishQos0(outcome)
                 \/ SendUnwatched(outcome) \/ Subscribe(outcome)
           \/ wire' \subseteq wire \cup {CONNECT} /\ UNCHANGED <<queueVars, opVars>>
<1>1. CASE DoworkConnectFails \/ IoError
  BY <1>1 DEF DoworkConnectFails, IoError, OnMqttErrorComplete, CloseConnection
<1>2. CASE DoworkConnect
  BY <1>2 DEF DoworkConnect
<1>3. CASE DoworkConnectTimeout \/ Destroy
  BY <1>3 DEF DoworkConnectTimeout, Destroy, DisconnectFromClient, CloseConnection
<1>4. CASE DoworkBackOff \/ DoworkProceed \/ IoDone \/ Tick \/ DisconnectUnsent
  BY <1>4 DEF DoworkBackOff, DoworkProceed, IoDone, Tick, DisconnectUnsent
<1>5. CASE ConnAckAccepted
  BY <1>5 DEF ConnAckAccepted, Answer
<1>6. CASE ConnAckRefused \/ DisconnectSession \/ DisconnectSocket
  BY <1>6 DEF ConnAckRefused, DisconnectSession, DisconnectSocket, CloseConnection
<1>7. CASE UNCHANGED vars
  BY <1>7 DEF vars
<1> QED
  BY <1>1, <1>2, <1>3, <1>4, <1>5, <1>6, <1>7 DEF Next, Dowork, Application, Terminated

\* What a call does to the history, whatever its kind and its fate.
LEMMA Sent ==
    ASSUME CallTypes, NEW type \in Calls, NEW outcome, Send(type, outcome)
    PROVE  /\ ops' \in Seq(Calls) /\ Len(ops') = Len(ops) + 1
           /\ Len(ops') \in Ops /\ Len(ops') <= MaxOps
           /\ \A op \in DOMAIN ops : ops'[op] = ops[op]
           /\ ops'[Len(ops')] = type
           /\ DOMAIN ops' = DOMAIN ops \cup {Len(ops')}
           /\ Len(ops') \notin DOMAIN ops
           /\ packetId' \in 1 .. (UShrtMax - 1)
           /\ Waiting \in Entries /\ Waiting.op = Len(ops') /\ Waiting.id = packetId'
           /\ received' \subseteq DOMAIN ops'
           /\ received \subseteq received'
<1>1. Len(ops) \in Nat /\ DOMAIN ops = 1 .. Len(ops) /\ MaxOps \in Nat /\ Len(ops) < MaxOps
  BY LenProperties, ClientAssumption DEF CallTypes, Send
<1>2. ops' = Append(ops, type) /\ ops \in Seq(Calls)
  BY DEF Send, CallTypes
<1>3. /\ ops' \in Seq(Calls) /\ Len(ops') = Len(ops) + 1
      /\ \A op \in 1 .. Len(ops) : ops'[op] = ops[op]
      /\ ops'[Len(ops) + 1] = type
  BY <1>2, AppendProperties
<1>4. DOMAIN ops' = 1 .. (Len(ops) + 1)
  BY <1>3, LenProperties
<1>5. /\ Len(ops') \in Ops /\ Len(ops') <= MaxOps
      /\ DOMAIN ops' = DOMAIN ops \cup {Len(ops')}
      /\ Len(ops') \notin DOMAIN ops
  BY <1>1, <1>3, <1>4 DEF Ops
<1>6. packetId' \in 1 .. (UShrtMax - 1)
  BY ClientAssumption DEF Send, GetNextPacketId, CallTypes
<1>7. Waiting \in Entries /\ Waiting.op = Len(ops') /\ Waiting.id = packetId'
  BY <1>5, <1>6 DEF Waiting, Entries
<1>8. received' = received \/ received' = received \cup {Len(ops')}
  BY DEF Send
<1>9. received' \subseteq DOMAIN ops' /\ received \subseteq received'
  BY <1>5, <1>8 DEF CallTypes
<1> QED  BY <1>1, <1>3, <1>5, <1>6, <1>7, <1>9

\* What the callbacks of some calls have been told.
LEMMA Notified ==
    ASSUME results \in [Ops -> Seq(Outcomes)], NEW told, NEW result \in Outcomes,
           Notify(told, result)
    PROVE  /\ results' \in [Ops -> Seq(Outcomes)]
           /\ \A op \in Ops \ told : results'[op] = results[op]
           /\ \A op \in Ops \cap told : results[op] = <<>> => results'[op] = <<result>>
<1>1. \A op \in Ops : results[op] \in Seq(Outcomes)
  OBVIOUS
<1>2. \A op \in Ops : Append(results[op], result) \in Seq(Outcomes)
  BY <1>1, AppendProperties
<1>3. Append(<<>>, result) = <<result>>
  OBVIOUS
<1> QED  BY <1>1, <1>2, <1>3 DEF Notify

LEMMA CallTypesStep == ASSUME CallTypes, [Next]_vars PROVE CallTypes'
<1>1. CASE NotifyAckFailure /\ UNCHANGED opVars
  <2>1. results' \in [Ops -> Seq(Outcomes)]
    BY <1>1, Notified DEF NotifyAckFailure, CallTypes, Outcomes
  <2>2. /\ pub_ack_waiting_queue' \in Seq(Entries)
        /\ sub_ack_waiting_queue' \in Seq(Entries)
    BY <1>1, EmptySeq DEF NotifyAckFailure
  <2> QED  BY <1>1, <2>1, <2>2 DEF CallTypes, opVars
<1>2. ASSUME NEW packet, PubAck(packet)  PROVE CallTypes'
  <2>1. results' \in [Ops -> Seq(Outcomes)]
    BY <1>2, Notified DEF PubAck, Acked, CallTypes, Outcomes
  <2>2. pub_ack_waiting_queue' \in Seq(Entries)
    BY <1>2, AckedEntry DEF PubAck, CallTypes
  <2> QED  BY <1>2, <2>1, <2>2 DEF PubAck, CallTypes, opVars
<1>3. ASSUME NEW packet, NEW result \in Outcomes, SubAck(packet, result)  PROVE CallTypes'
  <2>1. results' \in [Ops -> Seq(Outcomes)]
    BY <1>3, Notified DEF SubAck, Acked, CallTypes
  <2>2. sub_ack_waiting_queue' \in Seq(Entries)
    BY <1>3, AckedEntry DEF SubAck, CallTypes
  <2> QED  BY <1>3, <2>1, <2>2 DEF SubAck, CallTypes, opVars
<1>4. ASSUME NEW type \in Calls, NEW outcome, Send(type, outcome),
             pub_ack_waiting_queue' \in Seq(Entries),
             sub_ack_waiting_queue' \in Seq(Entries),
             results' \in [Ops -> Seq(Outcomes)]
      PROVE  CallTypes'
  <2>1. packetId' \in 0 .. (UShrtMax - 1)
    BY <1>4, Sent, ClientAssumption
  <2> QED  BY <1>4, <2>1, Sent DEF CallTypes
<1>5. ASSUME NEW outcome, PublishQos1(outcome)  PROVE CallTypes'
  <2>1. Send("PUBLISH", outcome) /\ Waiting \in Entries
    BY <1>5, Sent DEF PublishQos1, Calls
  <2>2. CASE outcome = "failed"
    <3>1. results' \in [Ops -> Seq(Outcomes)]
      BY <1>5, <2>2, Notified DEF PublishQos1, CallTypes, Outcomes
    <3> QED  BY <1>4, <1>5, <2>1, <2>2, <3>1 DEF PublishQos1, CallTypes, Calls
  <2>3. CASE outcome # "failed"
    <3>1. pub_ack_waiting_queue' \in Seq(Entries)
      BY <1>5, <2>1, <2>3, AddedEntry DEF PublishQos1, CallTypes
    <3> QED  BY <1>4, <1>5, <2>1, <2>3, <3>1 DEF PublishQos1, CallTypes, Calls
  <2> QED  BY <2>2, <2>3
<1>6. ASSUME NEW outcome, PublishQos0(outcome)  PROVE CallTypes'
  <2>1. results' \in [Ops -> Seq(Outcomes)]
    BY <1>6, Notified DEF PublishQos0, CallTypes, Outcomes
  <2> QED  BY <1>4, <1>6, <2>1 DEF PublishQos0, CallTypes, Calls
<1>7. ASSUME NEW outcome, SendUnwatched(outcome)  PROVE CallTypes'
  BY <1>4, <1>7 DEF SendUnwatched, queueVars, CallTypes, Calls
<1>8. ASSUME NEW outcome, Subscribe(outcome)  PROVE CallTypes'
  <2>1. Send("SUBSCRIBE", outcome) /\ Waiting \in Entries
    BY <1>8, Sent DEF Subscribe, Calls
  <2>2. sub_ack_waiting_queue' \in Seq(Entries)
    BY <1>8, <2>1, AddedEntry DEF Subscribe, CallTypes
  <2> QED  BY <1>4, <1>8, <2>1, <2>2 DEF Subscribe, CallTypes, Calls
<1>9. CASE UNCHANGED <<queueVars, opVars>>
  BY <1>9 DEF CallTypes, queueVars, opVars
<1> QED
  BY <1>1, <1>2, <1>3, <1>5, <1>6, <1>7, <1>8, <1>9, CallSteps DEF Outcomes

LEMMA CallTypesAlways == Spec => []CallTypes
<1>1. Init => CallTypes
  <2> SUFFICES ASSUME Init  PROVE CallTypes
    OBVIOUS
  <2>1. \A T : <<>> \in Seq(T) /\ Len(<<>>) = 0
    BY EmptySeq
  <2>2. packetId \in 0 .. (UShrtMax - 1) /\ Len(ops) <= MaxOps
    BY <2>1, ClientAssumption DEF Init
  <2> QED  BY <2>1, <2>2 DEF Init, CallTypes
<1> QED  BY <1>1, CallTypesStep, PTL DEF Spec

\* Everything but the timer and the calls.
HandleTypes ==
    /\ isConnectionLost \in BOOLEAN /\ isRecoverableError \in BOOLEAN
    /\ isDisconnectCalled \in BOOLEAN
    /\ mqtt_connect_time \in Nat
    /\ xioTransport \in Pointers /\ xioHandle \in Pointers
    /\ socketConnected \in BOOLEAN /\ clientConnected \in BOOLEAN
    /\ pc \in {"idle", "io", "destroyed", "undefined"}

LEMMA HandleTypesStep ==
    ASSUME now \in Nat, HandleTypes, [Next]_vars  PROVE HandleTypes'
<1> USE DEF HandleTypes, Pointers, NULL, CloseConnection, OnMqttErrorComplete, handleVars,
            umqttVars
<1>1. CASE DoworkConnect
  BY <1>1 DEF DoworkConnect, ConnectAttempt
<1>2. CASE DoworkConnectFails
  BY <1>2 DEF DoworkConnectFails, ConnectAttempt
<1>3. CASE DoworkBackOff
  BY <1>3 DEF DoworkBackOff, EnterIo
<1>4. CASE DoworkConnectTimeout
  BY <1>4 DEF DoworkConnectTimeout, DisconnectFromClient
<1>5. CASE DoworkProceed
  BY <1>5 DEF DoworkProceed, EnterIo
<1>6. CASE ConnAckAccepted
  BY <1>6 DEF ConnAckAccepted
<1>7. CASE ConnAckRefused
  BY <1>7 DEF ConnAckRefused
<1>8. CASE IoError
  BY <1>8 DEF IoError
<1>9. CASE IoDone
  BY <1>9 DEF IoDone
<1>10. CASE \E packet \in wire :
              PubAck(packet) \/ SubAck(packet, "SUCCESS") \/ SubAck(packet, "REFUSED")
  BY <1>10 DEF PubAck, SubAck
<1>11. CASE \E outcome \in {"delivered", "dropped", "failed"} :
              \/ PublishQos1(outcome) \/ PublishQos0(outcome)
              \/ SendUnwatched(outcome) \/ Subscribe(outcome)
  <2>1. UNCHANGED <<handleVars, umqttVars>>
    BY <1>11 DEF PublishQos1, PublishQos0, SendUnwatched, Subscribe
  <2>2. pc' \in {"idle", "io", "destroyed", "undefined"}
    BY <1>11 DEF PublishQos1, PublishQos0, SendUnwatched, Subscribe, Send
  <2> QED  BY <2>1, <2>2
<1>12. CASE DisconnectSession
  BY <1>12 DEF DisconnectSession
<1>13. CASE DisconnectUnsent
  BY <1>13 DEF DisconnectUnsent
<1>14. CASE DisconnectSocket
  BY <1>14 DEF DisconnectSocket
<1>15. CASE Destroy
  BY <1>15 DEF Destroy, DisconnectFromClient
<1>16. CASE Tick
  BY <1>16 DEF Tick
<1>17. CASE UNCHANGED vars
  BY <1>17 DEF vars
<1> QED
  BY <1>1, <1>2, <1>3, <1>4, <1>5, <1>6, <1>7, <1>8, <1>9, <1>10, <1>11, <1>12,
     <1>13, <1>14, <1>15, <1>16, <1>17 DEF Next, Dowork, Application, Terminated

LEMMA TimerTypes == Spec => []RL!TypeOK
<1>1. Timer!RetryAssumption
  BY ClientAssumption DEF Timer!RetryAssumption
<1>2. Timer!TypeOK => RL!TypeOK
  BY DEF RL!TypeOK, Timer!TypeOK, RL!Never, Timer!Never, RL!Statuses, Timer!Statuses,
         RL!NOT_CONNECTED, RL!CONNECTING, RL!CONNECTED, Timer!NOT_CONNECTED,
         Timer!CONNECTING, Timer!CONNECTED
<1> QED  BY <1>1, <1>2, Timer!TypeCorrect, TimerIsTheClients, PTL

\* Every variable of the handle, of the umqtt client and of the timer keeps the type
\* of its C counterpart, and every packet id in use is one MQTT allows: GetNextPacketId
\* never gives out 0, nor USHRT_MAX, however many calls are made.
THEOREM ClientTypeCorrect == Spec => []TypeOK
<1>1. Init => HandleTypes
  <2> SUFFICES ASSUME Init  PROVE HandleTypes
    OBVIOUS
  <2>1. /\ isConnectionLost = FALSE /\ isRecoverableError = TRUE
        /\ isDisconnectCalled = FALSE /\ mqtt_connect_time = 0
        /\ xioTransport = NULL /\ xioHandle = NULL
        /\ socketConnected = FALSE /\ clientConnected = FALSE /\ pc = "idle"
    BY DEF Init
  <2> QED  BY <2>1 DEF HandleTypes, Pointers
<1>2. RL!TypeOK => now \in Nat
  BY DEF RL!TypeOK
<1>3. RL!TypeOK /\ HandleTypes /\ CallTypes => TypeOK
  BY DEF HandleTypes, CallTypes, TypeOK, Calls, Outcomes
<1> QED
  BY <1>1, <1>2, <1>3, HandleTypesStep, TimerTypes, CallTypesAlways, PTL DEF Spec

-----------------------------------------------------------------------------
LEMMA ToldStep == ASSUME CallTypes, ToldInv, [Next]_vars PROVE ToldInv'
<1> DEFINE waiting == OpsOf(pub_ack_waiting_queue) \cup OpsOf(sub_ack_waiting_queue)
<1>0. /\ Len(ops) \in Nat
      /\ waiting \subseteq Ops /\ Ops \subseteq Nat
      /\ Len(<<>>) = 0
  <2>1. Len(ops) \in Nat /\ Ops \subseteq Nat
    BY LenProperties, ClientAssumption DEF CallTypes, Ops
  <2>2. \A queue \in Seq(Entries) : OpsOf(queue) \subseteq Ops
    <3> SUFFICES ASSUME NEW queue \in Seq(Entries), NEW i \in DOMAIN queue
                 PROVE  queue[i].op \in Ops
      BY DEF OpsOf
    <3>1. queue[i] \in Entries
      BY ElementOfSeq, LenProperties
    <3> QED  BY <3>1 DEF Entries
  <2> QED  BY <2>1, <2>2, EmptySeq DEF CallTypes
<1>1. CASE NotifyAckFailure /\ UNCHANGED opVars
  <2>1. OpsOf(pub_ack_waiting_queue') = {} /\ OpsOf(sub_ack_waiting_queue') = {}
    BY <1>1 DEF NotifyAckFailure, OpsOf
  <2>2. Distinct(pub_ack_waiting_queue') /\ Distinct(sub_ack_waiting_queue')
    BY <1>1 DEF NotifyAckFailure, Distinct
  <2>3. /\ \A op \in Ops \ waiting : results'[op] = results[op]
        /\ \A op \in Ops \cap waiting : results[op] = <<>> => results'[op] = <<"FAILED">>
    BY <1>1, Notified DEF NotifyAckFailure, CallTypes, Outcomes
  <2>4. \A op \in Ops : Len(results'[op]) <= 1
    <3> SUFFICES ASSUME NEW op \in Ops  PROVE Len(results'[op]) <= 1
      OBVIOUS
    <3>1. CASE op \in waiting
      <4>1. results'[op] = <<"FAILED">>
        BY <2>3, <3>1 DEF ToldInv, ToldAtMostOnce
      <4>2. Len(<<"FAILED">>) = 1
        OBVIOUS
      <4> QED  BY <4>1, <4>2
    <3>2. CASE op \notin waiting
      BY <2>3, <3>2 DEF ToldInv, ToldAtMostOnce
    <3> QED  BY <3>1, <3>2
  <2>5. \A op \in Ops : op > Len(ops) => results'[op] = <<>>
    BY <1>0, <2>3 DEF ToldInv
  <2> QED  BY <1>1, <2>1, <2>2, <2>4, <2>5 DEF ToldInv, ToldAtMostOnce, opVars
<1>2. ASSUME NEW queue, NEW other, NEW id, NEW result \in Outcomes,
             \/ queue = pub_ack_waiting_queue /\ other = sub_ack_waiting_queue
             \/ queue = sub_ack_waiting_queue /\ other = pub_ack_waiting_queue,
             Notify({queue[i].op : i \in FirstWithId(queue, id)}, result), 
             UNCHANGED opVars
      PROVE  LET left == Without(queue, FirstWithId(queue, id))
             IN  /\ \A op \in Ops : Len(results'[op]) <= 1
                 /\ \A op \in OpsOf(left) \cup OpsOf(other) : results'[op] = <<>>
                 /\ \A op \in Ops : op > Len(ops') => results'[op] = <<>>
                 /\ \A op \in OpsOf(left) \cup OpsOf(other) : op <= Len(ops')
                 /\ Distinct(left) /\ Distinct(other)
                 /\ OpsOf(left) \cap OpsOf(other) = {}
  <2> DEFINE found == FirstWithId(queue, id)
             left == Without(queue, found)
             told == {queue[i].op : i \in found}
  <2>1. /\ queue \in Seq(Entries) /\ Distinct(queue) /\ Distinct(other)
        /\ OpsOf(queue) \cap OpsOf(other) = {}
        /\ waiting = OpsOf(queue) \cup OpsOf(other)
    BY <1>2 DEF CallTypes, ToldInv
  <2>2. /\ OpsOf(left) \subseteq OpsOf(queue) /\ told \subseteq OpsOf(queue)
        /\ Distinct(left) /\ OpsOf(left) \cap told = {}
    BY <2>1, AckedEntry
  <2>3. /\ \A op \in Ops \ told : results'[op] = results[op]
        /\ \A op \in Ops \cap told : results[op] = <<>> => results'[op] = <<result>>
    BY <1>2, Notified DEF CallTypes
  <2> HIDE DEF found, left, told, waiting
  <2>4. /\ \A op \in waiting : results[op] = <<>> /\ op <= Len(ops)
        /\ \A op \in Ops : Len(results[op]) <= 1 /\ (op > Len(ops) => results[op] = <<>>)
    BY DEF ToldInv, ToldAtMostOnce, waiting
  <2>5. Len(<<result>>) = 1
    OBVIOUS
  <2>6. \A op \in Ops : Len(results'[op]) <= 1
    <3> SUFFICES ASSUME NEW op \in Ops  PROVE Len(results'[op]) <= 1
      OBVIOUS
    <3>1. CASE op \in told
      <4>1. results'[op] = <<result>>
        BY <2>1, <2>2, <2>3, <2>4, <3>1
      <4> QED  BY <4>1, <2>5
    <3>2. CASE op \notin told
      BY <2>3, <2>4, <3>2
    <3> QED  BY <3>1, <3>2
  <2>7. \A op \in OpsOf(left) \cup OpsOf(other) : results'[op] = <<>> /\ op <= Len(ops)
    BY <1>0, <2>1, <2>2, <2>3, <2>4
  <2>8. \A op \in Ops : op > Len(ops) => op \notin told
    BY <1>0, <2>1, <2>2, <2>4
  <2>9. \A op \in Ops : op > Len(ops) => results'[op] = <<>>
    BY <2>3, <2>4, <2>8
  <2> QED  BY <1>2, <2>1, <2>2, <2>6, <2>7, <2>9 DEF opVars, left, found
<1>3. ASSUME NEW packet, PubAck(packet)  PROVE ToldInv'
  <2>1. /\ Notify({pub_ack_waiting_queue[i].op :
                     i \in FirstWithId(pub_ack_waiting_queue, packet.id)}, "SUCCESS")
        /\ pub_ack_waiting_queue' = Without(pub_ack_waiting_queue,
                                           FirstWithId(pub_ack_waiting_queue, packet.id))
        /\ UNCHANGED <<sub_ack_waiting_queue, opVars>>
    BY <1>3 DEF PubAck, Acked
  <2> QED  BY <1>2, <2>1 DEF ToldInv, ToldAtMostOnce, Outcomes
<1>4. ASSUME NEW packet, NEW result \in Outcomes, SubAck(packet, result)  PROVE ToldInv'
  <2>1. /\ Notify({sub_ack_waiting_queue[i].op :
                     i \in FirstWithId(sub_ack_waiting_queue, packet.id)}, result)
        /\ sub_ack_waiting_queue' = Without(sub_ack_waiting_queue,
                                           FirstWithId(sub_ack_waiting_queue, packet.id))
        /\ UNCHANGED <<pub_ack_waiting_queue, opVars>>
    BY <1>4 DEF SubAck, Acked
  <2> QED  BY <1>2, <2>1 DEF ToldInv, ToldAtMostOnce
<1>5. ASSUME NEW type \in Calls, NEW outcome, Send(type, outcome)
      PROVE  /\ Len(ops') = Len(ops) + 1 /\ Len(ops') \in Ops /\ Len(ops') \notin waiting
             /\ results[Len(ops')] = <<>>
             /\ Waiting \in Entries /\ Waiting.op = Len(ops')
  <2>1. /\ Len(ops') = Len(ops) + 1 /\ Len(ops') \in Ops
        /\ Waiting \in Entries /\ Waiting.op = Len(ops')
    BY <1>5, Sent
  <2>2. Len(ops') > Len(ops) /\ ~(Len(ops') <= Len(ops))
    BY <1>0, <2>1
  <2> QED  BY <2>1, <2>2 DEF ToldInv
<1>6. ASSUME NEW type \in Calls, NEW outcome, Send(type, outcome), NEW result \in Outcomes,
             Notify({Len(ops')}, result),
             UNCHANGED <<pub_ack_waiting_queue, sub_ack_waiting_queue>>
      PROVE  ToldInv'
  <2>1. /\ \A op \in Ops : op # Len(ops') => results'[op] = results[op]
        /\ results'[Len(ops')] = <<result>> /\ Len(<<result>>) = 1
    BY <1>5, <1>6, Notified DEF CallTypes
  <2>2. \A op \in Ops : Len(results'[op]) <= 1
    <3> SUFFICES ASSUME NEW op \in Ops  PROVE Len(results'[op]) <= 1
      OBVIOUS
    <3>1. CASE op = Len(ops')
      <4>1. results'[op] = <<result>>
        BY <2>1, <3>1
      <4> QED  BY <4>1
    <3>2. CASE op # Len(ops')
      BY <2>1, <3>2 DEF ToldInv, ToldAtMostOnce
    <3> QED  BY <3>1, <3>2
  <2>3. \A op \in waiting : results'[op] = <<>>
    BY <1>0, <1>5, <1>6, <2>1 DEF ToldInv, ToldAtMostOnce
  <2>4. \A op \in Ops : op > Len(ops') => results'[op] = <<>>
    <3> SUFFICES ASSUME NEW op \in Ops, op > Len(ops')  PROVE results'[op] = <<>>
      OBVIOUS
    <3>1. Len(ops') = Len(ops) + 1 /\ op \in Nat
      BY <1>0, <1>5, <1>6
    <3>2. op > Len(ops) /\ op # Len(ops')
      BY <1>0, <3>1
    <3> QED  BY <2>1, <3>2 DEF ToldInv
  <2>5. \A op \in waiting : op <= Len(ops')
    <3> SUFFICES ASSUME NEW op \in waiting  PROVE op <= Len(ops')
      OBVIOUS
    <3>1. Len(ops') = Len(ops) + 1 /\ op \in Nat /\ op <= Len(ops)
      BY <1>0, <1>5, <1>6 DEF ToldInv
    <3> QED  BY <1>0, <3>1
  <2> QED  BY <1>6, <2>2, <2>3, <2>4, <2>5 DEF ToldInv, ToldAtMostOnce
<1>7. ASSUME NEW type \in Calls, NEW outcome, Send(type, outcome), UNCHANGED results
      PROVE  /\ \A op \in Ops : Len(results'[op]) <= 1
             /\ \A op \in waiting \cup {Len(ops')} : results'[op] = <<>>
             /\ \A op \in Ops : op > Len(ops') => results'[op] = <<>>
             /\ \A op \in waiting \cup {Len(ops')} : op <= Len(ops')
  <2>0. Len(ops') = Len(ops) + 1
    BY <1>5, <1>7
  <2>1. \A op \in waiting : op <= Len(ops')
    <3> SUFFICES ASSUME NEW op \in waiting  PROVE op <= Len(ops')
      OBVIOUS
    <3>1. op \in Nat /\ op <= Len(ops)
      BY <1>0 DEF ToldInv
    <3> QED  BY <1>0, <2>0, <3>1
  <2>2. \A op \in Ops : op > Len(ops') => results'[op] = <<>>
    <3> SUFFICES ASSUME NEW op \in Ops, op > Len(ops')  PROVE results'[op] = <<>>
      OBVIOUS
    <3>1. op > Len(ops)
      BY <1>0, <2>0
    <3> QED  BY <1>7, <3>1 DEF ToldInv
  <2>3. Len(ops') <= Len(ops')
    BY <1>0, <2>0
  <2> QED  BY <1>5, <1>7, <2>1, <2>2, <2>3 DEF ToldInv, ToldAtMostOnce
<1>8. ASSUME NEW outcome, PublishQos1(outcome)  PROVE ToldInv'
  <2>1. Send("PUBLISH", outcome) /\ "PUBLISH" \in Calls /\ "FAILED" \in Outcomes
    BY <1>8 DEF PublishQos1, Calls, Outcomes
  <2>2. CASE outcome = "failed"
    BY <1>6, <1>8, <2>1, <2>2 DEF PublishQos1
  <2>3. CASE outcome # "failed"
    <3>1. /\ pub_ack_waiting_queue' = Append(pub_ack_waiting_queue, Waiting)
          /\ UNCHANGED <<sub_ack_waiting_queue, results>>
      BY <1>8, <2>3 DEF PublishQos1
    <3>2. /\ OpsOf(pub_ack_waiting_queue') = OpsOf(pub_ack_waiting_queue) \cup {Len(ops')}
          /\ Distinct(pub_ack_waiting_queue')
          /\ Len(ops') \notin waiting
      BY <1>5, <2>1, <3>1, AddedEntry DEF CallTypes, ToldInv
    <3> QED  BY <1>7, <2>1, <3>1, <3>2 DEF ToldInv, ToldAtMostOnce
  <2> QED  BY <2>2, <2>3
<1>9. ASSUME NEW outcome, PublishQos0(outcome)  PROVE ToldInv'
  <2>1. (IF outcome = "failed" THEN "FAILED" ELSE "SUCCESS") \in Outcomes
    BY DEF Outcomes
  <2> QED  BY <1>6, <1>9, <2>1 DEF PublishQos0, Calls
<1>10. ASSUME NEW outcome, SendUnwatched(outcome)  PROVE ToldInv'
  <2>1. Send("UNWATCHED", outcome) /\ "UNWATCHED" \in Calls /\ UNCHANGED queueVars
    BY <1>10 DEF SendUnwatched, Calls
  <2> QED  BY <1>7, <2>1 DEF ToldInv, ToldAtMostOnce, queueVars
<1>11. ASSUME NEW outcome, Subscribe(outcome)  PROVE ToldInv'
  <2>1. /\ Send("SUBSCRIBE", outcome) /\ "SUBSCRIBE" \in Calls
        /\ sub_ack_waiting_queue' = Append(sub_ack_waiting_queue, Waiting)
        /\ UNCHANGED <<pub_ack_waiting_queue, results>>
    BY <1>11 DEF Subscribe, Calls
  <2>2. /\ OpsOf(sub_ack_waiting_queue') = OpsOf(sub_ack_waiting_queue) \cup {Len(ops')}
        /\ Distinct(sub_ack_waiting_queue')
        /\ Len(ops') \notin waiting
    BY <1>5, <2>1, AddedEntry DEF CallTypes, ToldInv
  <2> QED  BY <1>7, <2>1, <2>2 DEF ToldInv, ToldAtMostOnce
<1>12. CASE UNCHANGED <<queueVars, opVars>>
  BY <1>12 DEF ToldInv, ToldAtMostOnce, queueVars, opVars, Distinct, OpsOf
<1> QED
  BY <1>1, <1>3, <1>4, <1>8, <1>9, <1>10, <1>11, <1>12, CallSteps DEF Outcomes

\* The callback of a publish or of a subscribe is told at most once, and never while
\* the call still waits: acknowledgements, failed sends and the flush of
\* OnMqttErrorComplete never meet at the same call, in whatever order the broker, the
\* socket and the threads act.
THEOREM CallbacksToldOnce == Spec => []ToldAtMostOnce
<1>1. Init => ToldInv
  BY EmptySeq DEF Init, ToldInv, ToldAtMostOnce, OpsOf, Distinct
<1>2. ToldInv => ToldAtMostOnce
  BY DEF ToldInv
<1> QED  BY <1>1, <1>2, ToldStep, CallTypesAlways, PTL DEF Spec

-----------------------------------------------------------------------------
\* A call adds at most itself to what the broker has received.
LEMMA OnTheWire ==
    ASSUME NEW type \in Calls, NEW outcome, Send(type, outcome)
    PROVE  \/ wire' = wire /\ received' = received
           \/ \E packet : /\ wire' = wire \cup {packet} /\ packet # CONNECT
                         /\ packet.id = packetId' /\ packet.op = Len(ops')
                         /\ received' = received \cup {Len(ops')}
<1> DEFINE packet == [type |-> type, id |-> packetId', op |-> Len(ops')]
<1>1. packet # CONNECT /\ packet.id = packetId' /\ packet.op = Len(ops')
  BY DEF CONNECT, Calls
<1>2. \/ wire' = wire /\ received' = received
      \/ wire' = wire \cup {packet} /\ received' = received \cup {Len(ops')}
  BY DEF Send
<1> HIDE DEF packet
<1> QED  BY <1>1, <1>2

LEMMA ReceivedStep ==
    ASSUME CallTypes, ToldInv, ReceivedInv, [Next]_vars  PROVE ReceivedInv'
<1>0. /\ Len(ops) \in Nat /\ DOMAIN ops = 1 .. Len(ops) /\ DOMAIN ops \subseteq Ops
      /\ UShrtMax \in Nat
  BY LenProperties, ClientAssumption DEF CallTypes, Ops
<1> DEFINE waiting == OpsOf(pub_ack_waiting_queue) \cup OpsOf(sub_ack_waiting_queue)
<1>1. CASE NotifyAckFailure /\ wire' = {} /\ UNCHANGED opVars
  <2>1. /\ \A op \in Ops \ waiting : results'[op] = results[op]
        /\ \A op \in Ops \cap waiting : results[op] = <<>> => results'[op] = <<"FAILED">>
    BY <1>1, Notified DEF NotifyAckFailure, CallTypes, Outcomes
  <2>2. <<"FAILED">> # <<"SUCCESS">>
    OBVIOUS
  <2>3. \A op \in Ops : results'[op] = <<"SUCCESS">> => results[op] = <<"SUCCESS">>
    BY <2>1, <2>2 DEF ToldInv, ToldAtMostOnce
  <2>4. SuccessMeansReceived'
    BY <1>0, <1>1, <2>3 DEF ReceivedInv, SuccessMeansReceived, opVars
  <2>5. IdsAreOps(pub_ack_waiting_queue') /\ IdsAreOps(sub_ack_waiting_queue')
    BY <1>1 DEF NotifyAckFailure, IdsAreOps
  <2> QED  BY <1>1, <2>4, <2>5 DEF ReceivedInv, opVars
<1>2. ASSUME NEW packet \in wire, packet # CONNECT, NEW queue, NEW result \in Outcomes,
             queue \in {pub_ack_waiting_queue, sub_ack_waiting_queue},
             Notify({queue[i].op : i \in FirstWithId(queue, packet.id)}, result),
             wire' \subseteq wire, UNCHANGED opVars
      PROVE  /\ SuccessMeansReceived'
             /\ \A p \in wire' : p # CONNECT => p.op \in received'
             /\ Len(ops') < UShrtMax =>
                   /\ packetId' = Len(ops')
                   /\ \A p \in wire' : p.id = p.op
                   /\ IdsAreOps(Without(queue, FirstWithId(queue, packet.id)))
  <2> DEFINE found == FirstWithId(queue, packet.id)
             told == {queue[i].op : i \in found}
  <2>1. queue \in Seq(Entries) /\ (Len(ops) < UShrtMax => IdsAreOps(queue))
    BY <1>2 DEF CallTypes, ReceivedInv
  <2>2. /\ \A i \in found : i \in DOMAIN queue /\ queue[i].id = packet.id
        /\ IdsAreOps(queue) => IdsAreOps(Without(queue, found))
    BY <2>1, AckedEntry
  <2>3. Len(ops) < UShrtMax => \A op \in told : op \in received
    BY <1>2, <2>1, <2>2 DEF ReceivedInv, IdsAreOps
  <2>4. \A op \in Ops \ told : results'[op] = results[op]
    BY <1>2, Notified DEF CallTypes
  <2> HIDE DEF found, told
  <2>5. SuccessMeansReceived'
    BY <1>0, <1>2, <2>3, <2>4 DEF ReceivedInv, SuccessMeansReceived, opVars
  <2> QED  BY <1>2, <2>1, <2>2, <2>5 DEF ReceivedInv, opVars, found
<1>3. ASSUME NEW packet \in wire, PubAck(packet)  PROVE ReceivedInv'
  <2>1. /\ packet # CONNECT
        /\ Notify({pub_ack_waiting_queue[i].op :
                     i \in FirstWithId(pub_ack_waiting_queue, packet.id)}, "SUCCESS")
        /\ pub_ack_waiting_queue' = Without(pub_ack_waiting_queue,
                                           FirstWithId(pub_ack_waiting_queue, packet.id))
        /\ wire' \subseteq wire
        /\ UNCHANGED <<sub_ack_waiting_queue, opVars>>
    BY <1>3 DEF PubAck, Acked, Answer, CONNECT
  <2> QED  BY <1>2, <2>1 DEF ReceivedInv, Outcomes, opVars
<1>4. ASSUME NEW packet \in wire, NEW result \in Outcomes, SubAck(packet, result)
      PROVE  ReceivedInv'
  <2>1. /\ packet # CONNECT
        /\ Notify({sub_ack_waiting_queue[i].op :
                     i \in FirstWithId(sub_ack_waiting_queue, packet.id)}, result)
        /\ sub_ack_waiting_queue' = Without(sub_ack_waiting_queue,
                                           FirstWithId(sub_ack_waiting_queue, packet.id))
        /\ wire' \subseteq wire
        /\ UNCHANGED <<pub_ack_waiting_queue, opVars>>
    BY <1>4 DEF SubAck, Acked, Answer, CONNECT
  <2> QED  BY <1>2, <2>1 DEF ReceivedInv, opVars
<1>5. ASSUME NEW type \in Calls, NEW outcome, Send(type, outcome),
             \A op \in DOMAIN ops : results'[op] = results[op],
             type = "PUBLISH0" \/ results'[Len(ops')] # <<"SUCCESS">>
      PROVE  /\ SuccessMeansReceived'
             /\ \A p \in wire' : p # CONNECT => p.op \in received'
             /\ Len(ops') < UShrtMax =>
                   /\ Len(ops) < UShrtMax
                   /\ packetId' = Len(ops')
                   /\ \A p \in wire' : p.id = p.op
             /\ Waiting \in Entries /\ Waiting.op = Len(ops') /\ Waiting.id = packetId'
  <2>1. /\ Len(ops') = Len(ops) + 1
        /\ \A op \in DOMAIN ops : ops'[op] = ops[op]
        /\ ops'[Len(ops')] = type
        /\ DOMAIN ops' = DOMAIN ops \cup {Len(ops')}
        /\ Waiting \in Entries /\ Waiting.op = Len(ops') /\ Waiting.id = packetId'
        /\ received \subseteq received'
    BY <1>5, Sent
  <2>2. Len(ops') < UShrtMax => Len(ops) < UShrtMax
    BY <1>0, <2>1
  <2>3. SuccessMeansReceived'
    BY <1>5, <2>1, <2>2 DEF ReceivedInv, SuccessMeansReceived
  <2>4. Len(ops') < UShrtMax => packetId' = Len(ops')
    <3>1. packetId' = IF packetId + 1 >= UShrtMax THEN 1 ELSE packetId + 1
      BY <1>5 DEF Send, GetNextPacketId
    <3>2. Len(ops) < UShrtMax => packetId = Len(ops)
      BY DEF ReceivedInv
    <3> QED  BY <1>0, <2>1, <2>2, <3>1, <3>2
  <2>5. \A p \in wire' : p # CONNECT => p.op \in received'
    BY <1>5, OnTheWire DEF ReceivedInv
  <2>6. Len(ops') < UShrtMax => \A p \in wire' : p.id = p.op
    BY <1>5, <2>2, <2>4, OnTheWire DEF ReceivedInv
  <2> QED  BY <2>1, <2>2, <2>3, <2>4, <2>5, <2>6
<1>6. ASSUME NEW type \in Calls, NEW outcome, Send(type, outcome), NEW result \in Outcomes,
             Notify({Len(ops')}, result)
      PROVE  /\ \A op \in DOMAIN ops : results'[op] = results[op]
             /\ results'[Len(ops')] = <<result>>
  <2>1. Len(ops') \in Ops /\ Len(ops') \notin DOMAIN ops /\ Len(ops') = Len(ops) + 1
    BY <1>6, Sent
  <2>2. results[Len(ops')] = <<>>
    BY <1>0, <2>1 DEF ToldInv
  <2> QED  BY <1>0, <1>6, <2>1, <2>2, Notified DEF CallTypes
<1>7. ASSUME NEW type \in Calls, NEW outcome, Send(type, outcome), UNCHANGED results
      PROVE  results'[Len(ops')] # <<"SUCCESS">>
  <2>1. Len(ops') \in Ops /\ Len(ops') = Len(ops) + 1
    BY <1>7, Sent
  <2>2. results[Len(ops')] = <<>>
    BY <1>0, <2>1 DEF ToldInv
  <2> QED  BY <1>7, <2>2
<1>8. ASSUME NEW outcome, PublishQos1(outcome)  PROVE ReceivedInv'
  <2>1. Send("PUBLISH", outcome) /\ "PUBLISH" \in Calls /\ "FAILED" \in Outcomes
    BY <1>8 DEF PublishQos1, Calls, Outcomes
  <2>2. CASE outcome = "failed"
    <3>1. /\ Notify({Len(ops')}, "FAILED")
          /\ UNCHANGED <<pub_ack_waiting_queue, sub_ack_waiting_queue>>
      BY <1>8, <2>2 DEF PublishQos1
    <3>2. <<"FAILED">> # <<"SUCCESS">>
      OBVIOUS
    <3>3. /\ \A op \in DOMAIN ops : results'[op] = results[op]
          /\ results'[Len(ops')] # <<"SUCCESS">>
      BY <1>6, <2>1, <3>1, <3>2
    <3> QED  BY <1>5, <2>1, <3>1, <3>3 DEF ReceivedInv
  <2>3. CASE outcome # "failed"
    <3>1. /\ pub_ack_waiting_queue' = Append(pub_ack_waiting_queue, Waiting)
          /\ UNCHANGED <<sub_ack_waiting_queue, results>>
      BY <1>8, <2>3 DEF PublishQos1
    <3>2. results'[Len(ops')] # <<"SUCCESS">>
      BY <1>7, <2>1, <3>1
    <3>3. /\ Waiting \in Entries
          /\ Len(ops') < UShrtMax => Len(ops) < UShrtMax /\ Waiting.id = Waiting.op
      BY <1>5, <2>1, <3>1, <3>2
    <3>4. Len(ops') < UShrtMax => IdsAreOps(pub_ack_waiting_queue')
      BY <3>1, <3>3, AddedEntry DEF ReceivedInv, CallTypes
    <3> QED  BY <1>5, <2>1, <3>1, <3>2, <3>4 DEF ReceivedInv
  <2> QED  BY <2>2, <2>3
<1>9. ASSUME NEW outcome, PublishQos0(outcome)  PROVE ReceivedInv'
  <2>1. (IF outcome = "failed" THEN "FAILED" ELSE "SUCCESS") \in Outcomes
    BY DEF Outcomes
  <2>2. /\ Send("PUBLISH0", outcome) /\ "PUBLISH0" \in Calls
        /\ UNCHANGED <<pub_ack_waiting_queue, sub_ack_waiting_queue>>
    BY <1>9 DEF PublishQos0, Calls
  <2>3. \A op \in DOMAIN ops : results'[op] = results[op]
    BY <1>6, <1>9, <2>1, <2>2 DEF PublishQos0
  <2> QED  BY <1>5, <2>2, <2>3 DEF ReceivedInv
<1>10. ASSUME NEW outcome, SendUnwatched(outcome)  PROVE ReceivedInv'
  <2>1. /\ Send("UNWATCHED", outcome) /\ "UNWATCHED" \in Calls
        /\ UNCHANGED <<pub_ack_waiting_queue, sub_ack_waiting_queue, results>>
    BY <1>10 DEF SendUnwatched, Calls, queueVars
  <2> QED  BY <1>5, <1>7, <2>1 DEF ReceivedInv
<1>11. ASSUME NEW outcome, Subscribe(outcome)  PROVE ReceivedInv'
  <2>1. /\ Send("SUBSCRIBE", outcome) /\ "SUBSCRIBE" \in Calls
        /\ sub_ack_waiting_queue' = Append(sub_ack_waiting_queue, Waiting)
        /\ UNCHANGED <<pub_ack_waiting_queue, results>>
    BY <1>11 DEF Subscribe, Calls
  <2>2. results'[Len(ops')] # <<"SUCCESS">>
    BY <1>7, <2>1
  <2>3. /\ Waiting \in Entries
        /\ Len(ops') < UShrtMax => Len(ops) < UShrtMax /\ Waiting.id = Waiting.op
    BY <1>5, <2>1, <2>2
  <2>4. Len(ops') < UShrtMax => IdsAreOps(sub_ack_waiting_queue')
    BY <2>1, <2>3, AddedEntry DEF ReceivedInv, CallTypes
  <2> QED  BY <1>5, <2>1, <2>2, <2>4 DEF ReceivedInv
<1>12. CASE wire' \subseteq wire \cup {CONNECT} /\ UNCHANGED <<queueVars, opVars>>
  <2>1. CONNECT.id = CONNECT.op
    BY DEF CONNECT
  <2> QED
    BY <1>12, <2>1 DEF ReceivedInv, SuccessMeansReceived, queueVars, opVars, IdsAreOps
<1> QED
  BY <1>1, <1>3, <1>4, <1>8, <1>9, <1>10, <1>11, <1>12, CallSteps DEF Outcomes

\* SUCCESS is believed: while packet ids are fresh, a QoS 1 publish or a subscribe whose
\* callback is told SUCCESS has reached the broker, although the queues are searched by
\* packet id alone and answers may come late, out of order or for calls nobody watches.
THEOREM SuccessIsReceived == Spec => []SuccessMeansReceived
<1>1. Init => ToldInv
  BY EmptySeq DEF Init, ToldInv, ToldAtMostOnce, OpsOf, Distinct
<1>2. Init => ReceivedInv
  BY EmptySeq DEF Init, ReceivedInv, SuccessMeansReceived, IdsAreOps
<1>3. ReceivedInv => SuccessMeansReceived
  BY DEF ReceivedInv
<1> QED
  BY <1>1, <1>2, <1>3, ToldStep, ReceivedStep, CallTypesAlways, PTL DEF Spec

-----------------------------------------------------------------------------
\* While the client is connecting or connected, umqtt works on the transport the handle
\* owns, through every loss, refusal, timeout and reconnection.
THEOREM HandlesStayTogether == Spec => []HandlesAgree
<1>1. SessionInv => HandlesAgree
  BY DEF SessionInv
<1> QED  BY <1>1, Session, PTL

\* CONNECTED is only ever the status of an accepted session nobody has closed, and a
\* client that is not connected has no socket open.
THEOREM StatusIsReal == Spec => []StatusIsTrue
<1>1. SessionInv => StatusIsTrue
  BY DEF SessionInv
<1> QED  BY <1>1, Session, PTL

\* What RetryLogicProofs shows of the timer alone holds of the client that runs it:
\* the attempts of an outage are spaced and back off, none comes after the limit, an
\* idle timer is clean, and giving up is final.
THEOREM ClientKeepsTheTimer ==
    Spec => /\ []Timer!IdleTimerIsClean /\ []Timer!AttemptsWithinLimit
            /\ Timer!AttemptsSpaced /\ Timer!BackOffHonoured /\ Timer!GivingUpIsFinal
<1>1. Timer!RetryAssumption
  BY ClientAssumption DEF Timer!RetryAssumption
<1> QED
  BY <1>1, TimerIsTheClients, Timer!IdleTimerClean, Timer!WithinLimitAlways, Timer!Spaced,
     Timer!BackOffHolds, Timer!GivenUpForGood, PTL

=============================================================================
