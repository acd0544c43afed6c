---------------------------- MODULE IoteaProofs ----------------------------
(***************************************************************************)
(* What TLAPS proves of IoteaClient, for all gaps, numbers of repetitions  *)
(* and numbers of SUBSCRIBEs on the wire.                                  *)
(***************************************************************************)
EXTENDS IoteaClient, TLAPS

\* Between two sessions the agent may believe itself subscribed, since a SUBSCRIBE
\* that dies with its connection is reported as a success.  It does so only after a
\* loss it has not looked at yet; by the time iothub_mqtt_dowork may connect again,
\* iotea_client_dowork has seen isConnectionLost and forgotten it.  The loop of
\* iotea_client_connect, which does not look, has never sent a SUBSCRIBE.
SubscriptionInv ==
    /\ Connected /\ subscribed => granted
    /\ mqttClientStatus = S!CONNECTING => ~subscribed
    /\ mqttClientStatus = S!NOT_CONNECTED /\ subscribed => isConnectionLost /\ pc # "dowork"
    /\ loop = "connect" => ~subscribed /\ subsOnWire = 0 /\ ~subsOrphaned

-----------------------------------------------------------------------------
\* A clock that stops one past its gap stays within it.
LEMMA CappedStays ==
    ASSUME NEW gap \in Nat, NEW age \in 0 .. (gap + 1)
    PROVE  Capped(age, gap) \in 0 .. (gap + 1)
  BY DEF Capped

\* A query that is sent, delivered or not, is one of the three.
LEMMA AskStays ==
    ASSUME NEW query \in {"list", "info", "model"},
           requests \subseteq {"list", "info", "model"}, Ask(query)
    PROVE  requests' \subseteq {"list", "info", "model"}
  BY DEF Ask

\* Repeating the first query respects its limit and its clock.
LEMMA RepeatStays ==
    ASSUME TypeOK, RepeatQuery
    PROVE  /\ requests' \subseteq {"list", "info", "model"}
           /\ reqCount' \in 0 .. MaxRequests
           /\ sinceRequest' \in 0 .. (QueryGap + 1)
  <1>1. CASE sinceRequest > QueryGap /\ ~reqAns /\ reqCount < MaxRequests
    <2>1. Ask("list") /\ sinceRequest' = 0 /\ reqCount' = reqCount + 1
      BY <1>1 DEF RepeatQuery
    <2>2. requests' \subseteq {"list", "info", "model"}
      BY <2>1, AskStays DEF TypeOK
    <2>3. QED
      BY <1>1, <2>1, <2>2, IoteaAssumption DEF TypeOK
  <1>2. CASE ~(sinceRequest > QueryGap /\ ~reqAns /\ reqCount < MaxRequests)
    BY <1>2 DEF RepeatQuery, TypeOK
  <1>3. QED
    BY <1>1, <1>2

\* The part of TypeOK that the end of a session touches.
SessionTypes ==
    /\ mqttClientStatus \in {S!NOT_CONNECTED, S!CONNECTING, S!CONNECTED}
    /\ isConnectionLost \in BOOLEAN /\ isRecoverableError \in BOOLEAN
    /\ subscribed \in BOOLEAN /\ granted \in BOOLEAN /\ subsOrphaned \in BOOLEAN
    /\ sinceRequest \in 0 .. (QueryGap + 1)
    /\ subsOnWire \in 0 .. MaxSubs
    /\ socket \in {"none", "live", "dead"}
    /\ requests \subseteq {"list", "info", "model"}

\* The end of a session keeps these types.
LEMMA EndStays ==
    ASSUME TypeOK, SessionEnds
    PROVE  SessionTypes'
  <1>1. /\ isConnectionLost' \in BOOLEAN /\ isRecoverableError' \in BOOLEAN
        /\ granted' \in BOOLEAN /\ subsOrphaned' \in BOOLEAN
    BY Zenon DEF TypeOK, SessionEnds, SocketCloses, S!Fail
  <1>2. subscribed' \in BOOLEAN
    BY Zenon DEF TypeOK, SessionEnds
  <1>3. sinceRequest' \in 0 .. (QueryGap + 1) /\ subsOnWire' \in 0 .. MaxSubs
    BY IoteaAssumption DEF TypeOK, SessionEnds
  <1>4. QED
    BY <1>1, <1>2, <1>3 DEF SessionTypes, SessionEnds, SocketCloses, S!Fail,
       S!NOT_CONNECTED

\* The variables of the agent's MQTT application keep their types: in particular the
\* first query is repeated MaxRequests times at most, whatever the network does.
THEOREM IoteaTypeCorrect == Spec => []TypeOK
  <1>1. Init => TypeOK
    <2> SUFFICES ASSUME Init PROVE TypeOK
      OBVIOUS
    <2>1. /\ isConnectionLost \in BOOLEAN /\ isRecoverableError \in BOOLEAN
          /\ subscribed \in BOOLEAN /\ granted \in BOOLEAN
          /\ reqAns \in BOOLEAN /\ subsOrphaned \in BOOLEAN
      BY Zenon DEF Init, S!Init
    <2>2. QED
      BY <2>1, IoteaAssumption DEF Init, TypeOK, S!Init, S!NOT_CONNECTED, S!CONNECTING,
         S!CONNECTED
  <1>2. ASSUME TypeOK, [Next]_vars
        PROVE  TypeOK'
    <2> USE IoteaAssumption
    <2>1. CASE ConnectRound
      BY <1>2, <2>1 DEF ConnectRound, TypeOK, sessionVars, queueVars, requestVars, netVars
    <2>2. CASE RunRound
      BY <1>2, <2>2, RepeatStays DEF RunRound, TypeOK, StillSubscribed, SubscribeAge,
         sessionVars, queueVars, netVars
    <2>3. ASSUME NEW outcome, RunSubscribe(outcome)
          PROVE  TypeOK'
      <3>1. subscribed' \in BOOLEAN /\ subsOrphaned' \in BOOLEAN
        BY <1>2, <2>3 DEF RunSubscribe, TypeOK, StillSubscribed
      <3>2. subsOnWire' \in 0 .. MaxSubs
        BY <1>2, <2>3 DEF RunSubscribe, TypeOK
      <3>3. QED
        BY <1>2, <2>3, <3>1, <3>2, RepeatStays DEF RunSubscribe, TypeOK, sessionVars, netVars
    <2>4. CASE RunSubscribeFails
      BY <1>2, <2>4 DEF RunSubscribeFails, TypeOK, StillSubscribed, SubscribeAge,
         sessionVars, requestVars, netVars
    <2>5. CASE Connect
      BY <1>2, <2>5 DEF Connect, TypeOK, queueVars, requestVars, S!Connect, S!CONNECTING
    <2>6. CASE ConnectFails
      <3>1. SessionTypes'
        BY <1>2, <2>6, EndStays DEF ConnectFails
      <3>2. QED
        BY <1>2, <2>6, <3>1 DEF ConnectFails, TypeOK, SessionTypes, RoundDone
    <2>7. CASE ConnackTimeout
      BY <1>2, <2>7 DEF ConnackTimeout, TypeOK, SocketCloses, RoundDone, queueVars,
         S!TimeOut, S!NOT_CONNECTED
    <2>8. CASE Proceed
      BY <1>2, <2>8 DEF Proceed, TypeOK, sessionVars, queueVars, requestVars, netVars
    <2>9. CASE ConnAck
      BY <1>2, <2>9 DEF ConnAck, TypeOK, queueVars, requestVars, netVars, S!Accept,
         S!CONNECTED
    <2>10. CASE ConnAckRefused
      BY <1>2, <2>10 DEF ConnAckRefused, TypeOK, SocketCloses, queueVars, S!Refuse,
         S!NOT_CONNECTED
    <2>11. CASE SessionFails
      <3>1. SessionTypes'
        BY <1>2, <2>11, EndStays DEF SessionFails
      <3>2. QED
        BY <1>2, <2>11, <3>1 DEF SessionFails, TypeOK, SessionTypes
    <2>12. CASE SubAckGranted
      <3>1. requests' \subseteq {"list", "info", "model"}
        BY <1>2, <2>12, AskStays DEF SubAckGranted, TypeOK
      <3>2. subscribed' \in BOOLEAN /\ granted' \in BOOLEAN
        BY <2>12 DEF SubAckGranted
      <3>3. QED
        BY <1>2, <2>12, <3>1, <3>2 DEF SubAckGranted, TypeOK, sessionVars
    <2>13. CASE SubAckRefused
      BY <1>2, <2>13 DEF SubAckRefused, TypeOK, sessionVars, requestVars, netVars
    <2>14. ASSUME NEW query \in requests, Receive(query)
           PROVE  TypeOK'
      BY <1>2, <2>14 DEF Receive, Follow, TypeOK, sessionVars, queueVars, netVars
    <2>15. CASE IoDone
      BY <1>2, <2>15 DEF IoDone, TypeOK, RoundDone, sessionVars, queueVars, requestVars,
         netVars
    <2>16. CASE Tick
      BY <1>2, <2>16, CappedStays DEF Tick, TypeOK, sessionVars, queueVars, netVars
    <2>17. CASE PeerResets
      BY <1>2, <2>17 DEF PeerResets, TypeOK, sessionVars, queueVars
    <2>18. CASE Stop
      BY <1>2, <2>18 DEF Stop, TypeOK, SocketCloses, queueVars, S!Fail, S!NOT_CONNECTED
    <2>19. CASE UNCHANGED vars
      BY <1>2, <2>19 DEF vars, TypeOK, sessionVars, queueVars, requestVars, netVars
    <2>20. QED
      BY <1>2, <2>1, <2>2, <2>3, <2>4, <2>5, <2>6, <2>7, <2>8, <2>9, <2>10, <2>11, <2>12,
         <2>13, <2>14, <2>15, <2>16, <2>17, <2>18, <2>19 DEF Next, Main, Stopped
  <1>3. QED
    BY <1>1, <1>2, PTL DEF Spec

-----------------------------------------------------------------------------
\* SubscriptionInv is inductive.
THEOREM SubscriptionSound == Spec => []SubscriptionInv
  <1> USE DEF S!NOT_CONNECTED, S!CONNECTING, S!CONNECTED
  <1>1. Init => SubscriptionInv
    BY DEF Init, SubscriptionInv, Connected, S!Init
  <1>2. ASSUME TypeOK, SubscriptionInv, [Next]_vars
        PROVE  SubscriptionInv'
    <2> USE <1>2 DEF SubscriptionInv, Connected
    <2>1. CASE ConnectRound
      BY <2>1 DEF ConnectRound, sessionVars, queueVars, netVars
    <2>2. CASE RunRound
      BY <2>2 DEF RunRound, StillSubscribed, sessionVars, queueVars, netVars
    <2>3. ASSUME NEW outcome, RunSubscribe(outcome)
          PROVE  SubscriptionInv'
      BY <2>3 DEF RunSubscribe, MustSubscribe, StillSubscribed, sessionVars, netVars
    <2>4. CASE RunSubscribeFails
      BY <2>4 DEF RunSubscribeFails, MustSubscribe, StillSubscribed, sessionVars, netVars
    <2>5. CASE Connect
      BY <2>5 DEF Connect, queueVars, S!Connect
    <2>6. CASE ConnectFails
      BY <2>6 DEF ConnectFails, TypeOK, SessionEnds, RoundDone, S!Fail
    <2>7. CASE ConnackTimeout
      BY <2>7 DEF ConnackTimeout, RoundDone, queueVars, S!TimeOut
    <2>8. CASE Proceed
      BY <2>8 DEF Proceed, sessionVars, queueVars, netVars
    <2>9. CASE ConnAck
      BY <2>9 DEF ConnAck, queueVars, netVars, S!Accept
    <2>10. CASE ConnAckRefused
      BY <2>10 DEF ConnAckRefused, queueVars, S!Refuse
    <2>11. CASE SessionFails
      BY <2>11 DEF SessionFails, TypeOK, SessionEnds, S!Fail
    <2>12. CASE SubAckGranted
      BY <2>12 DEF SubAckGranted, sessionVars
    <2>13. CASE SubAckRefused
      BY <2>13 DEF SubAckRefused, sessionVars, netVars
    <2>14. ASSUME NEW query \in requests, Receive(query)
           PROVE  SubscriptionInv'
      BY <2>14 DEF Receive, sessionVars, queueVars, netVars
    <2>15. CASE IoDone
      BY <2>15 DEF IoDone, RoundDone, sessionVars, queueVars, netVars
    <2>16. CASE Tick
      BY <2>16 DEF Tick, sessionVars, queueVars, netVars
    <2>17. CASE PeerResets
      BY <2>17 DEF PeerResets, sessionVars, queueVars
    <2>18. CASE Stop
      BY <2>18 DEF Stop, queueVars, S!Fail
    <2>19. CASE UNCHANGED vars
      BY <2>19 DEF vars, sessionVars, queueVars, netVars
    <2>20. QED
      BY <2>1, <2>2, <2>3, <2>4, <2>5, <2>6, <2>7, <2>8, <2>9, <2>10, <2>11, <2>12,
         <2>13, <2>14, <2>15, <2>16, <2>17, <2>18, <2>19 DEF Next, Main, Stopped
  <1>3. QED
    BY <1>1, <1>2, IoteaTypeCorrect, PTL DEF Spec

\* While the session is up, the agent believes itself subscribed only if the broker
\* has granted the topics in this very session.
THEOREM SubscribedTrue == Spec => []SubscribedIsTrue
  <1>1. SubscriptionInv => SubscribedIsTrue
    BY DEF SubscriptionInv, SubscribedIsTrue
  <1>2. QED
    BY <1>1, SubscriptionSound, PTL

=============================================================================
