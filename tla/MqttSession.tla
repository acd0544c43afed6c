---------------------------- MODULE MqttSession ----------------------------
(***************************************************************************)
(* What the application sees of an IOTHUB_MQTT_CLIENT: its status, whether *)
(* the last session ended in an error, and whether the broker's last       *)
(* refusal left any hope.  This is the abstract specification that         *)
(* IothubMqttClient implements and that IoteaClient is built on.           *)
(***************************************************************************)
VARIABLES mqttClientStatus, isConnectionLost, isRecoverableError

sessionVars == <<mqttClientStatus, isConnectionLost, isRecoverableError>>

NOT_CONNECTED == "NOT_CONNECTED"
CONNECTING == "CONNECTING"
CONNECTED == "CONNECTED"

Init ==
    /\ mqttClientStatus = NOT_CONNECTED
    /\ isConnectionLost = FALSE
    /\ isRecoverableError = TRUE

\* initialize_mqtt_connection starts a connection and waits for CONNACK.
Connect ==
    /\ mqttClientStatus = NOT_CONNECTED
    /\ mqttClientStatus' = CONNECTING
    /\ UNCHANGED <<isConnectionLost, isRecoverableError>>

Accept ==
    /\ mqttClientStatus = CONNECTING
    /\ mqttClientStatus' = CONNECTED
    /\ isConnectionLost' = FALSE
    /\ isRecoverableError' = TRUE

Refuse ==
    /\ mqttClientStatus = CONNECTING
    /\ mqttClientStatus' = NOT_CONNECTED
    /\ isConnectionLost' = TRUE
    /\ isRecoverableError' \in {isRecoverableError, FALSE}

\* OnMqttErrorComplete (the session failed, or it could not be opened), and
\* iothub_mqtt_destroy.
Fail ==
    /\ mqttClientStatus' = NOT_CONNECTED
    /\ isConnectionLost' = TRUE
    /\ UNCHANGED isRecoverableError

\* DisconnectFromClient when CONNACK does not come: no loss is recorded.
TimeOut ==
    /\ mqttClientStatus = CONNECTING
    /\ mqttClientStatus' = NOT_CONNECTED
    /\ UNCHANGED <<isConnectionLost, isRecoverableError>>

\* iothub_mqtt_disconnect
Disconnect ==
    /\ mqttClientStatus = CONNECTED
    /\ mqttClientStatus' = NOT_CONNECTED
    /\ UNCHANGED <<isConnectionLost, isRecoverableError>>

Next == Connect \/ Accept \/ Refuse \/ Fail \/ TimeOut \/ Disconnect

Spec == Init /\ [][Next]_sessionVars

=============================================================================
