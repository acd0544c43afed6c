---------------------------- MODULE MessageStore ----------------------------
(***************************************************************************)
(* Publishing with the sqlite store of messages, the build with            *)
(* USE_SQLITE_PERSISTENCE: iothub_client_persistence_sqlite.c and its uses *)
(* in iothub_mqtt_client.c.  A message published while there is no         *)
(* connection is written to the store; so is one that waits for its        *)
(* acknowledgement when the connection is lost.  After a CONNACK the main  *)
(* thread publishes what is stored again and deletes it.  Acquisition      *)
(* threads publish meanwhile, and the process may die at any moment: what  *)
(* sqlite has committed survives, the handle starts afresh.                *)
(*                                                                         *)
(* Every message has quality of service 1, as in the agent; a message in   *)
(* Watched has a callback and waits for its acknowledgement.  The socket   *)
(* is open exactly while the status is not NOT_CONNECTED.  When the        *)
(* connection is tried, timed out or lost is any moment; IothubMqttClient  *)
(* and RetryLogic have the times.  A row read past the array that was      *)
(* allocated for the rows is undefined, and nothing is said after it.      *)
(*                                                                         *)
(* sqlite_get_messages copies the topic of a row without its terminator,   *)
(* and publish_mqtt_message reads it as a string: what follows the copy in *)
(* memory decides whether the topic is read as it was.                     *)
(***************************************************************************)
EXTENDS Naturals, FiniteSets

CONSTANTS
    Messages,           \* messages to publish, each in one call
    Watched,            \* those published with a callback
    UShrtMax,           \* USHRT_MAX
    MaxStoreErrors,     \* bound: statements sqlite refuses (full disk, locked file)
    MaxCrashes          \* bound: deaths of the process

ASSUME StoreAssumption ==
    /\ Watched \subseteq Messages
    /\ UShrtMax \in Nat /\ UShrtMax > 2
    /\ MaxStoreErrors \in Nat
    /\ MaxCrashes \in Nat

VARIABLES
    \* IOTHUB_MQTT_CLIENT
    mqttClientStatus, needPublishPersistMsg, packetId, pub_ack_waiting_queue,
    \* the table PublishMessage: rows with an ID, its primary key
    store,
    \* the main thread: where it is in iothub_mqtt_dowork, the count it has read
    \* (while it reads), the rows it has still to publish and the one it is about to delete
    pc, counted, pubMessages, current,
    \* the publish calls: where each is and the packet id it uses
    call, id,
    \* history, of the messages since they were put into the store: those handed to
    \* the socket from there under their own topic; those whose publication from
    \* there failed or went out under another topic; and those inserted under an
    \* established connection
    offered, lost, late,
    storeErrors, crashes

handleVars == <<mqttClientStatus, needPublishPersistMsg, pub_ack_waiting_queue>>
mainVars == <<pc, counted, pubMessages, current>>
callVars == <<call, id>>
historyVars == <<offered, lost, late, crashes>>

vars == <<handleVars, packetId, store, mainVars, callVars, historyVars, storeErrors>>

NOT_CONNECTED == "NOT_CONNECTED"
CONNECTING == "CONNECTING"
CONNECTED == "CONNECTED"

Ids == 0 .. UShrtMax
\* A row whose topic is not intact was stored again after its topic was misread.
Rows == [id : Ids, message : Messages, intact : BOOLEAN]
Row(i, m, intact) == [id |-> i, message |-> m, intact |-> intact]
NoRow == [id |-> 0, message |-> "none", intact |-> TRUE]
Stored == {row.message : row \in store}

Alive == pc \notin {"undefined", "destroyed"}
MainAt(step) == pc = step

-----------------------------------------------------------------------------
(***************************************************************************)
(* The store                                                               *)
(***************************************************************************)
Taken(rows, i) == \E row \in rows : row.id = i

\* A bug the statement could have: INSERT OR REPLACE.
InsertOrReplace(rows, row) == {r \in rows : r.id # row.id} \cup {row}

\* sqlite_add_pub_message: INSERT, refused for an ID that is in the table.
Inserted(rows, row) == IF Taken(rows, row.id) THEN rows ELSE rows \cup {row}

\* A bug the loop could have: one row per connection.
FirstRow(rows) == {CHOOSE row \in rows : TRUE}

\* The loop over SELECT in sqlite_get_messages, one copy per row.
RowsRead(rows) == rows

\* sqlite_delete_pub_message
Deleted(rows, i) == {row \in rows : row.id # i}

StoreError ==
    /\ storeErrors < MaxStoreErrors
    /\ storeErrors' = storeErrors + 1

-----------------------------------------------------------------------------
(***************************************************************************)
(* publish_mqtt_message on another thread                                  *)
(***************************************************************************)
NextPacketId(i) == IF i + 1 >= UShrtMax THEN 1 ELSE i + 1

\* GetNextPacketId reads packetId and writes it back without a lock.
ReadPacketId(m) ==
    /\ Alive
    /\ call[m] = "new"
    /\ call' = [call EXCEPT ![m] = "take"]
    /\ id' = [id EXCEPT ![m] = packetId]
    /\ UNCHANGED <<handleVars, packetId, store, mainVars, historyVars, storeErrors>>

\* The status decides whether the message goes into the store first.
TakePacketId(m) ==
    /\ Alive
    /\ call[m] = "take"
    /\ packetId' = NextPacketId(id[m])
    /\ id' = [id EXCEPT ![m] = NextPacketId(id[m])]
    /\ call' = [call EXCEPT ![m] = IF mqttClientStatus = NOT_CONNECTED THEN "add" ELSE "send"]
    /\ UNCHANGED <<handleVars, store, mainVars, historyVars, storeErrors>>

AddMessage(m) ==
    /\ Alive
    /\ call[m] = "add"
    /\ store' = Inserted(store, Row(id[m], m, TRUE))
    /\ call' = [call EXCEPT ![m] = IF Taken(store, id[m]) THEN "refused" ELSE "send"]
    /\ late' = IF mqttClientStatus = CONNECTED /\ ~Taken(store, id[m])
               THEN late \cup {m} ELSE late
    /\ UNCHANGED <<handleVars, packetId, mainVars, id, offered, lost, crashes, storeErrors>>

AddMessageFails(m) ==
    /\ Alive
    /\ call[m] = "add"
    /\ StoreError
    /\ call' = [call EXCEPT ![m] = "refused"]
    /\ UNCHANGED <<handleVars, packetId, store, mainVars, id, historyVars>>

\* mqtt_client_publish hands the packet to the socket.
SendMessage(m) ==
    /\ Alive
    /\ call[m] = "send"
    /\ mqttClientStatus # NOT_CONNECTED
    /\ call' = [call EXCEPT ![m] = "done"]
    /\ pub_ack_waiting_queue' = IF m \in Watched
                                THEN pub_ack_waiting_queue \cup {Row(id[m], m, TRUE)}
                                ELSE pub_ack_waiting_queue
    /\ UNCHANGED <<mqttClientStatus, needPublishPersistMsg, packetId, store, mainVars,
                   id, historyVars, storeErrors>>

\* No socket, or one that fails: the callback is told and nothing waits.
SendMessageFails(m) ==
    /\ Alive
    /\ call[m] = "send"
    /\ call' = [call EXCEPT ![m] = "done"]
    /\ UNCHANGED <<handleVars, packetId, store, mainVars, id, historyVars, storeErrors>>

-----------------------------------------------------------------------------
(***************************************************************************)
(* iothub_mqtt_dowork: the connection                                      *)
(***************************************************************************)
\* The rows NotifyPublishAckFailure adds for the entries that wait.  Of two entries
\* with the same packet id the first in the queue is added; either may be it.
AddedForWaiting(added) ==
    /\ \A row \in added : ~Taken(store, row.id)
    /\ \A row \in added, other \in added : row.id = other.id => row = other
    /\ \A row \in pub_ack_waiting_queue : Taken(store \cup added, row.id)

\* Every entry is told, stored and freed.  A message stored again has not been
\* published from the store since.
NotifyPublishAckFailure ==
    /\ pub_ack_waiting_queue' = {}
    /\ \/ \E added \in SUBSET pub_ack_waiting_queue :
              /\ AddedForWaiting(added)
              /\ store' = store \cup added
              /\ offered' = offered \ {row.message : row \in added}
              /\ lost' = lost \ {row.message : row \in added}
              /\ UNCHANGED storeErrors
       \/ /\ pub_ack_waiting_queue # {}
          /\ StoreError
          /\ UNCHANGED <<store, offered, lost>>

\* What follows a call of initialize_mqtt_connection that returns 0.
Proceed ==
    /\ pc' = IF needPublishPersistMsg THEN "count" ELSE "io"
    /\ needPublishPersistMsg' = FALSE
    /\ UNCHANGED <<pub_ack_waiting_queue, packetId, store, counted, pubMessages, current,
                   callVars, historyVars, storeErrors>>

DoworkConnect ==
    /\ MainAt("idle")
    /\ mqttClientStatus = NOT_CONNECTED
    /\ mqttClientStatus' = CONNECTING
    /\ Proceed

\* The socket does not open: OnMqttErrorComplete, and the rest of dowork is skipped.
DoworkConnectFails ==
    /\ MainAt("idle")
    /\ mqttClientStatus = NOT_CONNECTED
    /\ NotifyPublishAckFailure
    /\ UNCHANGED <<mqttClientStatus, needPublishPersistMsg, packetId, mainVars, callVars,
                   late, crashes>>

\* Backing off, waiting for CONNACK or connected.
DoworkProceed ==
    /\ MainAt("idle")
    /\ UNCHANGED mqttClientStatus
    /\ Proceed

\* No CONNACK in time: the rest of dowork is skipped, and nobody is told.
DoworkTimeout ==
    /\ MainAt("idle")
    /\ mqttClientStatus = CONNECTING
    /\ mqttClientStatus' = NOT_CONNECTED
    /\ UNCHANGED <<needPublishPersistMsg, pub_ack_waiting_queue, packetId, store, mainVars,
                   callVars, historyVars, storeErrors>>

-----------------------------------------------------------------------------
(***************************************************************************)
(* iothub_mqtt_dowork: what is stored is published again                   *)
(***************************************************************************)
\* sqlite_get_messages: getMessageCount, which decides how large the array is.
CountMessages ==
    /\ MainAt("count")
    /\ counted' = Cardinality(store)
    /\ pc' = IF store = {} THEN "io" ELSE "read"
    /\ UNCHANGED <<handleVars, packetId, store, pubMessages, current, callVars,
                   historyVars, storeErrors>>

\* sqlite_get_messages: SELECT.  A thread may have added a row since the count.
ReadMessages ==
    /\ MainAt("read")
    /\ pc' = IF Cardinality(store) > counted THEN "undefined" ELSE "publish"
    /\ pubMessages' = RowsRead(store)
    /\ counted' = 0
    /\ UNCHANGED <<handleVars, packetId, store, current, callVars,
                   historyVars, storeErrors>>

\* Either statement fails: nothing is published until the next CONNACK.
GetMessagesFails ==
    /\ pc \in {"count", "read"}
    /\ StoreError
    /\ pc' = "io"
    /\ counted' = 0
    /\ UNCHANGED <<handleVars, packetId, store, pubMessages, current, callVars,
                   historyVars>>

\* The topics publish_mqtt_message may find in the copy of a row, which ends
\* without a terminator: the row's own, or one with what follows in memory.
TopicsRead(row) == IF row.intact THEN BOOLEAN ELSE {FALSE}

\* Without a connection the message is stored once more, under a new id, and the
\* send that follows fails: it has not been published since.
StoreAgain(row, intact) ==
    /\ mqttClientStatus = NOT_CONNECTED
    /\ ~Taken(store, NextPacketId(packetId))
    /\ store' = Inserted(store, Row(NextPacketId(packetId), row.message, intact))
    /\ offered' = offered \ {row.message}
    /\ lost' = lost \ {row.message}
    /\ UNCHANGED storeErrors

\* The new id is taken or sqlite refuses the row: no packet is made.
StoreAgainFails(row) ==
    /\ mqttClientStatus = NOT_CONNECTED
    /\ \/ Taken(store, NextPacketId(packetId)) /\ UNCHANGED storeErrors
       \/ StoreError
    /\ lost' = lost \cup {row.message}
    /\ UNCHANGED <<store, offered>>

\* mqtt_client_publish hands the packet to the socket.
SendRow(row, intact) ==
    /\ mqttClientStatus # NOT_CONNECTED
    /\ IF intact THEN offered' = offered \cup {row.message} /\ UNCHANGED lost
                 ELSE lost' = lost \cup {row.message} /\ UNCHANGED offered
    /\ UNCHANGED <<store, storeErrors>>

\* The socket fails.
SendRowFails(row) ==
    /\ mqttClientStatus # NOT_CONNECTED
    /\ lost' = lost \cup {row.message}
    /\ UNCHANGED <<store, offered, storeErrors>>

\* publish_mqtt_message for a row, under a packet id of its own and without a
\* callback.  Whether it worked is only logged, and the row is deleted next.
PublishRow(row) ==
    /\ MainAt("publish")
    /\ row \in pubMessages
    /\ pubMessages' = pubMessages \ {row}
    /\ current' = row
    /\ pc' = "delete"
    /\ packetId' = NextPacketId(packetId)
    /\ \/ \E intact \in TopicsRead(row) : StoreAgain(row, intact) \/ SendRow(row, intact)
       \/ StoreAgainFails(row)
       \/ SendRowFails(row)
    /\ UNCHANGED <<handleVars, counted, callVars, late, crashes>>

DeleteRow ==
    /\ MainAt("delete")
    /\ pc' = "publish"
    /\ \/ /\ store' = Deleted(store, current.id)
          /\ UNCHANGED storeErrors
       \/ /\ StoreError
          /\ UNCHANGED store
    /\ current' = NoRow
    /\ UNCHANGED <<handleVars, packetId, counted, pubMessages, callVars, historyVars>>

PublishedAll ==
    /\ MainAt("publish")
    /\ pubMessages = {}
    /\ pc' = "io"
    /\ UNCHANGED <<handleVars, packetId, store, counted, pubMessages, current, callVars,
                   historyVars, storeErrors>>

-----------------------------------------------------------------------------
(***************************************************************************)
(* mqtt_client_dowork and its callbacks                                    *)
(***************************************************************************)
\* A bug OnConnAck could have: what is stored is not asked for.
OnConnAckForgetsStore ==
    /\ MainAt("io")
    /\ mqttClientStatus = CONNECTING
    /\ mqttClientStatus' = CONNECTED
    /\ UNCHANGED <<needPublishPersistMsg, pub_ack_waiting_queue, packetId, store, mainVars,
                   callVars, historyVars, storeErrors>>

OnConnAck ==
    /\ MainAt("io")
    /\ mqttClientStatus = CONNECTING
    /\ mqttClientStatus' = CONNECTED
    /\ needPublishPersistMsg' = TRUE
    /\ UNCHANGED <<pub_ack_waiting_queue, packetId, store, mainVars, callVars, historyVars,
                   storeErrors>>

\* CONNACK with a refusal: closed, and nobody is told.
OnConnRefused ==
    /\ MainAt("io")
    /\ mqttClientStatus = CONNECTING
    /\ mqttClientStatus' = NOT_CONNECTED
    /\ UNCHANGED <<needPublishPersistMsg, pub_ack_waiting_queue, packetId, store, mainVars,
                   callVars, historyVars, storeErrors>>

OnPubAck(entry) ==
    /\ MainAt("io")
    /\ mqttClientStatus = CONNECTED
    /\ entry \in pub_ack_waiting_queue
    /\ pub_ack_waiting_queue' = pub_ack_waiting_queue \ {entry}
    /\ UNCHANGED <<mqttClientStatus, needPublishPersistMsg, packetId, store, mainVars,
                   callVars, historyVars, storeErrors>>

OnMqttErrorComplete ==
    /\ MainAt("io")
    /\ mqttClientStatus # NOT_CONNECTED
    /\ mqttClientStatus' = NOT_CONNECTED
    /\ NotifyPublishAckFailure
    /\ UNCHANGED <<needPublishPersistMsg, packetId, mainVars, callVars, late, crashes>>

IoDone ==
    /\ MainAt("io")
    /\ pc' = "idle"
    /\ UNCHANGED <<handleVars, packetId, store, counted, pubMessages, current, callVars,
                   historyVars, storeErrors>>

-----------------------------------------------------------------------------
(***************************************************************************)
(* The life of the process                                                 *)
(***************************************************************************)
Unfinished(m) == call[m] \in {"take", "add", "send"}

\* The process dies and is started again: initialize_mqtt_client_handle makes a
\* new handle and opens the file it finds.  Calls under way are gone.
Crash ==
    /\ Alive
    /\ crashes < MaxCrashes
    /\ crashes' = crashes + 1
    /\ mqttClientStatus' = NOT_CONNECTED
    /\ needPublishPersistMsg' = FALSE
    /\ packetId' = 0
    /\ pub_ack_waiting_queue' = {}
    /\ pc' = "idle"
    /\ counted' = 0
    /\ pubMessages' = {}
    /\ current' = NoRow
    /\ call' = [m \in Messages |-> IF Unfinished(m) THEN "done" ELSE call[m]]
    /\ UNCHANGED <<store, id, offered, lost, late, storeErrors>>

\* iothub_mqtt_destroy, when the threads have ended: sqlite_destroy_db removes the
\* file, whatever is in it.
Destroy ==
    /\ MainAt("idle")
    /\ \A m \in Messages : ~Unfinished(m)
    /\ mqttClientStatus' = NOT_CONNECTED
    /\ pc' = "destroyed"
    /\ store' = {}
    /\ UNCHANGED <<needPublishPersistMsg, pub_ack_waiting_queue, packetId, counted,
                   pubMessages, current, callVars, historyVars, storeErrors>>

-----------------------------------------------------------------------------
Init ==
    /\ mqttClientStatus = NOT_CONNECTED
    /\ needPublishPersistMsg = FALSE
    /\ packetId = 0
    /\ pub_ack_waiting_queue = {}
    /\ store = {}
    /\ pc = "idle"
    /\ counted = 0
    /\ pubMessages = {}
    /\ current = NoRow
    /\ call = [m \in Messages |-> "new"]
    /\ id = [m \in Messages |-> 0]
    /\ offered = {}
    /\ lost = {}
    /\ late = {}
    /\ storeErrors = 0
    /\ crashes = 0

PublishStep(m) ==
    \/ ReadPacketId(m) \/ TakePacketId(m)
    \/ AddMessage(m) \/ AddMessageFails(m)
    \/ SendMessage(m) \/ SendMessageFails(m)

MainStep ==
    \/ DoworkConnect \/ DoworkConnectFails \/ DoworkProceed \/ DoworkTimeout
    \/ CountMessages \/ ReadMessages \/ GetMessagesFails
    \/ \E row \in pubMessages : PublishRow(row)
    \/ DeleteRow \/ PublishedAll
    \/ OnConnAck \/ OnConnRefused
    \/ \E entry \in pub_ack_waiting_queue : OnPubAck(entry)
    \/ OnMqttErrorComplete \/ IoDone

Next ==
    \/ \E m \in Messages : PublishStep(m)
    \/ MainStep
    \/ Crash
    \/ Destroy

\* The main loop calls iothub_mqtt_dowork again and again.
Spec == Init /\ [][Next]_vars /\ WF_vars(MainStep)

-----------------------------------------------------------------------------
Calls == {"new", "take", "add", "send", "done", "refused"}

TypeOK ==
    /\ mqttClientStatus \in {NOT_CONNECTED, CONNECTING, CONNECTED}
    /\ needPublishPersistMsg \in BOOLEAN
    /\ packetId \in Ids
    /\ pub_ack_waiting_queue \subseteq Rows
    /\ store \subseteq Rows
    /\ pc \in {"idle", "count", "read", "publish", "delete", "io", "undefined", "destroyed"}
    /\ counted \in Nat
    /\ pubMessages \subseteq Rows
    /\ current \in Rows \cup {NoRow}
    /\ call \in [Messages -> Calls]
    /\ id \in [Messages -> Ids]
    /\ offered \subseteq Messages
    /\ lost \subseteq Messages
    /\ late \subseteq Messages
    /\ storeErrors \in Nat
    /\ crashes \in Nat
    /\ IsFiniteSet(store)
    /\ IsFiniteSet(pub_ack_waiting_queue)

\* A message leaves the store only when its packet was handed to the socket, under
\* its own topic, since it was put in; or with the whole file; or by one of the
\* losses the code has, a try to publish it from the store that failed (the socket,
\* or without a connection the new row, was refused) or went out under a misread
\* topic, after which its row is deleted all the same.  Nothing else takes it away:
\* a try without a connection leaves it stored under the new id, no row is
\* overwritten by a message whose packet id comes round again after a restart, none
\* is deleted in place of another, and a death of the process between publishing
\* and deleting leaves the row (iothub_mqtt_dowork, publish_mqtt_message).
LeavesOfferedOrLost ==
    [][\A m \in Stored \ Stored' : m \in offered \cup lost \/ pc' = "destroyed"]_vars

\* When the main thread is between two calls of dowork and connected, with nothing
\* left to ask for, a message is in the store only because its thread saw no
\* connection and added it after CONNACK, or because sqlite refused a statement:
\* CONNACK has everything published that was stored before (needPublishPersistMsg).
StrandedOnlyByRace ==
    (MainAt("idle") /\ mqttClientStatus = CONNECTED /\ ~needPublishPersistMsg)
        => Stored \subseteq late \/ storeErrors > 0

\* While connections are lost again and again and are made again and again that
\* last until the next call of dowork, every message in the store is handed to the
\* socket from there at some time, or is lost by a try that fails or misreads its
\* topic: so are the one that missed a CONNACK, by the next one, the one that was
\* stored again because a connection ended before its replay, and the one in the
\* store when the process died (iothub_mqtt_dowork).
StoredIsOfferedOrLost ==
    (/\ []<>(MainAt("idle") /\ mqttClientStatus = CONNECTED)
     /\ []<>(mqttClientStatus = NOT_CONNECTED))
        => \A m \in Messages : (m \in Stored) ~> (m \in offered \cup lost)
=============================================================================
