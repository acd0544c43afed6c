------------------------- MODULE MessageStoreProofs -------------------------
(***************************************************************************)
(* Proofs about MessageStore: its type invariant, that a message leaves    *)
(* the store only when it has been handed to the socket from there or its  *)
(* publication from there failed or was misread, and that only a thread    *)
(* that missed CONNACK leaves one in the store of a connected client.  The *)
(* second rests on the primary key of the table: the row a thread adds     *)
(* never has the id of a row the main thread is about to delete, and the   *)
(* row a message is stored again in is not the one to be deleted.          *)
(***************************************************************************)
EXTENDS MessageStore, FiniteSetTheorems, TLAPS

USE DEF NOT_CONNECTED, CONNECTING, CONNECTED

-----------------------------------------------------------------------------
\* The next packet id is one.
LEMMA NextPacketIdType == \A i \in Ids : NextPacketId(i) \in Ids
BY StoreAssumption DEF Ids, NextPacketId

\* A row made of an id and a message.
LEMMA RowType == \A i \in Ids, m \in Messages, intact \in BOOLEAN :
                    /\ Row(i, m, intact) \in Rows
                    /\ Row(i, m, intact).id = i
                    /\ Row(i, m, intact).message = m
BY DEF Row, Rows

\* INSERT keeps what is in the table and adds at most the row.
LEMMA InsertedRows ==
    ASSUME NEW rows \in SUBSET Rows, NEW row \in Rows
    PROVE  /\ Inserted(rows, row) \in SUBSET Rows
           /\ rows \subseteq Inserted(rows, row)
           /\ Inserted(rows, row) \subseteq rows \cup {row}
           /\ Taken(rows, row.id) => Inserted(rows, row) = rows
           /\ IsFiniteSet(rows) => IsFiniteSet(Inserted(rows, row))
BY FS_AddElement DEF Inserted

\* What NotifyPublishAckFailure does to the table, the store working or not.
LEMMA NotifyStays ==
    ASSUME TypeOK, NotifyPublishAckFailure
    PROVE  /\ pub_ack_waiting_queue' = {}
           /\ store' \in SUBSET Rows
           /\ store \subseteq store'
           /\ offered' \in SUBSET Messages
           /\ lost' \in SUBSET Messages
           /\ storeErrors' \in Nat
           /\ IsFiniteSet(store')
<1>1. CASE \E added \in SUBSET pub_ack_waiting_queue :
              /\ store' = store \cup added
              /\ offered' = offered \ {row.message : row \in added}
              /\ lost' = lost \ {row.message : row \in added}
              /\ UNCHANGED storeErrors
  <2>1. PICK added \in SUBSET pub_ack_waiting_queue :
              /\ store' = store \cup added
              /\ offered' = offered \ {row.message : row \in added}
              /\ lost' = lost \ {row.message : row \in added}
              /\ UNCHANGED storeErrors
    BY <1>1
  <2>2. IsFiniteSet(added)
    BY FS_Subset DEF TypeOK
  <2>3. IsFiniteSet(store')
    BY <2>1, <2>2, FS_Union DEF TypeOK
  <2>. QED
    BY <2>1, <2>3 DEF TypeOK, NotifyPublishAckFailure
<1>2. CASE StoreError /\ UNCHANGED <<store, offered, lost>>
  BY <1>2 DEF TypeOK, NotifyPublishAckFailure, StoreError
<1>. QED
  BY <1>1, <1>2 DEF NotifyPublishAckFailure

\* What publishing a row does to the table and the history: another row with the
\* message, a try that is recorded, or nothing but the record.
LEMMA PublishRowStays ==
    ASSUME TypeOK, NEW row \in pubMessages, PublishRow(row)
    PROVE  /\ offered' \in SUBSET Messages
           /\ lost' \in SUBSET Messages
           /\ storeErrors' \in Nat
           /\ storeErrors' = storeErrors \/ storeErrors' > 0
           /\ \/ /\ store' = store
                 /\ row.message \in offered' \cup lost'
              \/ \E new \in Rows :
                    /\ mqttClientStatus = NOT_CONNECTED
                    /\ new.message = row.message
                    /\ ~Taken(store, new.id)
                    /\ store' = Inserted(store, new)
<1>1. row \in Rows /\ row.message \in Messages
  BY DEF TypeOK, Rows
<1>2. NextPacketId(packetId) \in Ids
  BY NextPacketIdType DEF TypeOK
<1>3. TopicsRead(row) \subseteq BOOLEAN
  BY DEF TopicsRead
<1>4. ASSUME NEW intact \in BOOLEAN, StoreAgain(row, intact)
      PROVE  /\ offered' \in SUBSET Messages
             /\ lost' \in SUBSET Messages
             /\ storeErrors' = storeErrors
             /\ \E new \in Rows :
                    /\ mqttClientStatus = NOT_CONNECTED
                    /\ new.message = row.message
                    /\ ~Taken(store, new.id)
                    /\ store' = Inserted(store, new)
  <2>1. /\ Row(NextPacketId(packetId), row.message, intact) \in Rows
        /\ Row(NextPacketId(packetId), row.message, intact).id = NextPacketId(packetId)
        /\ Row(NextPacketId(packetId), row.message, intact).message = row.message
    BY <1>1, <1>2, RowType
  <2>2. offered' \in SUBSET Messages /\ lost' \in SUBSET Messages
    BY <1>4 DEF StoreAgain, TypeOK
  <2>3. storeErrors' = storeErrors
    BY <1>4 DEF StoreAgain
  <2>. QED
    BY <1>4, <2>1, <2>2, <2>3, Zenon DEF StoreAgain
<1>5. ASSUME NEW intact \in BOOLEAN, SendRow(row, intact)
      PROVE  /\ offered' \in SUBSET Messages
             /\ lost' \in SUBSET Messages
             /\ storeErrors' = storeErrors
             /\ store' = store
             /\ row.message \in offered' \cup lost'
  BY <1>1, <1>5 DEF SendRow, TypeOK
<1>6. CASE StoreAgainFails(row)
  BY <1>1, <1>6 DEF StoreAgainFails, StoreError, TypeOK
<1>7. CASE SendRowFails(row)
  BY <1>1, <1>7 DEF SendRowFails, TypeOK
<1>8. storeErrors \in Nat
  BY DEF TypeOK
<1>9. \/ \E intact \in BOOLEAN : StoreAgain(row, intact) \/ SendRow(row, intact)
      \/ StoreAgainFails(row)
      \/ SendRowFails(row)
  BY <1>3, Zenon DEF PublishRow
<1>10. CASE \E intact \in BOOLEAN : StoreAgain(row, intact)
  <2>1. PICK intact \in BOOLEAN : StoreAgain(row, intact)
    BY <1>10
  <2>. QED
    BY <1>4, <1>8, <2>1, Zenon
<1>11. CASE \E intact \in BOOLEAN : SendRow(row, intact)
  <2>1. PICK intact \in BOOLEAN : SendRow(row, intact)
    BY <1>11
  <2>. QED
    BY <1>5, <1>8, <2>1, Zenon
<1>. QED
  BY <1>6, <1>7, <1>9, <1>10, <1>11, Zenon

-----------------------------------------------------------------------------
\* The state of a new handle has its type.
LEMMA StoreInitType == Init => TypeOK
<1>. SUFFICES ASSUME Init PROVE TypeOK
  OBVIOUS
<1>1. IsFiniteSet({})
  BY FS_EmptySet
<1>2. 0 \in Ids
  BY StoreAssumption DEF Ids
<1>3. IsFiniteSet(store) /\ IsFiniteSet(pub_ack_waiting_queue)
  BY <1>1 DEF Init
<1>. QED
  BY <1>2, <1>3 DEF Init, TypeOK, Calls

\* Every variable of the store, the handle and the threads keeps its type; the
\* table stays finite.
THEOREM StoreTypeCorrect == Spec => []TypeOK
<1>1. Init => TypeOK
  BY StoreInitType
<1>2. TypeOK /\ [Next]_vars => TypeOK'
  <2>. SUFFICES ASSUME TypeOK, [Next]_vars
                PROVE  TypeOK'
    OBVIOUS
  <2>. USE DEF TypeOK, handleVars, mainVars, callVars, historyVars, MainAt, Calls
  <2>1. ASSUME NEW m \in Messages, ReadPacketId(m)
        PROVE  TypeOK'
    BY <2>1 DEF ReadPacketId
  <2>2. ASSUME NEW m \in Messages, TakePacketId(m)
        PROVE  TypeOK'
    BY <2>2, NextPacketIdType DEF TakePacketId
  <2>3. ASSUME NEW m \in Messages, AddMessage(m)
        PROVE  TypeOK'
    <3>1. Row(id[m], m, TRUE) \in Rows
      BY RowType
    <3>2. /\ store' = Inserted(store, Row(id[m], m, TRUE))
          /\ store \in SUBSET Rows
          /\ IsFiniteSet(store)
      BY <2>3 DEF AddMessage
    <3>3. store' \in SUBSET Rows /\ IsFiniteSet(store')
      <4>. HIDE DEF TypeOK
      <4>. DEFINE row == Row(id[m], m, TRUE)
      <4>1. row \in Rows /\ store' = Inserted(store, row)
        BY <3>1, <3>2
      <4>. HIDE DEF row
      <4>. QED
        BY <3>2, <4>1, InsertedRows
    <3>. QED
      BY <2>3, <3>3 DEF AddMessage
  <2>4. ASSUME NEW m \in Messages, AddMessageFails(m)
        PROVE  TypeOK'
    BY <2>4 DEF AddMessageFails, StoreError
  <2>5. ASSUME NEW m \in Messages, SendMessage(m)
        PROVE  TypeOK'
    <3>1. Row(id[m], m, TRUE) \in Rows
      BY RowType
    <3>2. IsFiniteSet(pub_ack_waiting_queue')
      BY <2>5, FS_AddElement DEF SendMessage
    <3>. QED
      BY <2>5, <3>1, <3>2 DEF SendMessage
  <2>6. ASSUME NEW m \in Messages, SendMessageFails(m)
        PROVE  TypeOK'
    BY <2>6 DEF SendMessageFails
  <2>7. CASE DoworkConnect
    BY <2>7 DEF DoworkConnect, Proceed
  <2>8. CASE DoworkConnectFails
    BY <2>8, NotifyStays, FS_EmptySet DEF DoworkConnectFails
  <2>9. CASE DoworkProceed
    BY <2>9 DEF DoworkProceed, Proceed
  <2>10. CASE DoworkTimeout
    BY <2>10 DEF DoworkTimeout
  <2>11. CASE CountMessages
    BY <2>11, FS_CardinalityType DEF CountMessages
  <2>12. CASE ReadMessages
    BY <2>12 DEF ReadMessages, RowsRead
  <2>13. CASE GetMessagesFails
    BY <2>13 DEF GetMessagesFails, StoreError
  <2>14. ASSUME NEW row \in pubMessages, PublishRow(row)
         PROVE  TypeOK'
    <3>1. row \in Rows /\ NextPacketId(packetId) \in Ids
      BY NextPacketIdType
    <3>2. offered' \in SUBSET Messages /\ lost' \in SUBSET Messages /\ storeErrors' \in Nat
      BY <2>14, PublishRowStays
    <3>3. store' \in SUBSET Rows /\ IsFiniteSet(store')
      BY <2>14, PublishRowStays, InsertedRows
    <3>. QED
      BY <2>14, <3>1, <3>2, <3>3 DEF PublishRow
  <2>15. CASE DeleteRow
    <3>1. Deleted(store, current.id) \in SUBSET store
      BY DEF Deleted
    <3>2. store' \in SUBSET store /\ storeErrors' \in Nat
      BY <2>15, <3>1 DEF DeleteRow, StoreError
    <3>3. IsFiniteSet(store')
      BY <3>2, FS_Subset
    <3>. QED
      BY <2>15, <3>2, <3>3 DEF DeleteRow
  <2>16. CASE PublishedAll
    BY <2>16 DEF PublishedAll
  <2>17. CASE OnConnAck
    BY <2>17 DEF OnConnAck
  <2>18. CASE OnConnRefused
    BY <2>18 DEF OnConnRefused
  <2>19. ASSUME NEW entry \in pub_ack_waiting_queue, OnPubAck(entry)
         PROVE  TypeOK'
    <3>1. IsFiniteSet(pub_ack_waiting_queue')
      BY <2>19, FS_Subset DEF OnPubAck
    <3>. QED
      BY <2>19, <3>1 DEF OnPubAck
  <2>20. CASE OnMqttErrorComplete
    BY <2>20, NotifyStays, FS_EmptySet DEF OnMqttErrorComplete
  <2>21. CASE IoDone
    BY <2>21 DEF IoDone
  <2>22. CASE Crash
    <3>1. 0 \in Ids
      BY StoreAssumption DEF Ids
    <3>2. IsFiniteSet(pub_ack_waiting_queue')
      BY <2>22, FS_EmptySet DEF Crash
    <3>3. call' \in [Messages -> Calls]
      BY <2>22 DEF Crash, Unfinished
    <3>4. crashes' \in Nat
      BY <2>22 DEF Crash
    <3>. HIDE DEF Calls
    <3>. QED
      BY <2>22, <3>1, <3>2, <3>3, <3>4 DEF Crash
  <2>23. CASE Destroy
    BY <2>23, FS_EmptySet DEF Destroy
  <2>24. CASE UNCHANGED vars
    BY <2>24 DEF vars
  <2>. QED
    BY <2>1, <2>2, <2>3, <2>4, <2>5, <2>6, <2>7, <2>8, <2>9, <2>10, <2>11, <2>12, <2>13,
       <2>14, <2>15, <2>16, <2>17, <2>18, <2>19, <2>20, <2>21, <2>22, <2>23, <2>24
    DEF Next, PublishStep, MainStep
<1>. QED
  BY <1>1, <1>2, PTL DEF Spec

-----------------------------------------------------------------------------
(***************************************************************************)
(* The main thread works on a copy of the rows while other threads insert. *)
(* The ids of the table are unique, what it has still to publish is in the *)
(* table, and the row it is about to delete is one whose message was       *)
(* handed to the socket, lost, or stored again in another row.             *)
(***************************************************************************)
PrimaryKey == \A row, other \in store : row.id = other.id => row = other

CopyStored == pc \in {"publish", "delete"} => pubMessages \subseteq store

CurrentTried ==
    pc = "delete" =>
        /\ current \in store
        /\ current \notin pubMessages
        /\ \/ current.message \in offered \cup lost
           \/ \E row \in store \ {current} : row.message = current.message

ReplayInv == TypeOK /\ PrimaryKey /\ CopyStored /\ CurrentTried

\* The same of a connected client that has nothing left to ask for: what is stored
\* is still to be published, was added late, or sqlite has refused a statement.
StrandedInv ==
    (mqttClientStatus = CONNECTED /\ ~needPublishPersistMsg
        /\ pc \in {"idle", "publish", "delete", "io"})
    => \A row \in store : \/ row.message \in late
                          \/ storeErrors > 0
                          \/ pc \in {"publish", "delete"} /\ row \in pubMessages
                          \/ pc = "delete" /\ row = current

\* INSERT keeps the ids unique.
LEMMA InsertedKey ==
    ASSUME NEW rows \in SUBSET Rows, NEW row \in Rows,
           \A r, other \in rows : r.id = other.id => r = other
    PROVE  \A r, other \in Inserted(rows, row) : r.id = other.id => r = other
BY DEF Inserted, Taken

\* So does NotifyPublishAckFailure, however many entries wait.
LEMMA NotifyKey ==
    ASSUME PrimaryKey, NotifyPublishAckFailure
    PROVE  PrimaryKey'
<1>1. CASE \E added \in SUBSET pub_ack_waiting_queue :
              AddedForWaiting(added) /\ store' = store \cup added
  BY <1>1 DEF PrimaryKey, AddedForWaiting, Taken
<1>2. CASE store' = store
  BY <1>2 DEF PrimaryKey
<1>. QED
  BY <1>1, <1>2 DEF NotifyPublishAckFailure

\* A row with the id of the row about to be deleted is that row.
LEMMA DeletedRows ==
    ASSUME ReplayInv, pc = "delete"
    PROVE  Deleted(store, current.id) = store \ {current}
BY DEF ReplayInv, PrimaryKey, CurrentTried, Deleted

\* The copy, the key and the row about to be deleted agree with the table, whatever
\* other threads insert and wherever the process dies.
THEOREM ReplaySound == Spec => []ReplayInv
<1>1. Init => ReplayInv
  <2>. SUFFICES ASSUME Init, TypeOK PROVE PrimaryKey /\ CopyStored /\ CurrentTried
    BY StoreInitType DEF ReplayInv
  <2>. QED
    BY DEF Init, PrimaryKey, CopyStored, CurrentTried
<1>2. ReplayInv /\ TypeOK' /\ [Next]_vars => ReplayInv'
  <2>. SUFFICES ASSUME ReplayInv, TypeOK', [Next]_vars
                PROVE  PrimaryKey' /\ CopyStored' /\ CurrentTried'
    BY DEF ReplayInv
  <2>. USE DEF ReplayInv, CopyStored, CurrentTried, MainAt,
              handleVars, mainVars, callVars, historyVars
  <2>1. ASSUME NEW m \in Messages, AddMessage(m)
        PROVE  PrimaryKey' /\ CopyStored' /\ CurrentTried'
    <3>1. Row(id[m], m, TRUE) \in Rows
      BY RowType DEF TypeOK
    <3>2. store \subseteq store'
      BY <2>1, <3>1, InsertedRows DEF AddMessage, TypeOK
    <3>3. PrimaryKey'
      BY <2>1, <3>1, InsertedKey DEF AddMessage, TypeOK, PrimaryKey
    <3>. QED
      BY <2>1, <3>2, <3>3 DEF AddMessage
  <2>2. CASE DoworkConnectFails
    BY <2>2, NotifyStays, NotifyKey DEF DoworkConnectFails
  <2>3. CASE OnMqttErrorComplete
    BY <2>3, NotifyStays, NotifyKey DEF OnMqttErrorComplete
  <2>4. CASE ReadMessages
    BY <2>4 DEF ReadMessages, RowsRead, PrimaryKey
  <2>5. ASSUME NEW row \in pubMessages, PublishRow(row)
        PROVE  PrimaryKey' /\ CopyStored' /\ CurrentTried'
    <3>1. row \in store /\ pc' = "delete" /\ current' = row
          /\ pubMessages' = pubMessages \ {row} /\ pubMessages \subseteq store
      BY <2>5 DEF PublishRow
    <3>2. CASE store' = store /\ row.message \in offered' \cup lost'
      BY <3>1, <3>2 DEF PrimaryKey
    <3>3. ASSUME NEW new \in Rows, new.message = row.message, ~Taken(store, new.id),
                 store' = Inserted(store, new)
          PROVE  PrimaryKey' /\ CopyStored' /\ CurrentTried'
      <4>1. PrimaryKey'
        BY <3>3, InsertedKey DEF TypeOK, PrimaryKey
      <4>2. store' = store \cup {new}
        BY <3>3 DEF Inserted
      <4>3. new # row
        BY <3>1, <3>3 DEF Taken
      <4>. QED
        BY <3>1, <3>3, <4>1, <4>2, <4>3
    <3>. QED
      BY <2>5, <3>2, <3>3, PublishRowStays
  <2>6. CASE DeleteRow
    <3>1. store' = store \/ store' = store \ {current}
      BY <2>6, DeletedRows DEF DeleteRow
    <3>. QED
      BY <2>6, <3>1 DEF DeleteRow, PrimaryKey
  <2>7. CASE Crash
    BY <2>7 DEF Crash, PrimaryKey
  <2>8. CASE Destroy
    BY <2>8 DEF Destroy, PrimaryKey
  <2>9. ASSUME UNCHANGED store, UNCHANGED <<pubMessages, current, offered, lost>>,
               pc' = pc \/ pc' \notin {"publish", "delete"}
        PROVE  PrimaryKey' /\ CopyStored' /\ CurrentTried'
    BY <2>9 DEF PrimaryKey
  <2>10. ASSUME NEW m \in Messages, PublishStep(m), ~AddMessage(m)
         PROVE  PrimaryKey' /\ CopyStored' /\ CurrentTried'
    BY <2>10, <2>9 DEF PublishStep, ReadPacketId, TakePacketId, AddMessageFails,
                       SendMessage, SendMessageFails
  <2>11. CASE \/ DoworkConnect \/ DoworkProceed \/ DoworkTimeout
              \/ CountMessages \/ GetMessagesFails \/ PublishedAll
    BY <2>11, <2>9 DEF DoworkConnect, DoworkProceed, DoworkTimeout, Proceed, CountMessages,
                       GetMessagesFails, PublishedAll
  <2>12. CASE OnConnAck \/ OnConnRefused \/ IoDone
    BY <2>12, <2>9 DEF OnConnAck, OnConnRefused, IoDone
  <2>13. ASSUME NEW entry \in pub_ack_waiting_queue, OnPubAck(entry)
         PROVE  PrimaryKey' /\ CopyStored' /\ CurrentTried'
    BY <2>13, <2>9 DEF OnPubAck
  <2>14. CASE UNCHANGED vars
    BY <2>14, <2>9 DEF vars
  <2>. QED
    BY <2>1, <2>2, <2>3, <2>4, <2>5, <2>6, <2>7, <2>8, <2>10, <2>11, <2>12, <2>13, <2>14
    DEF Next, MainStep
<1>. QED
  BY <1>1, <1>2, StoreTypeCorrect, PTL DEF Spec

\* LeavesOfferedOrLost of MessageStore for any messages, ids, number of crashes and
\* refused statements: of the steps that change the table only the deletion after
\* a try to publish the row and the removal of the file take a message out of it,
\* and the deletion does not when the try has stored the message again.
THEOREM OfferedOrLostLeaves == Spec => LeavesOfferedOrLost
<1>1. ReplayInv /\ [Next]_vars
        => [\A m \in Stored \ Stored' : m \in offered \cup lost \/ pc' = "destroyed"]_vars
  <2>. SUFFICES ASSUME ReplayInv, Next
                PROVE  \A m \in Stored \ Stored' : m \in offered \cup lost \/ pc' = "destroyed"
    OBVIOUS
  <2>. USE DEF ReplayInv, MainAt
  <2>1. ASSUME store \subseteq store'
        PROVE  Stored \ Stored' = {}
    BY <2>1 DEF Stored
  <2>2. ASSUME NEW m \in Messages, PublishStep(m)
        PROVE  store \subseteq store'
    <3>1. Row(id[m], m, TRUE) \in Rows
      BY RowType DEF TypeOK
    <3>2. CASE AddMessage(m)
      BY <3>1, <3>2, InsertedRows DEF AddMessage, TypeOK
    <3>. QED
      BY <2>2, <3>2 DEF PublishStep, ReadPacketId, TakePacketId, AddMessageFails,
                        SendMessage, SendMessageFails
  <2>3. CASE DoworkConnectFails \/ OnMqttErrorComplete
    BY <2>1, <2>3, NotifyStays DEF DoworkConnectFails, OnMqttErrorComplete
  <2>4. ASSUME NEW row \in pubMessages, PublishRow(row)
        PROVE  store \subseteq store'
    BY <2>4, PublishRowStays, InsertedRows DEF TypeOK
  <2>5. CASE DeleteRow
    <3>1. store' = store \/ store' = store \ {current}
      BY <2>5, DeletedRows DEF DeleteRow
    <3>2. \/ current.message \in offered \cup lost
          \/ \E row \in store \ {current} : row.message = current.message
      BY <2>5 DEF DeleteRow, CurrentTried
    <3>. QED
      BY <3>1, <3>2 DEF Stored
  <2>6. CASE Destroy
    BY <2>6 DEF Destroy
  <2>7. CASE \/ DoworkConnect \/ DoworkProceed \/ DoworkTimeout
             \/ CountMessages \/ ReadMessages \/ GetMessagesFails \/ PublishedAll
             \/ OnConnAck \/ OnConnRefused \/ IoDone \/ Crash
    BY <2>1, <2>7 DEF DoworkConnect, DoworkProceed, DoworkTimeout, Proceed, CountMessages,
                      ReadMessages, GetMessagesFails, PublishedAll, OnConnAck, OnConnRefused,
                      IoDone, Crash
  <2>8. ASSUME NEW entry \in pub_ack_waiting_queue, OnPubAck(entry)
        PROVE  store \subseteq store'
    BY <2>8 DEF OnPubAck
  <2>. QED
    BY <2>1, <2>2, <2>3, <2>4, <2>5, <2>6, <2>7, <2>8 DEF Next, MainStep
<1>. QED
  BY <1>1, ReplaySound, PTL DEF Spec, LeavesOfferedOrLost

\* StrandedOnlyByRace of MessageStore for any messages, ids, number of crashes and
\* refused statements, by following the rows from CONNACK to the end of the copy.
THEOREM StrandedByRace == Spec => []StrandedOnlyByRace
<1>1. Init => StrandedInv
  BY DEF Init, StrandedInv
<1>2. ReplayInv /\ StrandedInv /\ [Next]_vars => StrandedInv'
  <2>. SUFFICES ASSUME ReplayInv, StrandedInv, [Next]_vars
                PROVE  StrandedInv'
    OBVIOUS
  <2>. USE DEF StrandedInv, MainAt, handleVars, mainVars, callVars, historyVars
  <2>1. ASSUME NEW m \in Messages, AddMessage(m)
        PROVE  StrandedInv'
    <3>1. /\ Row(id[m], m, TRUE) \in Rows
          /\ Row(id[m], m, TRUE).id = id[m]
          /\ Row(id[m], m, TRUE).message = m
      BY RowType DEF ReplayInv, TypeOK
    <3>1a. store' = Inserted(store, Row(id[m], m, TRUE)) /\ store \in SUBSET Rows
      BY <2>1 DEF AddMessage, ReplayInv, TypeOK
    <3>2. store' \subseteq store \cup {Row(id[m], m, TRUE)}
      BY <3>1, <3>1a, InsertedRows, Zenon
    <3>3. CASE Taken(store, id[m])
      <4>1. store' = store
        BY <3>1, <3>1a, <3>3 DEF Inserted
      <4>. QED
        BY <2>1, <3>3, <4>1 DEF AddMessage
    <3>4. CASE ~Taken(store, id[m])
      BY <2>1, <3>1, <3>2, <3>4 DEF AddMessage
    <3>. QED
      BY <3>3, <3>4
  <2>2. CASE DoworkConnectFails \/ OnMqttErrorComplete
    BY <2>2 DEF DoworkConnectFails, OnMqttErrorComplete
  <2>3. CASE ReadMessages
    BY <2>3 DEF ReadMessages, RowsRead
  <2>4. ASSUME NEW row \in pubMessages, PublishRow(row)
        PROVE  StrandedInv'
    <3>1. \/ mqttClientStatus = NOT_CONNECTED
          \/ store' = store /\ (storeErrors' = storeErrors \/ storeErrors' > 0)
      BY <2>4, PublishRowStays DEF ReplayInv
    <3>. QED
      BY <2>4, <3>1 DEF PublishRow
  <2>5. CASE DeleteRow
    <3>1. CASE store' = Deleted(store, current.id) /\ UNCHANGED storeErrors
      <4>1. store' = store \ {current}
        BY <2>5, <3>1, DeletedRows DEF DeleteRow
      <4>. QED
        BY <2>5, <3>1, <4>1 DEF DeleteRow
    <3>2. CASE StoreError
      BY <2>5, <3>2 DEF StoreError, ReplayInv, TypeOK
    <3>. QED
      BY <2>5, <3>1, <3>2 DEF DeleteRow
  <2>6. CASE Crash \/ Destroy
    BY <2>6 DEF Crash, Destroy
  <2>7. CASE GetMessagesFails
    BY <2>7 DEF GetMessagesFails, StoreError, ReplayInv, TypeOK
  <2>8. CASE CountMessages \/ PublishedAll
    BY <2>8 DEF CountMessages, PublishedAll
  <2>9. CASE DoworkConnect \/ DoworkProceed \/ DoworkTimeout
    BY <2>9 DEF DoworkConnect, DoworkProceed, DoworkTimeout, Proceed
  <2>10. CASE OnConnAck \/ OnConnRefused \/ IoDone
    BY <2>10 DEF OnConnAck, OnConnRefused, IoDone
  <2>11. ASSUME NEW m \in Messages, PublishStep(m), ~AddMessage(m)
         PROVE  StrandedInv'
    <3>0. storeErrors \in Nat
      BY DEF ReplayInv, TypeOK
    <3>1. storeErrors' = storeErrors \/ storeErrors' > 0
      <4>1. storeErrors' = storeErrors \/ StoreError
        BY <2>11 DEF PublishStep, ReadPacketId, TakePacketId, AddMessageFails,
                     SendMessage, SendMessageFails
      <4>. QED
        BY <3>0, <4>1 DEF StoreError
    <3>2. UNCHANGED <<mqttClientStatus, needPublishPersistMsg, store, mainVars, late>>
      BY <2>11 DEF PublishStep, ReadPacketId, TakePacketId, AddMessageFails,
                   SendMessage, SendMessageFails
    <3>3. CASE storeErrors' > 0
      BY <3>3
    <3>4. CASE storeErrors' = storeErrors
      BY <3>2, <3>4
    <3>. QED
      BY <3>1, <3>3, <3>4
  <2>12. ASSUME NEW entry \in pub_ack_waiting_queue, OnPubAck(entry)
         PROVE  StrandedInv'
    BY <2>12 DEF OnPubAck
  <2>13. CASE UNCHANGED vars
    BY <2>13 DEF vars
  <2>. QED
    BY <2>1, <2>2, <2>3, <2>4, <2>5, <2>6, <2>7, <2>8, <2>9, <2>10, <2>11, <2>12, <2>13
    DEF Next, MainStep
<1>3. StrandedInv => StrandedOnlyByRace
  BY DEF StrandedInv, StrandedOnlyByRace, MainAt, Stored
<1>. QED
  BY <1>1, <1>2, <1>3, ReplaySound, PTL DEF Spec
=============================================================================
