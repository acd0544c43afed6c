----------------------------- MODULE XioAdapter -----------------------------
(***************************************************************************)
(* The two transports of the agent: socketio_berkeley.c, used for MQTT and *)
(* for meters behind TCP, and serial_io.c, a copy of it adapted to serial  *)
(* lines.  Both keep a list of messages that could not be written at once  *)
(* and write them from dowork.                                             *)
(*                                                                         *)
(* A byte is <<m, i>>, byte i of message m, so that the wire shows what    *)
(* became of each message.  Two kinds of owner use an adapter: the umqtt   *)
(* client, which closes it from its error callback and calls xio_dowork    *)
(* once more after every close, and an acquisition task, which only takes  *)
(* note of an error.  All threads of the agent send on the transport of    *)
(* the umqtt client, without a lock: a send is two steps, the write and    *)
(* the queueing of what was not written, and other calls come in between.  *)
(*                                                                         *)
(* A connection that is broken stays so until it is closed.  EAGAIN is     *)
(* possible on the socket only: serialio_open clears O_NONBLOCK, and a     *)
(* write to the line is cut short by a signal or a hang-up.  Allocation    *)
(* never fails.                                                            *)
(***************************************************************************)
EXTENDS Integers, Sequences

CONSTANTS
    Users,              \* what adapters are used for
    Threads,            \* threads that send
    Sizes,              \* the lengths of messages, in bytes
    MaxSends,           \* bound: messages sent in a behaviour
    MaxWire             \* bound: bytes a partial write may bring the wire to

ASSUME XioAssumption ==
    /\ Users \subseteq {"mqtt", "tcp_meter", "serial_meter"}
    /\ Threads # {}
    /\ Sizes \subseteq Nat \ {0}
    /\ {MaxSends, MaxWire} \subseteq Nat

VARIABLES
    user,               \* what this adapter is used for
    io_state, fd,       \* SOCKET_IO_INSTANCE, SERIAL_IO_INSTANCE
    pending,            \* pending_io_list, the bytes of each entry
    held,               \* the owner still calls dowork on the adapter
    sending,            \* per thread inside send: what is left to be queued
    pc,                 \* dowork: "idle", "flush" or "recv"
    link,               \* the peer or the line: "up" or "broken"
    \* history: sizes of the messages sent, what became of each, the bytes on
    \* the wire since the adapter was opened, whether a thread was inside send
    \* when another one entered it or the adapter was closed, and whether
    \* the serial adapter has written a part of a queued message
    size, outcome, wire, overlapped, resent

adapterVars == <<io_state, fd, pending, held, pc>>
historyVars == <<size, outcome, wire, overlapped, resent>>
vars == <<user, adapterVars, sending, link, historyVars>>

adapter == IF user = "serial_meter" THEN "serial" ELSE "socket"
owner == IF user = "mqtt" THEN "umqtt" ELSE "task"

\* A task sends from its own thread only.
Senders == IF owner = "umqtt" THEN Threads ELSE {CHOOSE t \in Threads : TRUE}

Nothing == <<>>
Bytes(m, n) == [i \in 1 .. n |-> <<m, i>>]
Rest(bytes, k) == SubSeq(bytes, k + 1, Len(bytes))
Written(bytes) == wire' = wire \o bytes
MessageOf(bytes) == Head(bytes)[1]
InSend == \E t \in Threads : sending[t] # Nothing

\* What became of the messages behind these queued bytes: they were not sent.
Lost(queued) ==
    outcome' = [m \in DOMAIN outcome |->
                   IF \E i \in DOMAIN queued : MessageOf(queued[i]) = m THEN "failed"
                                                                       ELSE outcome[m]]

-----------------------------------------------------------------------------
(***************************************************************************)
(* Errors and closing                                                      *)
(***************************************************************************)
\* A bug close_connection could have: without the last xio_dowork the messages stay
\* queued.
KeptOnClose(queued) ==
    /\ fd' = "none"
    /\ io_state' = "CLOSED"
    /\ pending' = queued

\* The umqtt client closes the socket with these messages queued.
\* close_connection calls xio_dowork once more, and socketio_dowork, which does not
\* look at io_state, fails to write each of them to the closed socket, drops it
\* and puts the adapter into the error state.
DroppedOnClose(queued) ==
    /\ fd' = "none"
    /\ io_state' = IF queued = <<>> THEN "CLOSED" ELSE "ERROR"
    /\ pending' = <<>>

\* indicate_error while the state is "now" and these messages are queued: the
\* umqtt client closes a socket that is still connected.
IndicateError(now, queued) ==
    IF owner = "umqtt" /\ fd = "open"
    THEN DroppedOnClose(queued)
    ELSE /\ io_state' = now
         /\ pending' = queued
         /\ UNCHANGED fd

ClosingUnderSend == overlapped' = (overlapped \/ InSend)

\* socketio_close, called by close_connection of the umqtt client.
SocketClose ==
    /\ owner = "umqtt"
    /\ pc = "idle"
    /\ fd = "open"
    /\ DroppedOnClose(pending)
    /\ Lost(pending)
    /\ ClosingUnderSend
    /\ UNCHANGED <<user, held, sending, pc, link, size, wire, resent>>

\* mqtt_client_disconnect: the umqtt client forgets its transport, and nobody
\* calls dowork on it any more.
LetGo ==
    /\ owner = "umqtt" /\ fd = "open"
    /\ pc = "idle"
    /\ held /\ held' = FALSE
    /\ UNCHANGED <<user, io_state, fd, pending, sending, pc, link, historyVars>>

\* Destroying an adapter, open or not, frees what is queued, and a new one is
\* created for the next connection.  The thread of a task is joined before.
Replace ==
    /\ pc = "idle"
    /\ owner = "task" => ~InSend
    /\ fd' = "none"
    /\ io_state' = "CLOSED"
    /\ pending' = <<>>
    /\ held' = TRUE
    /\ Lost(pending)
    /\ ClosingUnderSend
    /\ UNCHANGED <<user, sending, pc, link, size, wire, resent>>

SocketDestroyCreate == adapter = "socket" /\ Replace

\* serialio_close followed by serialio_destroy, as map_list_destroy calls them.
SerialDestroyCreate == adapter = "serial" /\ Replace

\* Opening needs a closed adapter, and every failure closes the descriptor again.
Open ==
    /\ pc = "idle"
    /\ io_state = "CLOSED" /\ fd = "none"
    /\ held
    /\ io_state' = "OPEN"
    /\ fd' = "open"
    /\ link' = "up"
    /\ wire' = <<>>
    /\ UNCHANGED <<user, pending, held, sending, pc, size, outcome, overlapped, resent>>

SocketOpen == adapter = "socket" /\ Open
SerialOpen == adapter = "serial" /\ Open

-----------------------------------------------------------------------------
(***************************************************************************)
(* send                                                                    *)
(***************************************************************************)
\* A new message of n bytes; message m is the one sent m-th.  The thread of a task
\* does not send while it is in dowork.
NewMessage(t, n, result) ==
    /\ sending[t] = Nothing
    /\ owner = "task" => pc = "idle"
    /\ Len(size) < MaxSends
    /\ size' = Append(size, n)
    /\ outcome' = Append(outcome, result)
    /\ overlapped' = (overlapped \/ InSend)
    /\ UNCHANGED <<user, adapterVars, link, resent>>

\* The adapter is not open, or nothing is queued and the write fails.
SendFails(t, n) ==
    /\ io_state # "OPEN" \/ (pending = <<>> /\ link = "broken")
    /\ NewMessage(t, n, "failed")
    /\ UNCHANGED <<wire, sending>>

\* The socket's buffer is full and nothing is queued: the message is dropped, and
\* send returns 0.
SendDropped(t, n) ==
    /\ adapter = "socket"
    /\ io_state = "OPEN" /\ pending = <<>> /\ link = "up"
    /\ NewMessage(t, n, "dropped")
    /\ UNCHANGED <<wire, sending>>

\* All of the message is written, and on_send_complete called.
SendWhole(t, n) ==
    /\ io_state = "OPEN" /\ pending = <<>> /\ link = "up"
    /\ NewMessage(t, n, "complete")
    /\ Written(Bytes(Len(size'), n))
    /\ UNCHANGED sending

\* A bug send could have: on_send_complete is called after a partial write.
SendPartCompletes(t, n, k) ==
    /\ io_state = "OPEN" /\ pending = <<>> /\ link = "up"
    /\ NewMessage(t, n, "complete")
    /\ Written(SubSeq(Bytes(Len(size'), n), 1, k))
    /\ sending' = [sending EXCEPT ![t] = Rest(Bytes(Len(size'), n), k)]

\* Only k bytes are written; the others will be queued.
SendPart(t, n, k) ==
    /\ io_state = "OPEN" /\ pending = <<>> /\ link = "up"
    /\ NewMessage(t, n, "accepted")
    /\ Written(SubSeq(Bytes(Len(size'), n), 1, k))
    /\ sending' = [sending EXCEPT ![t] = Rest(Bytes(Len(size'), n), k)]

\* Other messages are queued: this one will be queued behind them.
SendBehindQueue(t, n) ==
    /\ io_state = "OPEN" /\ pending # <<>>
    /\ NewMessage(t, n, "accepted")
    /\ sending' = [sending EXCEPT ![t] = Bytes(Len(size'), n)]
    /\ UNCHANGED wire

Send(t, n) ==
    \/ SendFails(t, n) \/ SendDropped(t, n) \/ SendWhole(t, n) \/ SendBehindQueue(t, n)
    \/ \E k \in 1 .. (n - 1) : SendPart(t, n, k)

SocketSend(t, n) == adapter = "socket" /\ Send(t, n)
SerialSend(t, n) == adapter = "serial" /\ Send(t, n)

\* A bug add_pending_io could have: the entry goes to the front of the list.
AddPendingIoInFront(t) ==
    /\ sending[t] # Nothing
    /\ pending' = <<sending[t]>> \o pending
    /\ sending' = [sending EXCEPT ![t] = Nothing]
    /\ UNCHANGED <<user, io_state, fd, held, pc, link, historyVars>>

\* add_pending_io, whatever the adapter's state is by now.
AddPendingIo(t) ==
    /\ sending[t] # Nothing
    /\ pending' = Append(pending, sending[t])
    /\ sending' = [sending EXCEPT ![t] = Nothing]
    /\ UNCHANGED <<user, io_state, fd, held, pc, link, historyVars>>

SocketAddPendingIo(t) == adapter = "socket" /\ AddPendingIo(t)
SerialAddPendingIo(t) == adapter = "serial" /\ AddPendingIo(t)

-----------------------------------------------------------------------------
(***************************************************************************)
(* dowork: first the queued messages                                       *)
(***************************************************************************)
\* serialio_dowork does nothing unless the port is open; socketio_dowork goes to
\* the queued messages in any state.
DoworkBegin ==
    /\ pc = "idle"
    /\ held
    /\ owner = "task" => ~InSend
    /\ adapter = "serial" => io_state = "OPEN"
    /\ pc' = "flush"
    /\ UNCHANGED <<user, io_state, fd, pending, held, sending, link, historyVars>>

\* The first message is written to its end: on_send_complete is called and the
\* message removed.
FlushWhole ==
    /\ pc = "flush" /\ pending # <<>>
    /\ fd = "open" /\ link = "up"
    /\ Written(Head(pending))
    /\ pending' = Tail(pending)
    /\ outcome' = [outcome EXCEPT ![MessageOf(Head(pending))] = "complete"]
    /\ UNCHANGED <<user, io_state, fd, held, pc, sending, link, size, overlapped, resent>>

SocketFlushWhole == adapter = "socket" /\ FlushWhole
SerialFlushWhole == adapter = "serial" /\ FlushWhole

\* A bug the partial write could have: the bytes written are not removed.
SocketFlushPartKeepsBytes(k) ==
    /\ adapter = "socket"
    /\ pc = "flush" /\ pending # <<>> /\ fd = "open" /\ link = "up"
    /\ k < Len(Head(pending)) /\ Len(wire) + k <= MaxWire
    /\ Written(SubSeq(Head(pending), 1, k))
    /\ pc' = "recv"
    /\ UNCHANGED <<user, io_state, fd, pending, held, sending, link, size, outcome, overlapped, resent>>

\* k bytes are written; the rest is left for the next dowork.
SocketFlushPart(k) ==
    /\ adapter = "socket"
    /\ pc = "flush" /\ pending # <<>>
    /\ fd = "open" /\ link = "up"
    /\ k < Len(Head(pending))
    /\ Written(SubSeq(Head(pending), 1, k))
    /\ pending' = <<Rest(Head(pending), k)>> \o Tail(pending)
    /\ pc' = "recv"
    /\ UNCHANGED <<user, io_state, fd, held, sending, link, size, outcome, overlapped, resent>>

\* EAGAIN
SocketFlushAgain ==
    /\ adapter = "socket"
    /\ pc = "flush" /\ pending # <<>>
    /\ fd = "open" /\ link = "up"
    /\ pc' = "recv"
    /\ UNCHANGED <<user, io_state, fd, pending, held, sending, link, historyVars>>

\* A bug the error path could have, the one serialio_dowork has: nobody is told.
SocketFlushErrorUnreported ==
    /\ adapter = "socket"
    /\ pc = "flush" /\ pending # <<>>
    /\ fd = "none" \/ link = "broken"
    /\ pc' = "recv"
    /\ UNCHANGED <<user, io_state, fd, pending, held, sending, link, historyVars>>

\* The message is dropped, the owner told, and the loop goes on.
SocketFlushError ==
    /\ adapter = "socket"
    /\ pc = "flush" /\ pending # <<>>
    /\ fd = "none" \/ link = "broken"
    /\ IndicateError("ERROR", Tail(pending))
    /\ ClosingUnderSend
    /\ Lost(IF owner = "umqtt" /\ fd = "open" THEN pending ELSE <<Head(pending)>>)
    /\ UNCHANGED <<user, held, pc, sending, link, size, wire, resent>>

\* k bytes are written and the others moved to the front, but the size is not
\* reduced: the last k bytes stay at the end and are written again.  The loop goes
\* on with the same message.
SerialFlushPart(k) ==
    LET bytes == Head(pending)
    IN  /\ adapter = "serial"
        /\ pc = "flush" /\ pending # <<>> /\ link = "up"
        /\ k < Len(bytes)
        /\ Len(wire) + k <= MaxWire
        /\ Written(SubSeq(bytes, 1, k))
        /\ pending' = <<Rest(bytes, k) \o Rest(bytes, Len(bytes) - k)>> \o Tail(pending)
        /\ resent' = TRUE
        /\ UNCHANGED <<user, io_state, fd, held, pc, sending, link, size, outcome, overlapped>>

\* write returns -1, which is not less than INVALID_SERIAL_FD: the message stays
\* queued and nobody is told.
SerialFlushError ==
    /\ adapter = "serial"
    /\ pc = "flush" /\ pending # <<>> /\ link = "broken"
    /\ pc' = "recv"
    /\ UNCHANGED <<user, io_state, fd, pending, held, sending, link, historyVars>>

FlushDone ==
    /\ pc = "flush" /\ pending = <<>>
    /\ pc' = "recv"
    /\ UNCHANGED <<user, io_state, fd, pending, held, sending, link, historyVars>>

-----------------------------------------------------------------------------
(***************************************************************************)
(* dowork: then what the peer sent                                         *)
(***************************************************************************)
\* The adapter is not open any more, nothing is there, or on_bytes_received gets
\* what is there.
Receive ==
    /\ pc = "recv"
    /\ pc' = "idle"
    /\ UNCHANGED <<user, io_state, fd, pending, held, sending, link, historyVars>>

\* The peer has closed the connection or reading fails: the owner is told, and the
\* state stays OPEN unless the owner closes the adapter.
ReceiveError ==
    /\ pc = "recv"
    /\ io_state = "OPEN" /\ link = "broken"
    /\ pc' = "idle"
    /\ IndicateError("OPEN", pending)
    /\ Lost(IF owner = "umqtt" THEN pending ELSE <<>>)
    /\ ClosingUnderSend
    /\ UNCHANGED <<user, held, sending, link, size, wire, resent>>

SocketReceive == adapter = "socket" /\ (Receive \/ ReceiveError)
SerialReceive == adapter = "serial" /\ (Receive \/ ReceiveError)

-----------------------------------------------------------------------------
Init ==
    /\ user \in Users
    /\ io_state = "CLOSED"
    /\ fd = "none"
    /\ pending = <<>>
    /\ held = TRUE
    /\ sending = [t \in Threads |-> Nothing]
    /\ pc = "idle"
    /\ link = "up"
    /\ size = <<>>
    /\ outcome = <<>>
    /\ wire = <<>>
    /\ overlapped = FALSE
    /\ resent = FALSE

\* The peer resets the connection, or the line is unplugged.
LinkBreaks ==
    /\ fd = "open" /\ link = "up"
    /\ link' = "broken"
    /\ UNCHANGED <<user, adapterVars, sending, historyVars>>

Dowork ==
    \/ DoworkBegin \/ SocketFlushWhole \/ SerialFlushWhole
    \/ \E n \in Sizes : \E k \in 1 .. (n - 1) : SocketFlushPart(k) \/ SerialFlushPart(k)
    \/ SocketFlushAgain \/ SocketFlushError \/ SerialFlushError \/ FlushDone
    \/ SocketReceive \/ SerialReceive

Calls ==
    \/ SocketOpen \/ SerialOpen \/ SocketClose \/ LetGo
    \/ SocketDestroyCreate \/ SerialDestroyCreate
    \/ \E t \in Senders, n \in Sizes : SocketSend(t, n) \/ SerialSend(t, n)

Queueing == \E t \in Threads : SocketAddPendingIo(t) \/ SerialAddPendingIo(t)

Next == Dowork \/ Calls \/ Queueing \/ LinkBreaks

Spec == Init /\ [][Next]_vars

\* The owner calls dowork again and again, a thread inside send gets on, and a
\* socket that keeps being asked takes some bytes at last.
FairSpec ==
    /\ Spec
    /\ WF_vars(Dowork) /\ WF_vars(Queueing)
    /\ SF_vars(SocketFlushWhole)

-----------------------------------------------------------------------------
\* The wire holds whole messages one behind the other, only the last of which may
\* be cut: a peer that reads packets never loses its place.
Framed ==
    \A i \in DOMAIN wire :
        \/ wire[i][2] = 1 /\ (i = 1 \/ wire[i - 1][2] = size[wire[i - 1][1]])
        \/ i > 1 /\ wire[i - 1] = <<wire[i][1], wire[i][2] - 1>>

\* Partial writes, full buffers, errors and new connections never tear a message or
\* mix two of them, as long as no two threads are inside send at once and the
\* serial line takes a queued message in one piece.
WireIsFramed == ~overlapped /\ ~resent => Framed

QueuedBytes(m) ==
    \/ \E i \in DOMAIN pending : MessageOf(pending[i]) = m
    \/ \E t \in Threads : sending[t] # Nothing /\ MessageOf(sending[t]) = m

\* on_send_complete is called for a message only when its last byte is written, and
\* never before the bytes of an older message are: a message that still has bytes
\* queued is not complete, and neither is a younger one.
CompletedIsWritten ==
    ~overlapped =>
        \A m \in DOMAIN outcome :
            QueuedBytes(m) => \A n \in m .. Len(outcome) : outcome[n] # "complete"

\* A connection begins without bytes of the one before it: nothing is queued on
\* an adapter that is not open.
NewConnectionIsClean == ~overlapped /\ fd = "none" => pending = <<>>

T == INSTANCE MessageTransport

\* As long as no two calls get in each other's way, both adapters are such a transport:
\* every message is done with once, the accepted ones in the order they were sent in,
\* whoever sends, whatever fails and whenever the owner closes.
ImplementsTransport == T!Spec

Waits(m) == m \in DOMAIN outcome /\ outcome[m] = "accepted"

\* A message accepted for a socket does not stay queued for ever: it is written, or
\* the owner learns of an error, closes, or stops calling dowork.
QueuedIsSettled ==
    \A m \in 1 .. MaxSends :
        (adapter = "socket" /\ Waits(m)) ~> (~Waits(m) \/ io_state # "OPEN" \/ ~held)

=============================================================================
