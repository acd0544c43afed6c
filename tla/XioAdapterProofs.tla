-------------------------- MODULE XioAdapterProofs --------------------------
(***************************************************************************)
(* Theorems about the two transports, for any number of threads and        *)
(* messages and any message sizes.  The proof follows the line of messages *)
(* that wait: those queued and, behind them, the rest that the one thread  *)
(* inside send is about to queue.  add_pending_io leaves the line as it    *)
(* is, a send adds to its end, dowork works on its front.                  *)
(* What the line holds is what MessageTransport says is waiting.           *)
(***************************************************************************)
EXTENDS XioAdapter, SequenceTheorems, TLAPS

\* Byte i of message m is <<m, i>>.
Byte == Nat \X Nat

\* The message and the place in it of the first of some bytes.
Msg(b) == b[1][1]
From(b) == b[1][2]

\* Some bytes of one message, in whatever order.
OneMessage(b) ==
    /\ b \in Seq(Byte) /\ b # <<>>
    /\ \A i \in 1 .. Len(b) : b[i][1] = Msg(b)

\* The bytes of a new message.
LEMMA BytesAreOne ==
    ASSUME NEW m \in Nat, NEW n \in Nat \ {0}
    PROVE  /\ Bytes(m, n) \in Seq(Byte) /\ Len(Bytes(m, n)) = n
           /\ \A i \in 1 .. n : Bytes(m, n)[i] = <<m, i>>
           /\ OneMessage(Bytes(m, n)) /\ Msg(Bytes(m, n)) = m
<1>1. Bytes(m, n) \in [1 .. n -> Byte]
  BY DEF Bytes, Byte
<1>2. Bytes(m, n) \in Seq(Byte) /\ Len(Bytes(m, n)) = n
  BY <1>1
<1>3. \A i \in 1 .. n : Bytes(m, n)[i] = <<m, i>>
  BY DEF Bytes
<1>4. \A i \in 1 .. n : Bytes(m, n)[i][1] = m
  BY <1>3
<1> QED  BY <1>2, <1>3, <1>4 DEF OneMessage, Msg

\* What is left when k bytes have been written.
LEMMA RestOf ==
    ASSUME NEW b \in Seq(Byte), NEW k \in Nat, k < Len(b)
    PROVE  /\ Rest(b, k) \in Seq(Byte) /\ Len(Rest(b, k)) = Len(b) - k
           /\ \A i \in 1 .. (Len(b) - k) : Rest(b, k)[i] = b[k + i]
<1>1. k + 1 \in 1 .. Len(b) /\ Len(b) \in 1 .. Len(b)
  OBVIOUS
<1>2. /\ SubSeq(b, k + 1, Len(b)) \in Seq(Byte)
      /\ Len(SubSeq(b, k + 1, Len(b))) = Len(b) - k
      /\ \A i \in 1 .. (Len(b) - k) : SubSeq(b, k + 1, Len(b))[i] = b[k + i]
  BY <1>1
<1> QED  BY <1>2 DEF Rest

\* The k bytes that are written.
LEMMA FirstOf ==
    ASSUME NEW b \in Seq(Byte), NEW k \in Nat, k < Len(b)
    PROVE  /\ SubSeq(b, 1, k) \in Seq(Byte) /\ Len(SubSeq(b, 1, k)) = k
           /\ \A i \in 1 .. k : SubSeq(b, 1, k)[i] = b[i]
  OBVIOUS

\* What a partial write leaves is of the same message.
LEMMA RestIsOne ==
    ASSUME NEW b, OneMessage(b), NEW k \in Nat, k < Len(b)
    PROVE  OneMessage(Rest(b, k)) /\ Msg(Rest(b, k)) = Msg(b)
<1>1. b \in Seq(Byte) /\ \A i \in 1 .. Len(b) : b[i][1] = Msg(b)
  BY DEF OneMessage
<1>2. /\ Rest(b, k) \in Seq(Byte) /\ Len(Rest(b, k)) = Len(b) - k
      /\ \A i \in 1 .. (Len(b) - k) : Rest(b, k)[i] = b[k + i]
  BY <1>1, RestOf
<1>3. \A i \in 1 .. (Len(b) - k) : Rest(b, k)[i][1] = Msg(b)
  BY <1>1, <1>2
<1>4. Len(b) - k >= 1 /\ 1 \in 1 .. (Len(b) - k)
  BY <1>1
<1>5. Msg(Rest(b, k)) = Msg(b)
  BY <1>3, <1>4 DEF Msg
<1> QED  BY <1>2, <1>3, <1>4, <1>5 DEF OneMessage

\* The bytes serialio_dowork leaves after a partial write are still of one message.
LEMMA ShiftedIsOne ==
    ASSUME NEW b, OneMessage(b), NEW k \in Nat \ {0}, k < Len(b)
    PROVE  /\ OneMessage(Rest(b, k) \o Rest(b, Len(b) - k))
           /\ Msg(Rest(b, k) \o Rest(b, Len(b) - k)) = Msg(b)
<1>1. Len(b) \in Nat /\ Len(b) - k \in Nat /\ Len(b) - k < Len(b)
  BY DEF OneMessage
<1> DEFINE c == Rest(b, k)  d == Rest(b, Len(b) - k)
<1>2. OneMessage(c) /\ Msg(c) = Msg(b)
  BY RestIsOne
<1>3. OneMessage(d) /\ Msg(d) = Msg(b)
  BY <1>1, RestIsOne
<1> HIDE DEF c, d
<1>4. /\ c \in Seq(Byte) /\ d \in Seq(Byte) /\ c # <<>>
      /\ Len(c) \in Nat /\ Len(d) \in Nat /\ Len(c) # 0
  BY <1>2, <1>3 DEF OneMessage
<1>5. /\ c \o d \in Seq(Byte) /\ Len(c \o d) = Len(c) + Len(d)
      /\ \A i \in 1 .. Len(c) + Len(d) : (c \o d)[i] = IF i <= Len(c) THEN c[i] ELSE d[i - Len(c)]
  BY <1>4, ConcatProperties
<1>6. \A i \in 1 .. Len(c) + Len(d) : (c \o d)[i][1] = Msg(b)
  <2> SUFFICES ASSUME NEW i \in 1 .. Len(c) + Len(d)
               PROVE  (c \o d)[i][1] = Msg(b)
    OBVIOUS
  <2>1. CASE i <= Len(c)
    BY <2>1, <1>2, <1>4, <1>5 DEF OneMessage
  <2>2. CASE i > Len(c)
    <3>1. i - Len(c) \in 1 .. Len(d)
      BY <2>2, <1>4
    <3>2. d[i - Len(c)][1] = Msg(b)
      BY <3>1, <1>3 DEF OneMessage
    <3> QED  BY <3>2, <2>2, <1>4, <1>5
  <2> QED  BY <2>1, <2>2, <1>4
<1>7. 1 \in 1 .. Len(c) + Len(d)
  BY <1>4
<1>8. Msg(c \o d) = Msg(b)
  BY <1>6, <1>7 DEF Msg
<1>9. c \o d # <<>>
  BY <1>4, <1>5
<1>10. OneMessage(c \o d)
  BY <1>5, <1>6, <1>8, <1>9 DEF OneMessage
<1> QED  BY <1>8, <1>10 DEF c, d

-----------------------------------------------------------------------------
(***************************************************************************)
(* The messages that wait                                                  *)
(***************************************************************************)
Outcomes == {"accepted", "complete", "dropped", "failed"}

\* on_send_complete has been called neither for message m nor for a younger one.
NotDone(o, m) == \A n \in m .. Len(o) : o[n] # "complete"

\* Messages that wait in the order they were sent in, none of them completed.
QueueOk(q, o) ==
    /\ q \in Seq(Seq(Byte))
    /\ \A i \in 1 .. Len(q) :
          OneMessage(q[i]) /\ Msg(q[i]) \in 1 .. Len(o) /\ NotDone(o, Msg(q[i]))
    /\ \A i, j \in 1 .. Len(q) : i < j => Msg(q[i]) < Msg(q[j])

\* A queue without its first entry.
LEMMA TailOf ==
    ASSUME NEW S, NEW q \in Seq(S), q # <<>>
    PROVE  /\ Len(q) \in Nat \ {0} /\ Head(q) = q[1] /\ q[1] \in S
           /\ Tail(q) \in Seq(S) /\ Len(Tail(q)) = Len(q) - 1
           /\ \A i \in 1 .. (Len(q) - 1) : Tail(q)[i] = q[i + 1]
  OBVIOUS

\* A queue with another first entry.
LEMMA HeadReplaced ==
    ASSUME NEW S, NEW q \in Seq(S), q # <<>>, NEW b \in S
    PROVE  /\ <<b>> \o Tail(q) \in Seq(S) /\ Len(<<b>> \o Tail(q)) = Len(q)
           /\ (<<b>> \o Tail(q))[1] = b
           /\ \A i \in 2 .. Len(q) : (<<b>> \o Tail(q))[i] = q[i]
<1>1. /\ Len(q) \in Nat \ {0} /\ Tail(q) \in Seq(S) /\ Len(Tail(q)) = Len(q) - 1
      /\ \A i \in 1 .. (Len(q) - 1) : Tail(q)[i] = q[i + 1]
  BY TailOf
<1>2. <<b>> \in Seq(S) /\ Len(<<b>>) = 1 /\ <<b>>[1] = b
  OBVIOUS
<1> DEFINE c == <<b>>  d == Tail(q)
<1>3. c \in Seq(S) /\ d \in Seq(S)
  BY <1>1, <1>2
<1>4. /\ c \o d \in Seq(S) /\ Len(c \o d) = Len(c) + Len(d)
      /\ \A i \in 1 .. Len(c) + Len(d) : (c \o d)[i] = IF i <= Len(c) THEN c[i] ELSE d[i - Len(c)]
  <2> HIDE DEF c, d
  <2> QED  BY <1>3, ConcatProperties
<1>5. Len(c \o d) = Len(q)
  BY <1>1, <1>2, <1>4
<1>6. (c \o d)[1] = b
  BY <1>1, <1>2, <1>4
<1>7. ASSUME NEW i \in 2 .. Len(q)  PROVE (c \o d)[i] = q[i]
  <2>1. /\ i - 1 \in 1 .. (Len(q) - 1) /\ (i - 1) + 1 = i
        /\ i \in 1 .. Len(c) + Len(d) /\ ~(i <= Len(c))
    BY <1>1, <1>2
  <2>2. d[i - 1] = q[(i - 1) + 1]
    BY <2>1, <1>1
  <2>3. (c \o d)[i] = d[i - Len(c)]
    BY <2>1, <1>4
  <2> QED  BY <2>1, <2>2, <2>3, <1>2
<1> QED  BY <1>4, <1>5, <1>6, <1>7

\* Nothing waits.
LEMMA QueueEmpty == ASSUME NEW o PROVE QueueOk(<<>>, o)
  BY DEF QueueOk

\* Outcomes may change as long as nothing is completed.
LEMMA QueueOutcome ==
    ASSUME NEW q, NEW o, NEW p, QueueOk(q, o), Len(o) \in Nat, Len(p) \in Nat, Len(o) <= Len(p),
           \A n \in 1 .. Len(p) : p[n] = "complete" => n <= Len(o) /\ o[n] = "complete"
    PROVE  QueueOk(q, p)
<1> SUFFICES ASSUME NEW i \in 1 .. Len(q)
             PROVE  Msg(q[i]) \in 1 .. Len(p) /\ NotDone(p, Msg(q[i]))
  BY DEF QueueOk
<1>1. Msg(q[i]) \in 1 .. Len(o) /\ NotDone(o, Msg(q[i]))
  BY DEF QueueOk
<1> QED  BY <1>1 DEF NotDone

\* The first message goes.
LEMMA QueueTail ==
    ASSUME NEW q, NEW o, QueueOk(q, o), q # <<>>
    PROVE  QueueOk(Tail(q), o)
<1>1. /\ q \in Seq(Seq(Byte))
      /\ Len(q) \in Nat \ {0}
      /\ Tail(q) \in Seq(Seq(Byte)) /\ Len(Tail(q)) = Len(q) - 1
      /\ \A i \in 1 .. (Len(q) - 1) : Tail(q)[i] = q[i + 1]
  BY TailOf DEF QueueOk
<1>2. ASSUME NEW i \in 1 .. Len(Tail(q))
      PROVE  /\ OneMessage(Tail(q)[i]) /\ Msg(Tail(q)[i]) \in 1 .. Len(o)
             /\ NotDone(o, Msg(Tail(q)[i]))
  <2>1. i + 1 \in 1 .. Len(q) /\ Tail(q)[i] = q[i + 1]
    BY <1>1
  <2> QED  BY <2>1 DEF QueueOk
<1>3. ASSUME NEW i \in 1 .. Len(Tail(q)), NEW j \in 1 .. Len(Tail(q)), i < j
      PROVE  Msg(Tail(q)[i]) < Msg(Tail(q)[j])
  <2>1. i + 1 \in 1 .. Len(q) /\ Tail(q)[i] = q[i + 1]
    BY <1>1
  <2>2. j + 1 \in 1 .. Len(q) /\ Tail(q)[j] = q[j + 1] /\ i + 1 < j + 1
    BY <1>1, <1>3
  <2> QED  BY <2>1, <2>2 DEF QueueOk
<1> QED  BY <1>1, <1>2, <1>3 DEF QueueOk

\* The first message is completed and goes: those behind it are younger.
LEMMA QueueCompleted ==
    ASSUME NEW q, NEW o \in Seq(Outcomes), QueueOk(q, o), q # <<>>
    PROVE  QueueOk(Tail(q), [o EXCEPT ![Msg(q[1])] = "complete"])
<1> DEFINE p == [o EXCEPT ![Msg(q[1])] = "complete"]
<1>1. /\ q \in Seq(Seq(Byte))
      /\ Len(q) \in Nat \ {0}
      /\ Len(Tail(q)) = Len(q) - 1
      /\ \A i \in 1 .. (Len(q) - 1) : Tail(q)[i] = q[i + 1]
  BY TailOf DEF QueueOk
<1>2. Msg(q[1]) \in 1 .. Len(o)
  BY <1>1 DEF QueueOk
<1>3. p \in Seq(Outcomes) /\ Len(p) = Len(o)
  <2>1. \A e \in Outcomes, i \in 1 .. Len(o) :
           [o EXCEPT ![i] = e] \in Seq(Outcomes) /\ Len([o EXCEPT ![i] = e]) = Len(o)
    BY ExceptSeq
  <2>2. "complete" \in Outcomes
    BY DEF Outcomes
  <2> QED  BY <1>2, <2>1, <2>2, Zenon
<1>4. \A n \in 1 .. Len(o) : n # Msg(q[1]) => p[n] = o[n]
  OBVIOUS
<1>5. QueueOk(Tail(q), o)
  BY QueueTail
<1> HIDE DEF p
<1>6. ASSUME NEW i \in 1 .. Len(Tail(q))
      PROVE  Msg(Tail(q)[i]) \in 1 .. Len(p) /\ NotDone(p, Msg(Tail(q)[i]))
  <2>1. i + 1 \in 1 .. Len(q) /\ 1 \in 1 .. Len(q) /\ Tail(q)[i] = q[i + 1] /\ 1 < i + 1
    BY <1>1
  <2>2. Msg(q[1]) < Msg(Tail(q)[i])
    BY <2>1 DEF QueueOk
  <2>3. Msg(Tail(q)[i]) \in 1 .. Len(o) /\ NotDone(o, Msg(Tail(q)[i]))
    BY <1>5 DEF QueueOk
  <2> QED  BY <2>2, <2>3, <1>2, <1>3, <1>4 DEF NotDone
<1>7. QueueOk(Tail(q), p)
  BY <1>5, <1>6 DEF QueueOk
<1> QED  BY <1>7 DEF p

\* The first message keeps some of its bytes.
LEMMA QueueHead ==
    ASSUME NEW q, NEW o, QueueOk(q, o), q # <<>>,
           NEW b, OneMessage(b), Msg(b) = Msg(q[1])
    PROVE  QueueOk(<<b>> \o Tail(q), o)
<1> DEFINE r == <<b>> \o Tail(q)
<1>1. q \in Seq(Seq(Byte)) /\ b \in Seq(Byte)
  BY DEF QueueOk, OneMessage
<1>2. /\ r \in Seq(Seq(Byte)) /\ Len(r) = Len(q) /\ r[1] = b
      /\ \A i \in 2 .. Len(q) : r[i] = q[i]
  BY <1>1, HeadReplaced
<1> HIDE DEF r
<1>3. ASSUME NEW i \in 1 .. Len(q)
      PROVE  OneMessage(r[i]) /\ Msg(r[i]) = Msg(q[i])
  <2>1. CASE i = 1
    BY <2>1, <1>2
  <2>2. CASE i # 1
    BY <2>2, <1>1, <1>2 DEF QueueOk
  <2> QED  BY <2>1, <2>2
<1>4. QueueOk(r, o)
  BY <1>2, <1>3 DEF QueueOk
<1> QED  BY <1>4 DEF r

\* A new message goes to the end.
LEMMA QueueNew ==
    ASSUME NEW q, NEW o \in Seq(Outcomes), QueueOk(q, o),
           NEW result \in Outcomes, result # "complete",
           NEW b, OneMessage(b), Msg(b) = Len(o) + 1
    PROVE  QueueOk(Append(q, b), Append(o, result))
<1> DEFINE r == Append(q, b)  p == Append(o, result)
<1>1. q \in Seq(Seq(Byte)) /\ b \in Seq(Byte) /\ Len(q) \in Nat /\ Len(o) \in Nat
  BY DEF QueueOk, OneMessage
<1>2. /\ r \in Seq(Seq(Byte)) /\ Len(r) = Len(q) + 1 /\ r[Len(q) + 1] = b
      /\ \A i \in 1 .. Len(q) : r[i] = q[i]
  BY <1>1, AppendProperties
<1>3. /\ Len(p) = Len(o) + 1 /\ p[Len(o) + 1] = result
      /\ \A i \in 1 .. Len(o) : p[i] = o[i]
  BY AppendProperties
<1> HIDE DEF r, p
<1>4. QueueOk(q, p)
  <2>1. \A n \in 1 .. Len(p) : p[n] = "complete" => n <= Len(o) /\ o[n] = "complete"
    BY <1>1, <1>3
  <2> QED  BY <2>1, <1>1, <1>3, QueueOutcome
<1>5. NotDone(p, Len(o) + 1) /\ Len(o) + 1 \in 1 .. Len(p)
  BY <1>1, <1>3 DEF NotDone
<1>6. ASSUME NEW i \in 1 .. Len(r)
      PROVE  OneMessage(r[i]) /\ Msg(r[i]) \in 1 .. Len(p) /\ NotDone(p, Msg(r[i]))
  <2>1. CASE i = Len(q) + 1
    BY <2>1, <1>2, <1>5
  <2>2. CASE i # Len(q) + 1
    <3>1. i \in 1 .. Len(q)
      BY <2>2, <1>1, <1>2
    <3>2. r[i] = q[i]
      BY <3>1, <1>2, Zenon
    <3> QED  BY <3>1, <3>2, <1>4 DEF QueueOk
  <2> QED  BY <2>1, <2>2
<1>7. ASSUME NEW i \in 1 .. Len(r), NEW j \in 1 .. Len(r), i < j
      PROVE  Msg(r[i]) < Msg(r[j])
  <2>00. i \in 1 .. Len(q)
    BY <1>1, <1>2, <1>7
  <2>0. i \in 1 .. Len(q) /\ r[i] = q[i]
    BY <2>00, <1>2, Zenon
  <2>1. CASE j = Len(q) + 1
    <3>1. Msg(q[i]) \in 1 .. Len(o)
      BY <2>0 DEF QueueOk
    <3>2. Msg(q[i]) < Len(o) + 1
      BY <3>1, <1>1
    <3> QED  BY <2>0, <2>1, <3>2, <1>2
  <2>2. CASE j # Len(q) + 1
    <3>1. j \in 1 .. Len(q)
      BY <2>2, <1>1, <1>2
    <3>2. r[j] = q[j]
      BY <3>1, <1>2, Zenon
    <3> QED  BY <2>0, <3>1, <3>2, <1>7 DEF QueueOk
  <2> QED  BY <2>1, <2>2
<1>8. QueueOk(r, p)
  BY <1>2, <1>6, <1>7 DEF QueueOk
<1> QED  BY <1>8 DEF r, p

-----------------------------------------------------------------------------
(***************************************************************************)
(* The bytes on the wire                                                   *)
(***************************************************************************)
\* Consecutive bytes of one message.
Run(b) ==
    /\ b \in Seq(Byte) /\ b # <<>>
    /\ \A i \in 1 .. Len(b) : b[i] = <<Msg(b), From(b) + i - 1>>

\* Framed, of any wire and sizes.
FramedIn(w, sizes) ==
    \A i \in DOMAIN w :
        \/ w[i][2] = 1 /\ (i = 1 \/ w[i - 1][2] = sizes[w[i - 1][1]])
        \/ i > 1 /\ w[i - 1] = <<w[i][1], w[i][2] - 1>>

\* The last message on the wire is whole.
WholeEnd(w, sizes) == w = <<>> \/ w[Len(w)][2] = sizes[w[Len(w)][1]]

\* The bytes b may follow: they begin a message, or go on where the wire stops.
Continues(w, sizes, b) ==
    \/ From(b) = 1 /\ WholeEnd(w, sizes)
    \/ From(b) > 1 /\ w # <<>> /\ w[Len(w)] = <<Msg(b), From(b) - 1>>

\* The wire holds bytes of messages that were sent, and is framed.
WireOk(w, sizes) ==
    /\ w \in Seq(Byte)
    /\ \A i \in 1 .. Len(w) : w[i][1] \in 1 .. Len(sizes)
    /\ FramedIn(w, sizes)

\* Consecutive bytes are of one message.
LEMMA RunTypes ==
    ASSUME NEW b, Run(b)
    PROVE  /\ Len(b) \in Nat \ {0} /\ Msg(b) \in Nat /\ From(b) \in Nat
           /\ OneMessage(b)
<1>1. b \in Seq(Byte) /\ Len(b) \in Nat \ {0}
  BY DEF Run
<1>2. b[1] \in Byte
  BY <1>1
<1>3. Msg(b) \in Nat /\ From(b) \in Nat
  BY <1>2 DEF Byte, Msg, From
<1>4. \A i \in 1 .. Len(b) : b[i][1] = Msg(b)
  <2> SUFFICES ASSUME NEW i \in 1 .. Len(b)  PROVE b[i][1] = Msg(b)
    OBVIOUS
  <2>1. b[i] = <<Msg(b), From(b) + i - 1>>
    BY DEF Run
  <2> QED  BY <2>1
<1> QED  BY <1>1, <1>3, <1>4 DEF OneMessage, Run

\* Bytes b of one message written behind those on the wire.
LEMMA WriteRun ==
    ASSUME NEW w, NEW sizes, NEW b, WireOk(w, sizes), Run(b), From(b) >= 1,
           Msg(b) \in 1 .. Len(sizes), Continues(w, sizes, b)
    PROVE  /\ WireOk(w \o b, sizes)
           /\ w \o b # <<>>
           /\ (w \o b)[Len(w \o b)] = <<Msg(b), From(b) + Len(b) - 1>>
<1>1. /\ w \in Seq(Byte) /\ b \in Seq(Byte)
      /\ Len(w) \in Nat /\ Len(b) \in Nat \ {0} /\ Msg(b) \in Nat /\ From(b) \in Nat
  BY RunTypes DEF WireOk, Run
<1> DEFINE v == w \o b
<1>2. /\ v \in Seq(Byte) /\ Len(v) = Len(w) + Len(b)
      /\ \A i \in 1 .. Len(w) + Len(b) : v[i] = IF i <= Len(w) THEN w[i] ELSE b[i - Len(w)]
  BY <1>1, ConcatProperties
<1> HIDE DEF v
<1>3. \A i \in 1 .. Len(w) : v[i] = w[i]
  BY <1>1, <1>2
<1>4. ASSUME NEW j \in 1 .. Len(b)
      PROVE  v[Len(w) + j] = <<Msg(b), From(b) + j - 1>>
  <2>1. Len(w) + j \in 1 .. Len(w) + Len(b) /\ ~(Len(w) + j <= Len(w)) /\ (Len(w) + j) - Len(w) = j
    BY <1>1
  <2>2. v[Len(w) + j] = b[(Len(w) + j) - Len(w)]
    BY <1>2, <2>1
  <2>3. v[Len(w) + j] = b[j]
    BY <2>1, <2>2
  <2> QED  BY <2>3 DEF Run
<1>5. ASSUME NEW i \in 1 .. Len(v), i > Len(w)
      PROVE  i - Len(w) \in 1 .. Len(b) /\ v[i] = <<Msg(b), From(b) + (i - Len(w)) - 1>>
  <2>1. i - Len(w) \in 1 .. Len(b) /\ Len(w) + (i - Len(w)) = i
    BY <1>1, <1>2, <1>5
  <2>2. v[Len(w) + (i - Len(w))] = <<Msg(b), From(b) + (i - Len(w)) - 1>>
    BY <2>1, <1>4
  <2> QED  BY <2>1, <2>2
<1>6. \A i \in 1 .. Len(v) : v[i][1] \in 1 .. Len(sizes)
  <2> SUFFICES ASSUME NEW i \in 1 .. Len(v)  PROVE v[i][1] \in 1 .. Len(sizes)
    OBVIOUS
  <2>1. CASE i > Len(w)
    BY <1>5, <2>1
  <2>2. CASE ~(i > Len(w))
    <3>1. i \in 1 .. Len(w)
      BY <1>1, <1>2, <2>2
    <3> QED  BY <1>3, <3>1 DEF WireOk
  <2> QED  BY <2>1, <2>2
<1>7. FramedIn(v, sizes)
  <2> SUFFICES ASSUME NEW i \in 1 .. Len(v)
               PROVE  \/ v[i][2] = 1 /\ (i = 1 \/ v[i - 1][2] = sizes[v[i - 1][1]])
                      \/ i > 1 /\ v[i - 1] = <<v[i][1], v[i][2] - 1>>
    BY <1>2 DEF FramedIn
  <2>1. CASE i <= Len(w)
    <3>1. i \in 1 .. Len(w) /\ DOMAIN w = 1 .. Len(w)
      BY <1>1, <2>1
    <3>2. \/ w[i][2] = 1 /\ (i = 1 \/ w[i - 1][2] = sizes[w[i - 1][1]])
          \/ i > 1 /\ w[i - 1] = <<w[i][1], w[i][2] - 1>>
      BY <3>1 DEF WireOk, FramedIn
    <3>3. v[i] = w[i] /\ (i = 1 \/ v[i - 1] = w[i - 1])
      BY <1>1, <1>3, <3>1
    <3> QED  BY <3>2, <3>3
  <2>2. CASE i = Len(w) + 1
    <3>1. v[i] = <<Msg(b), From(b)>>
      <4>1. From(b) + (i - Len(w)) - 1 = From(b) /\ i > Len(w)
        BY <1>1, <2>2
      <4> QED  BY <1>5, <4>1
    <3>2. v[i][1] = Msg(b) /\ v[i][2] = From(b)
      BY <3>1
    <3>3. CASE w = <<>>
      <4>1. From(b) = 1 /\ i = 1
        BY <3>3, <2>2, <1>1 DEF Continues
      <4> QED  BY <3>2, <4>1
    <3>4. CASE w # <<>>
      <4>1. i - 1 = Len(w) /\ Len(w) \in 1 .. Len(w) /\ i > 1
        BY <1>1, <2>2, <3>4
      <4>2. v[i - 1] = w[Len(w)]
        BY <4>1, <1>3
      <4>3. CASE From(b) = 1
        BY <3>2, <3>4, <4>2, <4>3 DEF Continues, WholeEnd
      <4>4. CASE From(b) # 1
        BY <3>2, <4>1, <4>2, <4>4 DEF Continues
      <4> QED  BY <4>3, <4>4
    <3> QED  BY <3>3, <3>4
  <2>3. CASE i > Len(w) + 1
    <3>1. i > Len(w) /\ i - 1 > Len(w) /\ i - 1 \in 1 .. Len(v) /\ i > 1
      BY <1>1, <1>2, <2>3
    <3>2. v[i] = <<Msg(b), From(b) + (i - Len(w)) - 1>>
      BY <3>1, <1>5
    <3>3. v[i - 1] = <<Msg(b), From(b) + ((i - 1) - Len(w)) - 1>>
      BY <3>1, <1>5
    <3>4. v[i][1] = Msg(b) /\ v[i][2] = From(b) + (i - Len(w)) - 1
      BY <3>2
    <3>5. From(b) + ((i - 1) - Len(w)) - 1 = (From(b) + (i - Len(w)) - 1) - 1
      BY <1>1
    <3> QED  BY <3>1, <3>3, <3>4, <3>5
  <2> QED  BY <1>1, <1>2, <2>1, <2>2, <2>3
<1>8. v # <<>> /\ v[Len(v)] = <<Msg(b), From(b) + Len(b) - 1>>
  <2>1. Len(v) \in 1 .. Len(v) /\ Len(v) > Len(w) /\ Len(v) - Len(w) = Len(b) /\ Len(v) # 0
    BY <1>1, <1>2
  <2>2. v[Len(v)] = <<Msg(b), From(b) + (Len(v) - Len(w)) - 1>>
    BY <1>5, <2>1
  <2> QED  BY <2>1, <2>2
<1>9. WireOk(v, sizes)
  BY <1>2, <1>6, <1>7 DEF WireOk
<1> QED  BY <1>8, <1>9 DEF v

\* A partial write cuts consecutive bytes in two.
LEMMA RunCut ==
    ASSUME NEW b, Run(b), NEW k \in Nat \ {0}, k < Len(b)
    PROVE  LET c == SubSeq(b, 1, k)  d == Rest(b, k)
           IN  /\ Run(c) /\ Len(c) = k /\ Msg(c) = Msg(b) /\ From(c) = From(b)
               /\ Run(d) /\ Len(d) = Len(b) - k /\ Msg(d) = Msg(b) /\ From(d) = From(b) + k
<1> DEFINE c == SubSeq(b, 1, k)  d == Rest(b, k)
<1>1. /\ b \in Seq(Byte) /\ Len(b) \in Nat \ {0} /\ Msg(b) \in Nat /\ From(b) \in Nat
      /\ \A i \in 1 .. Len(b) : b[i] = <<Msg(b), From(b) + i - 1>>
  BY RunTypes DEF Run
<1>2. c \in Seq(Byte) /\ Len(c) = k /\ \A i \in 1 .. k : c[i] = b[i]
  BY <1>1, FirstOf
<1>3. d \in Seq(Byte) /\ Len(d) = Len(b) - k /\ \A i \in 1 .. (Len(b) - k) : d[i] = b[k + i]
  BY <1>1, RestOf
<1> HIDE DEF c, d
<1>4. ASSUME NEW i \in 1 .. k  PROVE c[i] = <<Msg(b), From(b) + i - 1>>
  <2>1. i \in 1 .. Len(b)
    BY <1>1
  <2> QED  BY <1>1, <1>2, <2>1, Zenon
<1>5. ASSUME NEW i \in 1 .. (Len(b) - k)  PROVE d[i] = <<Msg(b), (From(b) + k) + i - 1>>
  <2>1. k + i \in 1 .. Len(b) /\ From(b) + (k + i) - 1 = (From(b) + k) + i - 1
    BY <1>1
  <2>2. b[k + i] = <<Msg(b), From(b) + (k + i) - 1>>
    BY <1>1, <2>1
  <2> QED  BY <1>3, <2>1, <2>2
<1>6. Msg(c) = Msg(b) /\ From(c) = From(b)
  <2>1. c[1] = <<Msg(b), From(b)>>
    BY <1>1, <1>4
  <2> QED  BY <2>1 DEF Msg, From
<1>7. Msg(d) = Msg(b) /\ From(d) = From(b) + k
  <2>1. 1 \in 1 .. (Len(b) - k) /\ (From(b) + k) + 1 - 1 = From(b) + k
    BY <1>1
  <2>2. d[1] = <<Msg(b), From(b) + k>>
    BY <1>5, <2>1
  <2> QED  BY <2>2 DEF Msg, From
<1>8. Run(c)
  BY <1>2, <1>4, <1>6 DEF Run
<1>9. Run(d)
  BY <1>1, <1>3, <1>5, <1>7 DEF Run
<1> QED  BY <1>2, <1>3, <1>6, <1>7, <1>8, <1>9 DEF c, d

\* A new message is consecutive from its first byte on.
LEMMA BytesRun ==
    ASSUME NEW m \in Nat, NEW n \in Nat \ {0}
    PROVE  /\ Run(Bytes(m, n)) /\ Len(Bytes(m, n)) = n
           /\ Msg(Bytes(m, n)) = m /\ From(Bytes(m, n)) = 1
<1> DEFINE b == Bytes(m, n)
<1>1. b \in Seq(Byte) /\ Len(b) = n /\ Msg(b) = m /\ \A i \in 1 .. n : b[i] = <<m, i>>
  BY BytesAreOne
<1> HIDE DEF b
<1>2. From(b) = 1
  BY <1>1 DEF From
<1>3. \A i \in 1 .. n : b[i] = <<Msg(b), From(b) + i - 1>>
  <2> SUFFICES ASSUME NEW i \in 1 .. n  PROVE b[i] = <<Msg(b), From(b) + i - 1>>
    OBVIOUS
  <2>1. From(b) + i - 1 = i
    BY <1>2
  <2> QED  BY <1>1, <2>1
<1>4. Run(b)
  BY <1>1, <1>3 DEF Run
<1> QED  BY <1>1, <1>2, <1>4 DEF b

\* A new message does not change what is said of the older ones.
LEMMA WireGrown ==
    ASSUME NEW w, NEW sizes \in Seq(Nat), WireOk(w, sizes), NEW n \in Nat
    PROVE  /\ WireOk(w, Append(sizes, n))
           /\ WholeEnd(w, sizes) => WholeEnd(w, Append(sizes, n))
<1> DEFINE s == Append(sizes, n)
<1>1. Len(sizes) \in Nat /\ Len(s) = Len(sizes) + 1 /\ \A m \in 1 .. Len(sizes) : s[m] = sizes[m]
  BY AppendProperties
<1> HIDE DEF s
<1>2. w \in Seq(Byte) /\ Len(w) \in Nat /\ DOMAIN w = 1 .. Len(w)
  BY DEF WireOk
<1>3. \A i \in 1 .. Len(w) : w[i][1] \in 1 .. Len(s) /\ s[w[i][1]] = sizes[w[i][1]]
  BY <1>1 DEF WireOk
<1>4. FramedIn(w, s)
  <2> SUFFICES ASSUME NEW i \in 1 .. Len(w)
               PROVE  \/ w[i][2] = 1 /\ (i = 1 \/ w[i - 1][2] = s[w[i - 1][1]])
                      \/ i > 1 /\ w[i - 1] = <<w[i][1], w[i][2] - 1>>
    BY <1>2 DEF FramedIn
  <2>1. \/ w[i][2] = 1 /\ (i = 1 \/ w[i - 1][2] = sizes[w[i - 1][1]])
        \/ i > 1 /\ w[i - 1] = <<w[i][1], w[i][2] - 1>>
    BY <1>2 DEF WireOk, FramedIn
  <2>2. i = 1 \/ i - 1 \in 1 .. Len(w)
    BY <1>2
  <2> QED  BY <1>3, <2>1, <2>2
<1>5. WholeEnd(w, sizes) => WholeEnd(w, s)
  <2>1. w = <<>> \/ Len(w) \in 1 .. Len(w)
    BY <1>2
  <2> QED  BY <1>3, <2>1 DEF WholeEnd
<1>6. WireOk(w, s)
  BY <1>2, <1>3, <1>4 DEF WireOk
<1> QED  BY <1>5, <1>6 DEF s

\* Consecutive bytes up to the last one of their message.
ToEnd(b, sizes) ==
    /\ Run(b) /\ From(b) >= 1
    /\ Msg(b) \in 1 .. Len(sizes) /\ From(b) + Len(b) - 1 = sizes[Msg(b)]

\* Of the messages that wait only the first may have been begun, and then the wire stops
\* where its bytes go on.  If nothing waits, the wire ends with a whole message.
ShapeOk(q, sizes, w) ==
    /\ \A i \in 1 .. Len(q) : ToEnd(q[i], sizes)
    /\ \A i \in 2 .. Len(q) : From(q[i]) = 1
    /\ q = <<>> => WholeEnd(w, sizes)
    /\ q # <<>> => Continues(w, sizes, q[1])

\* A new message does not change where the others end.
LEMMA ToEndGrown ==
    ASSUME NEW b, NEW sizes \in Seq(Nat), ToEnd(b, sizes), NEW n \in Nat
    PROVE  ToEnd(b, Append(sizes, n))
<1> DEFINE s == Append(sizes, n)
<1>1. Len(sizes) \in Nat /\ Len(s) = Len(sizes) + 1 /\ \A m \in 1 .. Len(sizes) : s[m] = sizes[m]
  BY AppendProperties
<1> HIDE DEF s
<1>2. ToEnd(b, s)
  BY <1>1 DEF ToEnd
<1> QED  BY <1>2 DEF s

\* A new message reaches to its own end.
LEMMA NewToEnd ==
    ASSUME NEW sizes \in Seq(Nat), NEW n \in Nat \ {0}, NEW m \in Nat, m = Len(sizes) + 1
    PROVE  /\ ToEnd(Bytes(m, n), Append(sizes, n)) /\ From(Bytes(m, n)) = 1
           /\ m \in 1 .. Len(Append(sizes, n)) /\ Append(sizes, n)[m] = n
<1> DEFINE s == Append(sizes, n)  b == Bytes(m, n)
<1>1. Len(s) = m /\ s[m] = n
  BY AppendProperties
<1>2. Run(b) /\ Len(b) = n /\ Msg(b) = m /\ From(b) = 1
  BY BytesRun
<1> HIDE DEF s, b
<1>3. From(b) + Len(b) - 1 = n /\ m \in 1 .. Len(s)
  BY <1>1, <1>2
<1>4. ToEnd(b, s)
  BY <1>1, <1>2, <1>3 DEF ToEnd
<1> QED  BY <1>1, <1>2, <1>3, <1>4 DEF s, b

\* Whatever was queued or written, a new message leaves it as it was.
LEMMA ShapeGrown ==
    ASSUME NEW q \in Seq(Seq(Byte)), NEW sizes \in Seq(Nat), NEW w, WireOk(w, sizes),
           ShapeOk(q, sizes, w), NEW n \in Nat
    PROVE  ShapeOk(q, Append(sizes, n), w) /\ WireOk(w, Append(sizes, n))
<1> DEFINE s == Append(sizes, n)
<1>1. WireOk(w, s) /\ (WholeEnd(w, sizes) => WholeEnd(w, s))
  BY WireGrown
<1>2. \A i \in 1 .. Len(q) : ToEnd(q[i], s)
  BY ToEndGrown DEF ShapeOk
<1> HIDE DEF s
<1>3. q # <<>> => Continues(w, s, q[1])
  BY <1>1 DEF ShapeOk, Continues
<1>4. ShapeOk(q, s, w)
  BY <1>1, <1>2, <1>3 DEF ShapeOk
<1> QED  BY <1>1, <1>4 DEF s

\* A message written whole on an idle adapter.
LEMMA ShapeWhole ==
    ASSUME NEW sizes \in Seq(Nat), NEW w, WireOk(w, sizes), ShapeOk(<<>>, sizes, w),
           NEW n \in Nat \ {0}, NEW m \in Nat, m = Len(sizes) + 1
    PROVE  /\ WireOk(w \o Bytes(m, n), Append(sizes, n))
           /\ ShapeOk(<<>>, Append(sizes, n), w \o Bytes(m, n))
<1> DEFINE s == Append(sizes, n)  b == Bytes(m, n)  v == w \o b
<1>1. WireOk(w, s) /\ WholeEnd(w, s)
  BY WireGrown DEF ShapeOk
<1>2. ToEnd(b, s) /\ From(b) = 1
  BY NewToEnd
<1> HIDE DEF s, b
<1>3. Continues(w, s, b)
  BY <1>1, <1>2 DEF Continues
<1>4. WireOk(v, s) /\ v # <<>> /\ v[Len(v)] = <<Msg(b), From(b) + Len(b) - 1>>
  BY <1>1, <1>2, <1>3, WriteRun DEF ToEnd
<1> HIDE DEF v
<1>5. v[Len(v)][1] = Msg(b) /\ v[Len(v)][2] = From(b) + Len(b) - 1
  BY <1>4
<1>6. WholeEnd(v, s)
  BY <1>2, <1>5 DEF WholeEnd, ToEnd
<1>7. ShapeOk(<<>>, s, v)
  BY <1>6 DEF ShapeOk
<1> QED  BY <1>4, <1>7 DEF s, b, v

\* The first k bytes of a message written on an idle adapter.
LEMMA ShapePart ==
    ASSUME NEW sizes \in Seq(Nat), NEW w, WireOk(w, sizes), ShapeOk(<<>>, sizes, w),
           NEW n \in Nat \ {0}, NEW m \in Nat, m = Len(sizes) + 1,
           NEW k \in 1 .. (n - 1)
    PROVE  LET b == Bytes(m, n)
           IN  /\ WireOk(w \o SubSeq(b, 1, k), Append(sizes, n))
               /\ ShapeOk(<<Rest(b, k)>>, Append(sizes, n), w \o SubSeq(b, 1, k))
<1> DEFINE s == Append(sizes, n)  b == Bytes(m, n)
           c == SubSeq(b, 1, k)  d == Rest(b, k)  v == w \o c
<1>1. WireOk(w, s) /\ WholeEnd(w, s)
  BY WireGrown DEF ShapeOk
<1>2. ToEnd(b, s) /\ From(b) = 1 /\ Len(b) = n
  BY NewToEnd, BytesRun
<1>3. k \in Nat \ {0} /\ k < Len(b) /\ Run(b)
  BY <1>2 DEF ToEnd
<1> HIDE DEF s, b
<1>4. /\ Run(c) /\ Len(c) = k /\ Msg(c) = Msg(b) /\ From(c) = From(b)
      /\ Run(d) /\ Len(d) = Len(b) - k /\ Msg(d) = Msg(b) /\ From(d) = From(b) + k
  BY <1>3, RunCut
<1> HIDE DEF c, d
<1>5. Continues(w, s, c) /\ From(c) >= 1 /\ Msg(c) \in 1 .. Len(s)
  BY <1>1, <1>2, <1>4 DEF Continues, ToEnd
<1>6. WireOk(v, s) /\ v # <<>> /\ v[Len(v)] = <<Msg(c), From(c) + Len(c) - 1>>
  BY <1>1, <1>4, <1>5, WriteRun
<1> HIDE DEF v
<1>7. From(d) > 1 /\ From(d) >= 1 /\ From(c) + Len(c) - 1 = From(d) - 1
  BY <1>2, <1>4
<1>8. Continues(v, s, d)
  BY <1>4, <1>6, <1>7 DEF Continues
<1>9. From(d) + Len(d) - 1 = s[Msg(d)]
  <2>1. From(b) + Len(b) - 1 = s[Msg(d)]
    BY <1>2, <1>4 DEF ToEnd
  <2> QED  BY <1>2, <1>4, <2>1
<1>10. ToEnd(d, s)
  BY <1>4, <1>5, <1>7, <1>9 DEF ToEnd
<1>11. Len(<<d>>) = 1 /\ <<d>>[1] = d /\ <<d>> # <<>>
  OBVIOUS
<1>12. ShapeOk(<<d>>, s, v)
  BY <1>8, <1>10, <1>11 DEF ShapeOk
<1> QED  BY <1>6, <1>12 DEF s, b, c, d, v

\* A message behind others that wait.
LEMMA ShapeBehind ==
    ASSUME NEW q \in Seq(Seq(Byte)), q # <<>>, NEW sizes \in Seq(Nat), NEW w, WireOk(w, sizes),
           ShapeOk(q, sizes, w), NEW n \in Nat \ {0}, NEW m \in Nat, m = Len(sizes) + 1
    PROVE  ShapeOk(Append(q, Bytes(m, n)), Append(sizes, n), w)
<1> DEFINE s == Append(sizes, n)  b == Bytes(m, n)  r == Append(q, b)
<1>1. ShapeOk(q, s, w)
  BY ShapeGrown
<1>2. ToEnd(b, s) /\ From(b) = 1 /\ b \in Seq(Byte)
  BY NewToEnd, BytesAreOne
<1> HIDE DEF s, b
<1>3. /\ Len(q) \in Nat \ {0}
      /\ r # <<>> /\ Len(r) = Len(q) + 1 /\ r[Len(q) + 1] = b
      /\ \A i \in 1 .. Len(q) : r[i] = q[i]
  BY <1>2, AppendProperties
<1> HIDE DEF r
<1>4. \A i \in 1 .. Len(r) : i = Len(q) + 1 \/ i \in 1 .. Len(q)
  BY <1>3
<1>5. /\ \A i \in 1 .. Len(r) : ToEnd(r[i], s)
      /\ \A i \in 2 .. Len(r) : From(r[i]) = 1
  <2>1. \A i \in 1 .. Len(r) : ToEnd(r[i], s)
    BY <1>1, <1>2, <1>3, <1>4, Zenon DEF ShapeOk
  <2>2. ASSUME NEW i \in 2 .. Len(r)  PROVE From(r[i]) = 1
    <3>0. Len(q) \in Nat /\ i \in 2 .. (Len(q) + 1)
      BY <1>3, Zenon
    <3>1. i = Len(q) + 1 \/ (i \in 1 .. Len(q) /\ i \in 2 .. Len(q))
      BY <3>0
    <3> QED  BY <1>1, <1>2, <1>3, <3>1, Zenon DEF ShapeOk
  <2> QED  BY <2>1, <2>2
<1>6. r[1] = q[1]
  BY <1>3
<1>7. ShapeOk(r, s, w)
  BY <1>1, <1>3, <1>4, <1>5, <1>6 DEF ShapeOk
<1> QED  BY <1>7 DEF s, b, r

\* The first of the waiting messages written to its end.
LEMMA ShapeFlushed ==
    ASSUME NEW q \in Seq(Seq(Byte)), q # <<>>, NEW sizes, NEW w, WireOk(w, sizes),
           ShapeOk(q, sizes, w)
    PROVE  WireOk(w \o q[1], sizes) /\ ShapeOk(Tail(q), sizes, w \o q[1])
<1> DEFINE b == q[1]  v == w \o b  r == Tail(q)
<1>1. /\ Len(q) \in Nat \ {0} /\ Len(r) = Len(q) - 1 /\ r \in Seq(Seq(Byte))
      /\ \A i \in 1 .. (Len(q) - 1) : r[i] = q[i + 1]
  BY TailOf
<1>2. ToEnd(b, sizes) /\ Continues(w, sizes, b)
  BY <1>1 DEF ShapeOk
<1> HIDE DEF b, r
<1>3. WireOk(v, sizes) /\ v # <<>> /\ v[Len(v)] = <<Msg(b), From(b) + Len(b) - 1>>
  BY <1>2, WriteRun DEF ToEnd
<1> HIDE DEF v
<1>4. v[Len(v)][1] = Msg(b) /\ v[Len(v)][2] = From(b) + Len(b) - 1
  BY <1>3
<1>5. WholeEnd(v, sizes)
  BY <1>2, <1>4 DEF WholeEnd, ToEnd
<1>6. ASSUME NEW i \in 1 .. Len(r)  PROVE ToEnd(r[i], sizes) /\ From(r[i]) = 1
  <2>1. i + 1 \in 1 .. Len(q) /\ i + 1 \in 2 .. Len(q) /\ r[i] = q[i + 1]
    BY <1>1
  <2> QED  BY <2>1 DEF ShapeOk
<1>7. r # <<>> => From(r[1]) = 1
  BY <1>1, <1>6
<1>8. Len(r) \in Nat
  BY <1>1
<1>9. ShapeOk(r, sizes, v)
  BY <1>5, <1>6, <1>7, <1>8 DEF ShapeOk, Continues
<1> QED  BY <1>3, <1>9 DEF b, v, r

\* The first k bytes of the first waiting message written.
LEMMA ShapeCut ==
    ASSUME NEW q \in Seq(Seq(Byte)), q # <<>>, NEW sizes, NEW w, WireOk(w, sizes),
           ShapeOk(q, sizes, w), NEW k \in Nat \ {0}, k < Len(q[1])
    PROVE  /\ WireOk(w \o SubSeq(q[1], 1, k), sizes)
           /\ ShapeOk(<<Rest(q[1], k)>> \o Tail(q), sizes, w \o SubSeq(q[1], 1, k))
<1> DEFINE b == q[1]  c == SubSeq(b, 1, k)  d == Rest(b, k)  v == w \o c
           r == <<d>> \o Tail(q)
<1>1. ToEnd(b, sizes) /\ Continues(w, sizes, b) /\ Len(b) \in Nat /\ From(b) \in Nat
  <2>1. 1 \in 1 .. Len(q)
    BY TailOf
  <2>2. ToEnd(b, sizes) /\ Continues(w, sizes, b)
    BY <2>1 DEF ShapeOk
  <2> QED  BY <2>2, RunTypes DEF ToEnd
<1>2. k < Len(b)
  OBVIOUS
<1> HIDE DEF b
<1>3. /\ Run(c) /\ Len(c) = k /\ Msg(c) = Msg(b) /\ From(c) = From(b)
      /\ Run(d) /\ Len(d) = Len(b) - k /\ Msg(d) = Msg(b) /\ From(d) = From(b) + k
  BY <1>1, <1>2, RunCut DEF ToEnd
<1>4. /\ Len(r) = Len(q) /\ r[1] = d
      /\ \A i \in 2 .. Len(q) : r[i] = q[i]
      /\ Len(q) \in Nat \ {0} /\ r \in Seq(Seq(Byte))
  <2>1. d \in Seq(Byte)
    BY <1>3 DEF Run
  <2> HIDE DEF d
  <2> QED  BY <2>1, HeadReplaced, TailOf
<1> HIDE DEF c, d, r
<1>5. Continues(w, sizes, c) /\ From(c) >= 1 /\ Msg(c) \in 1 .. Len(sizes)
  BY <1>1, <1>3 DEF Continues, ToEnd
<1>6. WireOk(v, sizes) /\ v # <<>> /\ v[Len(v)] = <<Msg(c), From(c) + Len(c) - 1>>
  BY <1>3, <1>5, WriteRun
<1> HIDE DEF v
<1>7. From(d) > 1 /\ From(d) >= 1 /\ From(c) + Len(c) - 1 = From(d) - 1
  BY <1>1, <1>3, <1>5, SMTT(20)
<1>8. Continues(v, sizes, d)
  BY <1>3, <1>6, <1>7 DEF Continues
<1>9. From(d) + Len(d) - 1 = sizes[Msg(d)]
  <2>1. From(b) + Len(b) - 1 = sizes[Msg(d)]
    BY <1>1, <1>3 DEF ToEnd
  <2> QED  BY <1>1, <1>3, <2>1
<1>10. ToEnd(d, sizes)
  BY <1>3, <1>5, <1>7, <1>9 DEF ToEnd
<1>11. \A i \in 1 .. Len(r) : ToEnd(r[i], sizes)
  BY <1>4, <1>10 DEF ShapeOk
<1>12. r # <<>> /\ \A i \in 2 .. Len(r) : From(r[i]) = 1
  BY <1>4 DEF ShapeOk
<1>13. ShapeOk(r, sizes, v)
  BY <1>4, <1>8, <1>11, <1>12 DEF ShapeOk
<1> QED  BY <1>6, <1>13 DEF b, c, d, r, v

-----------------------------------------------------------------------------
(***************************************************************************)
(* The line and the invariant                                              *)
(***************************************************************************)
\* The line of messages that wait: those queued and, behind them, what the one thread
\* inside send is about to queue.
LineUp(q, queued, rest) ==
    \/ q = queued /\ \A t \in Threads : rest[t] = Nothing
    \/ \E t \in Threads : /\ rest[t] # Nothing /\ q = Append(queued, rest[t])
                          /\ \A u \in Threads : u # t => rest[u] = Nothing

\* The types of what the argument is about.
XioTypes ==
    /\ pending \in Seq(Seq(Byte)) /\ sending \in [Threads -> Seq(Byte)]
    /\ outcome \in Seq(Outcomes) /\ size \in Seq(Nat) /\ Len(size) = Len(outcome)

\* An adapter that is not open has nothing queued and nobody inside send.
OpenInv ==
    /\ fd \in {"none", "open"}
    /\ io_state = "OPEN" => fd = "open"
    /\ fd = "none" => pending = <<>> /\ ~InSend

\* The line is in order.  Unless the serial line has been given bytes twice, the wire is
\* framed, and on a connection that still works the line goes on where the wire stops.
QueueInv ==
    \E q \in Seq(Seq(Byte)) :
        /\ LineUp(q, pending, sending)
        /\ QueueOk(q, outcome)
        /\ ~resent => /\ WireOk(wire, size)
                      /\ fd = "open" /\ link = "up" => ShapeOk(q, size, wire)

\* What holds of an adapter on which sends have not overlapped.
Settled == XioTypes /\ OpenInv /\ QueueInv

\* Taking the first and adding a last entry do not interfere.
LEMMA TailAppend ==
    ASSUME NEW S, NEW p \in Seq(S), p # <<>>, NEW x \in S
    PROVE  Tail(Append(p, x)) = Append(Tail(p), x)
<1> DEFINE a == Append(p, x)  r == Tail(p)  d == Tail(a)  e == Append(r, x)
<1>1. /\ Len(p) \in Nat \ {0} /\ r \in Seq(S) /\ Len(r) = Len(p) - 1
      /\ \A i \in 1 .. (Len(p) - 1) : r[i] = p[i + 1]
  BY TailOf
<1>2. /\ a \in Seq(S) /\ a # <<>> /\ Len(a) = Len(p) + 1 /\ a[Len(p) + 1] = x
      /\ \A i \in 1 .. Len(p) : a[i] = p[i]
  BY AppendProperties
<1> HIDE DEF a, r
<1>3. /\ d \in Seq(S) /\ Len(d) = Len(p)
      /\ \A i \in 1 .. (Len(a) - 1) : d[i] = a[i + 1]
  <2>1. d \in Seq(S) /\ Len(d) = Len(a) - 1 /\ \A i \in 1 .. (Len(a) - 1) : d[i] = a[i + 1]
    BY <1>2, TailOf
  <2> HIDE DEF d
  <2> QED  BY <1>1, <1>2, <2>1
<1>4. /\ e \in Seq(S) /\ Len(e) = Len(r) + 1 /\ e[Len(r) + 1] = x
      /\ \A i \in 1 .. Len(r) : e[i] = r[i]
  BY <1>1, AppendProperties
<1> HIDE DEF d, e
<1>5. ASSUME NEW i \in 1 .. Len(p)  PROVE d[i] = e[i]
  <2>0. d[i] = a[i + 1]
    BY <1>1, <1>2, <1>3
  <2>1. CASE i = Len(p)
    <3>1. i = Len(r) + 1 /\ i + 1 = Len(p) + 1
      BY <2>1, <1>1
    <3> QED  BY <2>0, <3>1, <1>2, <1>4
  <2>2. CASE i # Len(p)
    <3>1. i \in 1 .. (Len(p) - 1) /\ i \in 1 .. Len(r) /\ i + 1 \in 1 .. Len(p)
      BY <2>2, <1>1
    <3>2. e[i] = p[i + 1]
      BY <3>1, <1>1, <1>4
    <3>3. a[i + 1] = p[i + 1]
      BY <3>1, <1>2
    <3> QED  BY <2>0, <3>2, <3>3
  <2> QED  BY <2>1, <2>2
<1>6. Len(e) = Len(p)
  BY <1>1, <1>4
<1>7. d = e
  BY <1>3, <1>4, <1>5, <1>6, SeqEqual
<1> QED  BY <1>7 DEF a, d, e, r

\* Nor do replacing the first and adding a last one.
LEMMA ConcatAppend ==
    ASSUME NEW S, NEW p \in Seq(S), NEW q \in Seq(S), NEW x \in S
    PROVE  p \o Append(q, x) = Append(p \o q, x)
<1>1. Append(q, x) = q \o <<x>> /\ <<x>> \in Seq(S) /\ p \o q \in Seq(S)
  OBVIOUS
<1>2. Append(p \o q, x) = (p \o q) \o <<x>>
  BY <1>1
<1>3. (p \o q) \o <<x>> = p \o (q \o <<x>>)
  BY <1>1, ConcatAssociative
<1> QED  BY <1>1, <1>2, <1>3

\* Something is in a queue that an entry was added to.
LEMMA NotEmpty ==
    ASSUME NEW S, NEW p \in Seq(S), NEW x \in S
    PROVE  Append(p, x) # <<>>
<1>1. Len(Append(p, x)) = Len(p) + 1 /\ Len(p) \in Nat
  BY AppendProperties
<1>2. Len(Append(p, x)) # 0
  BY <1>1
<1> QED  BY <1>2, EmptySeq

\* Writing works on the first message of the line, whoever is inside send.
LEMMA LineFront ==
    ASSUME NEW q, NEW p \in Seq(Seq(Byte)), NEW s \in [Threads -> Seq(Byte)],
           LineUp(q, p, s), p # <<>>
    PROVE  /\ q # <<>> /\ q[1] = Head(p)
           /\ LineUp(Tail(q), Tail(p), s)
           /\ \A b \in Seq(Byte) : LineUp(<<b>> \o Tail(q), <<b>> \o Tail(p), s)
<1>0. Tail(p) \in Seq(Seq(Byte)) /\ Head(p) = p[1] /\ Len(p) \in Nat \ {0}
  BY TailOf
<1>1. CASE q = p /\ \A t \in Threads : s[t] = Nothing
  BY <1>0, <1>1 DEF LineUp
<1>2. CASE \E t \in Threads : /\ s[t] # Nothing /\ q = Append(p, s[t])
                              /\ \A u \in Threads : u # t => s[u] = Nothing
  <2>1. PICK t \in Threads : /\ s[t] # Nothing /\ q = Append(p, s[t])
                             /\ \A u \in Threads : u # t => s[u] = Nothing
    BY <1>2
  <2>2. s[t] \in Seq(Byte)
    OBVIOUS
  <2>3. Tail(q) = Append(Tail(p), s[t])
    BY <2>1, <2>2, TailAppend
  <2>4. LineUp(Tail(q), Tail(p), s)
    BY <2>1, <2>3 DEF LineUp
  <2>5. ASSUME NEW b \in Seq(Byte)  PROVE LineUp(<<b>> \o Tail(q), <<b>> \o Tail(p), s)
    <3>1. <<b>> \in Seq(Seq(Byte))
      OBVIOUS
    <3>2. <<b>> \o Append(Tail(p), s[t]) = Append(<<b>> \o Tail(p), s[t])
      <4>1. ASSUME NEW a \in Seq(Seq(Byte)), NEW c \in Seq(Seq(Byte)), NEW x \in Seq(Byte)
            PROVE  a \o Append(c, x) = Append(a \o c, x)
        BY ConcatAppend, SMTT(30)
      <4> QED  BY <1>0, <2>2, <3>1, <4>1, Zenon
    <3>3. <<b>> \o Tail(q) = Append(<<b>> \o Tail(p), s[t])
      BY <2>3, <3>2
    <3> QED  BY <2>1, <3>3 DEF LineUp
  <2>6. q[1] = Head(p) /\ q # <<>>
    <3>1. 1 \in 1 .. Len(p) /\ Append(p, s[t])[1] = p[1] /\ Append(p, s[t]) # <<>>
      <4>1. 1 \in 1 .. Len(p)
        BY <1>0
      <4>2. \A x \in Seq(Byte) : Append(p, x)[1] = p[1]
        BY <4>1, AppendProperties, SMTT(20)
      <4>3. Append(p, s[t]) # <<>>
        BY <2>2, NotEmpty
      <4> QED  BY <2>2, <4>1, <4>2, <4>3, Zenon
    <3> QED  BY <2>1, <3>1, <1>0
  <2> QED  BY <2>4, <2>5, <2>6
<1> QED  BY <1>1, <1>2 DEF LineUp

\* Messages that are lost are not completed.
LEMMA LostSome ==
    ASSUME outcome \in Seq(Outcomes), NEW queued, Lost(queued)
    PROVE  /\ outcome' \in Seq(Outcomes) /\ Len(outcome') = Len(outcome)
           /\ \A n \in 1 .. Len(outcome) : outcome'[n] = "complete" => outcome[n] = "complete"
<1>1. Len(outcome) \in Nat /\ DOMAIN outcome = 1 .. Len(outcome)
  OBVIOUS
<1> DEFINE lost(m) == \E i \in DOMAIN queued : MessageOf(queued[i]) = m
<1>2. outcome' = [m \in 1 .. Len(outcome) |-> IF lost(m) THEN "failed" ELSE outcome[m]]
  BY <1>1 DEF Lost
<1> HIDE DEF lost
<1>3. \A m \in 1 .. Len(outcome) : outcome'[m] \in {"failed", outcome[m]}
  BY <1>2
<1>4. \A m \in 1 .. Len(outcome) : outcome[m] \in Outcomes
  OBVIOUS
<1>5. "failed" \in Outcomes
  BY DEF Outcomes
<1>6. outcome' \in [1 .. Len(outcome) -> Outcomes]
  BY <1>2, <1>4, <1>5
<1>7. outcome' \in Seq(Outcomes) /\ Len(outcome') = Len(outcome)
  BY <1>1, <1>6
<1> QED  BY <1>3, <1>7

-----------------------------------------------------------------------------
(***************************************************************************)
(* The steps, one kind after the other                                     *)
(***************************************************************************)
\* The step calls no on_send_complete with IO_SEND_OK.
NoneCompleted ==
    /\ outcome' \in Seq(Outcomes) /\ Len(outcome') = Len(outcome)
    /\ \A n \in 1 .. Len(outcome) : outcome'[n] = "complete" => outcome[n] = "complete"

\* Such a step leaves the line in order.
LEMMA QueueKept ==
    ASSUME XioTypes, NoneCompleted, NEW q, QueueOk(q, outcome)
    PROVE  QueueOk(q, outcome')
<1>1. Len(outcome) \in Nat /\ Len(outcome') = Len(outcome)
  BY DEF XioTypes, NoneCompleted
<1>2. \A n \in 1 .. Len(outcome') :
         outcome'[n] = "complete" => n <= Len(outcome) /\ outcome[n] = "complete"
  BY <1>1 DEF NoneCompleted
<1> QED  BY <1>1, <1>2, QueueOutcome

\* Steps that write nothing and queue nothing.
LEMMA QuietStep ==
    ASSUME Settled, UNCHANGED <<pending, sending, size, wire, resent, fd>>, NoneCompleted,
           link' \in {link, "broken"}, io_state' = "OPEN" => io_state = "OPEN"
    PROVE  Settled'
<1>1. XioTypes'
  BY DEF Settled, XioTypes, NoneCompleted
<1>2. OpenInv'
  BY DEF Settled, OpenInv, InSend
<1>3. QueueInv'
  <2>1. PICK q \in Seq(Seq(Byte)) :
           /\ LineUp(q, pending, sending)
           /\ QueueOk(q, outcome)
           /\ ~resent => /\ WireOk(wire, size)
                         /\ fd = "open" /\ link = "up" => ShapeOk(q, size, wire)
    BY DEF Settled, QueueInv
  <2>2. QueueOk(q, outcome')
    BY <2>1, QueueKept DEF Settled
  <2>3. LineUp(q, pending', sending')
    BY <2>1
  <2>4. ~resent' => /\ WireOk(wire', size')
                    /\ fd' = "open" /\ link' = "up" => ShapeOk(q, size', wire')
    BY <2>1
  <2> QED  BY <2>2, <2>3, <2>4 DEF QueueInv
<1> QED  BY <1>1, <1>2, <1>3 DEF Settled

\* add_pending_io puts the message where it already was in the line.
LEMMA QueuedStep ==
    ASSUME Settled, NEW t \in Threads, AddPendingIo(t)
    PROVE  Settled'
<1> USE DEF AddPendingIo, historyVars
<1>0. pending \in Seq(Seq(Byte)) /\ sending \in [Threads -> Seq(Byte)] /\ sending[t] \in Seq(Byte)
  BY DEF Settled, XioTypes
<1>1. /\ pending' \in Seq(Seq(Byte)) /\ sending' \in [Threads -> Seq(Byte)]
      /\ sending'[t] = <<>> /\ \A u \in Threads : u # t => sending'[u] = sending[u]
  <2>1. \A x \in Seq(Byte) : Append(pending, x) \in Seq(Seq(Byte))
    BY <1>0
  <2>2. <<>> \in Seq(Byte)
    OBVIOUS
  <2> QED  BY <1>0, <2>1, <2>2 DEF Nothing
<1>2. XioTypes'
  BY <1>1 DEF Settled, XioTypes
<1>3. fd = "open"
  BY DEF Settled, OpenInv, InSend
<1>4. OpenInv'
  BY <1>3 DEF Settled, OpenInv
<1>5. PICK q \in Seq(Seq(Byte)) :
         /\ LineUp(q, pending, sending)
         /\ QueueOk(q, outcome)
         /\ ~resent => /\ WireOk(wire, size)
                       /\ fd = "open" /\ link = "up" => ShapeOk(q, size, wire)
  BY DEF Settled, QueueInv
<1>6. /\ q = Append(pending, sending[t])
      /\ \A u \in Threads : u # t => sending[u] = Nothing
  BY <1>5 DEF LineUp
<1>7. q = pending' /\ \A u \in Threads : sending'[u] = Nothing
  BY <1>1, <1>6 DEF Nothing
<1>8. LineUp(q, pending', sending')
  BY <1>7 DEF LineUp
<1>9. QueueInv'
  BY <1>5, <1>8 DEF QueueInv
<1> QED  BY <1>2, <1>4, <1>9 DEF Settled

\* The socket is closed, or the adapter replaced, while nobody is inside send.
LEMMA ClosedStep ==
    ASSUME Settled, pending' = <<>>, ~InSend, UNCHANGED <<sending, size, wire, resent>>,
           fd' = "none", io_state' # "OPEN", NoneCompleted
    PROVE  Settled'
<1>1. XioTypes'
  BY DEF Settled, XioTypes, NoneCompleted
<1>2. \A t \in Threads : sending[t] = Nothing
  BY DEF InSend
<1>3. OpenInv'
  BY <1>2 DEF OpenInv, InSend
<1>4. LineUp(<<>>, pending', sending')
  BY <1>2 DEF LineUp
<1>5. QueueOk(<<>>, outcome')
  BY QueueEmpty
<1>6. ~resent' => WireOk(wire', size')
  BY DEF Settled, QueueInv
<1>7. <<>> \in Seq(Seq(Byte)) /\ fd' # "open"
  OBVIOUS
<1>8. QueueInv'
  BY <1>4, <1>5, <1>6, <1>7 DEF QueueInv
<1> QED  BY <1>1, <1>3, <1>8 DEF Settled

\* A new connection begins with an empty wire and an empty line.
LEMMA OpenedStep ==
    ASSUME Settled, Open
    PROVE  Settled'
<1> USE DEF Open
<1>1. XioTypes'
  BY DEF Settled, XioTypes
<1>2. OpenInv'
  BY DEF OpenInv
<1>3. pending = <<>> /\ \A t \in Threads : sending[t] = Nothing
  BY DEF Settled, OpenInv, InSend
<1>4. LineUp(<<>>, pending', sending')
  BY <1>3 DEF LineUp
<1>5. QueueOk(<<>>, outcome')
  BY QueueEmpty
<1>6. WireOk(<<>>, size') /\ ShapeOk(<<>>, size', <<>>)
  BY DEF WireOk, FramedIn, ShapeOk, WholeEnd
<1>7. <<>> \in Seq(Seq(Byte)) /\ wire' = <<>>
  OBVIOUS
<1>8. QueueInv'
  BY <1>4, <1>5, <1>6, <1>7 DEF QueueInv
<1> QED  BY <1>1, <1>2, <1>8 DEF Settled

\* socketio_dowork drops a message it cannot write: the connection is broken for good.
LEMMA DroppedStep ==
    ASSUME Settled, pending # <<>>, pending' = Tail(pending), ~InSend, link = "broken",
           UNCHANGED <<sending, size, wire, resent, fd, link>>, io_state' # "OPEN", NoneCompleted
    PROVE  Settled'
<1>0. pending \in Seq(Seq(Byte)) /\ Tail(pending) \in Seq(Seq(Byte))
  BY TailOf DEF Settled, XioTypes
<1>1. XioTypes'
  BY <1>0 DEF Settled, XioTypes, NoneCompleted
<1>2. \A t \in Threads : sending[t] = Nothing
  BY DEF InSend
<1>3. fd = "open"
  BY DEF Settled, OpenInv
<1>4. OpenInv'
  BY <1>3 DEF OpenInv
<1>5. PICK q \in Seq(Seq(Byte)) : LineUp(q, pending, sending) /\ QueueOk(q, outcome)
  BY DEF Settled, QueueInv
<1>6. q = pending
  BY <1>2, <1>5 DEF LineUp
<1>7. QueueOk(Tail(pending), outcome)
  BY <1>5, <1>6, QueueTail
<1>8. QueueOk(Tail(pending), outcome')
  BY <1>7, QueueKept DEF Settled
<1>9. LineUp(Tail(pending), pending', sending')
  BY <1>2 DEF LineUp
<1>10. ~resent' => WireOk(wire', size')
  BY DEF Settled, QueueInv
<1>11. PICK r \in Seq(Seq(Byte)) : r = Tail(pending)
  BY <1>0
<1>12. LineUp(r, pending', sending') /\ QueueOk(r, outcome') /\ link' # "up"
  BY <1>8, <1>9, <1>11
<1>13. QueueInv'
  BY <1>10, <1>12 DEF QueueInv
<1> QED  BY <1>1, <1>4, <1>13 DEF Settled

\* What every send does to the history.
LEMMA NewTypes ==
    ASSUME Settled, NEW t \in Threads, NEW n \in Sizes, NEW result \in Outcomes,
           NewMessage(t, n, result), sending' \in [Threads -> Seq(Byte)]
    PROVE  /\ XioTypes' /\ n \in Nat \ {0}
           /\ size \in Seq(Nat) /\ outcome \in Seq(Outcomes)
           /\ size' = Append(size, n) /\ outcome' = Append(outcome, result)
           /\ Len(size') \in Nat
           /\ Len(size') = Len(size) + 1 /\ Len(size') = Len(outcome) + 1
           /\ UNCHANGED <<io_state, fd, pending, link, resent>>
<1>1. /\ pending \in Seq(Seq(Byte)) /\ outcome \in Seq(Outcomes) /\ size \in Seq(Nat)
      /\ Len(size) = Len(outcome)
  BY DEF Settled, XioTypes
<1>2. n \in Nat \ {0}
  BY XioAssumption
<1>3. /\ size' = Append(size, n) /\ outcome' = Append(outcome, result)
      /\ UNCHANGED <<io_state, fd, pending, link, resent>>
  BY DEF NewMessage, adapterVars
<1>4. /\ size' \in Seq(Nat) /\ Len(size') = Len(size) + 1
      /\ outcome' \in Seq(Outcomes) /\ Len(outcome') = Len(outcome) + 1
  BY <1>1, <1>2, <1>3, AppendProperties
<1>5. Len(size) \in Nat
  BY <1>1
<1>6. XioTypes'
  BY <1>1, <1>3, <1>4 DEF XioTypes
<1> QED  BY <1>1, <1>2, <1>3, <1>4, <1>5, <1>6

\* A send that writes nothing and queues nothing.
LEMMA NewSettled ==
    ASSUME Settled, ~InSend, NEW t \in Threads, NEW n \in Sizes, NEW result \in Outcomes,
           NewMessage(t, n, result), result # "complete", UNCHANGED <<sending, wire>>
    PROVE  Settled'
<1>1. sending' \in [Threads -> Seq(Byte)]
  BY DEF Settled, XioTypes
<1>2. /\ XioTypes' /\ n \in Nat \ {0} /\ n \in Nat
      /\ size \in Seq(Nat) /\ outcome \in Seq(Outcomes)
      /\ size' = Append(size, n) /\ outcome' = Append(outcome, result)
      /\ UNCHANGED <<io_state, fd, pending, link, resent>>
  BY <1>1, NewTypes
<1>3. OpenInv'
  BY <1>2 DEF Settled, OpenInv, InSend
<1>4. PICK q \in Seq(Seq(Byte)) :
         /\ LineUp(q, pending, sending)
         /\ QueueOk(q, outcome)
         /\ ~resent => /\ WireOk(wire, size)
                       /\ fd = "open" /\ link = "up" => ShapeOk(q, size, wire)
  BY DEF Settled, QueueInv
<1>5. QueueOk(q, outcome')
  <2>1. /\ Len(outcome) \in Nat /\ Len(outcome') = Len(outcome) + 1
        /\ outcome'[Len(outcome) + 1] = result
        /\ \A i \in 1 .. Len(outcome) : outcome'[i] = outcome[i]
    BY <1>2, AppendProperties
  <2>2. \A i \in 1 .. Len(outcome') :
           outcome'[i] = "complete" => i <= Len(outcome) /\ outcome[i] = "complete"
    BY <2>1
  <2>3. Len(outcome') \in Nat /\ Len(outcome) <= Len(outcome')
    BY <2>1
  <2> QED  BY <1>4, <2>1, <2>2, <2>3, QueueOutcome
<1>6. ~resent => WireOk(wire, Append(size, n))
  BY <1>2, <1>4, WireGrown
<1>7. ~resent /\ fd = "open" /\ link = "up" => ShapeOk(q, Append(size, n), wire)
  BY <1>2, <1>4, ShapeGrown
<1>8. /\ LineUp(q, pending', sending')
      /\ ~resent' => /\ WireOk(wire', size')
                     /\ fd' = "open" /\ link' = "up" => ShapeOk(q, size', wire')
  BY <1>2, <1>4, <1>6, <1>7
<1>9. QueueInv'
  BY <1>5, <1>8 DEF QueueInv
<1> QED  BY <1>2, <1>3, <1>9 DEF Settled

\* A send that writes all of its message.
LEMMA SendWholeStep ==
    ASSUME Settled, ~InSend, NEW t \in Threads, NEW n \in Sizes, SendWhole(t, n)
    PROVE  Settled'
<1>0. /\ NewMessage(t, n, "complete") /\ pending = <<>> /\ link = "up" /\ io_state = "OPEN"
      /\ wire' = wire \o Bytes(Len(size'), n) /\ sending' = sending /\ "complete" \in Outcomes
  BY DEF SendWhole, Written, Outcomes
<1>1. sending' \in [Threads -> Seq(Byte)]
  BY <1>0 DEF Settled, XioTypes
<1>2. /\ XioTypes' /\ n \in Nat \ {0} /\ size \in Seq(Nat)
      /\ size' = Append(size, n)
      /\ Len(size') \in Nat /\ Len(size') = Len(size) + 1
      /\ UNCHANGED <<io_state, fd, pending, link, resent>>
  BY <1>0, <1>1, NewTypes
<1>3. fd = "open" /\ OpenInv'
  BY <1>0, <1>2 DEF Settled, OpenInv, InSend
<1>4. PICK q \in Seq(Seq(Byte)) :
         /\ LineUp(q, pending, sending)
         /\ QueueOk(q, outcome)
         /\ ~resent => /\ WireOk(wire, size)
                       /\ fd = "open" /\ link = "up" => ShapeOk(q, size, wire)
  BY DEF Settled, QueueInv
<1>5. q = <<>>
  BY <1>0, <1>4 DEF LineUp, InSend
<1>6. PICK m \in Nat : m = Len(size')
  BY <1>2
<1>7. ~resent => /\ WireOk(wire \o Bytes(m, n), Append(size, n))
                 /\ ShapeOk(<<>>, Append(size, n), wire \o Bytes(m, n))
  BY <1>0, <1>2, <1>3, <1>4, <1>5, <1>6, ShapeWhole
<1>8. QueueOk(<<>>, outcome') /\ LineUp(<<>>, pending', sending')
  BY <1>0, <1>2, <1>4, <1>5, QueueEmpty
<1>9. ~resent' => WireOk(wire', size') /\ ShapeOk(<<>>, size', wire')
  BY <1>0, <1>2, <1>6, <1>7
<1>10. <<>> \in Seq(Seq(Byte))
  OBVIOUS
<1>11. QueueInv'
  BY <1>8, <1>9, <1>10 DEF QueueInv
<1> QED  BY <1>2, <1>3, <1>11 DEF Settled

\* The thread that enters send is the only one there, and last in the line.
LEMMA NewInLine ==
    ASSUME ~InSend, NEW t \in Threads, NEW b \in Seq(Byte), b # <<>>,
           sending \in [Threads -> Seq(Byte)], sending' = [sending EXCEPT ![t] = b]
    PROVE  /\ sending' \in [Threads -> Seq(Byte)]
           /\ LineUp(Append(pending, b), pending, sending')
<1>1. \A u \in Threads : sending[u] = Nothing
  BY DEF InSend
<1>2. sending' \in [Threads -> Seq(Byte)] /\ sending'[t] = b
      /\ \A u \in Threads : u # t => sending'[u] = sending[u]
  OBVIOUS
<1> QED  BY <1>1, <1>2 DEF LineUp, Nothing

\* A send that writes a part of its message.
LEMMA SendPartStep ==
    ASSUME Settled, ~InSend, NEW t \in Threads, NEW n \in Sizes, NEW k \in 1 .. (n - 1),
           SendPart(t, n, k)
    PROVE  Settled'
<1>0. /\ NewMessage(t, n, "accepted") /\ pending = <<>> /\ link = "up" /\ io_state = "OPEN"
      /\ wire' = wire \o SubSeq(Bytes(Len(size'), n), 1, k)
      /\ sending' = [sending EXCEPT ![t] = Rest(Bytes(Len(size'), n), k)]
      /\ "accepted" \in Outcomes /\ "accepted" # "complete"
  BY DEF SendPart, Written, Outcomes
<1>a. n \in Nat \ {0} /\ k \in Nat \ {0} /\ k < n
  BY XioAssumption
<1>b. Len(size') = Len(size) + 1 /\ Len(size) \in Nat
  <2>1. size' = Append(size, n) /\ size \in Seq(Nat)
    BY <1>0 DEF NewMessage, Settled, XioTypes
  <2> QED  BY <2>1, <1>a, AppendProperties
<1>6. PICK m \in Nat : m = Len(size')
  BY <1>b
<1> DEFINE b == Rest(Bytes(m, n), k)
<1>c. OneMessage(b) /\ Msg(b) = m /\ b \in Seq(Byte) /\ b # <<>>
  <2>1. OneMessage(Bytes(m, n)) /\ Msg(Bytes(m, n)) = m /\ Len(Bytes(m, n)) = n
    BY <1>a, BytesAreOne
  <2>2. OneMessage(b) /\ Msg(b) = m
    BY <2>1, <1>a, RestIsOne
  <2> QED  BY <2>2 DEF OneMessage
<1>d. sending' = [sending EXCEPT ![t] = b] /\ sending \in [Threads -> Seq(Byte)]
  BY <1>0, <1>6 DEF Settled, XioTypes
<1>e. wire' = wire \o SubSeq(Bytes(m, n), 1, k)
  BY <1>0, <1>6
<1> HIDE DEF b
<1>1. /\ sending' \in [Threads -> Seq(Byte)]
      /\ LineUp(Append(pending, b), pending, sending')
  BY <1>c, <1>d, NewInLine
<1>2. /\ XioTypes' /\ size \in Seq(Nat) /\ outcome \in Seq(Outcomes)
      /\ size' = Append(size, n) /\ outcome' = Append(outcome, "accepted")
      /\ m = Len(size) + 1 /\ m = Len(outcome) + 1
      /\ UNCHANGED <<io_state, fd, pending, link, resent>>
  BY <1>0, <1>1, <1>6, NewTypes
<1>3. fd = "open" /\ OpenInv'
  BY <1>0, <1>2 DEF Settled, OpenInv
<1>4. PICK q \in Seq(Seq(Byte)) :
         /\ LineUp(q, pending, sending)
         /\ QueueOk(q, outcome)
         /\ ~resent => /\ WireOk(wire, size)
                       /\ fd = "open" /\ link = "up" => ShapeOk(q, size, wire)
  BY DEF Settled, QueueInv
<1>5. q = <<>>
  BY <1>0, <1>4 DEF LineUp, InSend
<1>7. ~resent => /\ WireOk(wire \o SubSeq(Bytes(m, n), 1, k), Append(size, n))
                 /\ ShapeOk(<<b>>, Append(size, n), wire \o SubSeq(Bytes(m, n), 1, k))
  BY <1>0, <1>a, <1>2, <1>3, <1>4, <1>5, ShapePart DEF b
<1>8. QueueOk(Append(q, b), outcome')
  BY <1>c, <1>0, <1>2, <1>4, QueueNew
<1>9. Append(pending, b) = <<b>> /\ Append(q, b) = <<b>> /\ <<b>> \in Seq(Seq(Byte))
  BY <1>0, <1>5, <1>c
<1>10. /\ LineUp(<<b>>, pending', sending') /\ QueueOk(<<b>>, outcome')
       /\ ~resent' => WireOk(wire', size') /\ ShapeOk(<<b>>, size', wire')
  BY <1>1, <1>2, <1>e, <1>7, <1>8, <1>9
<1>11. PICK r \in Seq(Seq(Byte)) : r = <<b>>
  BY <1>9
<1>12. /\ LineUp(r, pending', sending') /\ QueueOk(r, outcome')
       /\ ~resent' => WireOk(wire', size') /\ ShapeOk(r, size', wire')
  BY <1>10, <1>11
<1>13. QueueInv'
  BY <1>12 DEF QueueInv
<1> QED  BY <1>2, <1>3, <1>13 DEF Settled

\* A send that finds others queued.
LEMMA SendBehindStep ==
    ASSUME Settled, ~InSend, NEW t \in Threads, NEW n \in Sizes, SendBehindQueue(t, n)
    PROVE  Settled'
<1>0. /\ NewMessage(t, n, "accepted") /\ pending # <<>> /\ io_state = "OPEN"
      /\ wire' = wire
      /\ sending' = [sending EXCEPT ![t] = Bytes(Len(size'), n)]
      /\ "accepted" \in Outcomes /\ "accepted" # "complete"
  BY DEF SendBehindQueue, Outcomes
<1>a. n \in Nat \ {0}
  BY XioAssumption
<1>b. Len(size') = Len(size) + 1 /\ Len(size) \in Nat
  <2>1. size' = Append(size, n) /\ size \in Seq(Nat)
    BY <1>0 DEF NewMessage, Settled, XioTypes
  <2> QED  BY <2>1, <1>a, AppendProperties
<1>6. PICK m \in Nat : m = Len(size')
  BY <1>b
<1> DEFINE b == Bytes(m, n)
<1>c. OneMessage(b) /\ Msg(b) = m /\ b \in Seq(Byte) /\ b # <<>>
  <2>1. OneMessage(b) /\ Msg(b) = m
    BY <1>a, BytesAreOne
  <2> QED  BY <2>1 DEF OneMessage
<1>d. sending' = [sending EXCEPT ![t] = b] /\ sending \in [Threads -> Seq(Byte)]
  BY <1>0, <1>6 DEF Settled, XioTypes
<1> HIDE DEF b
<1>1. /\ sending' \in [Threads -> Seq(Byte)]
      /\ LineUp(Append(pending, b), pending, sending')
  BY <1>c, <1>d, NewInLine
<1>2. /\ XioTypes' /\ size \in Seq(Nat) /\ outcome \in Seq(Outcomes)
      /\ size' = Append(size, n) /\ outcome' = Append(outcome, "accepted")
      /\ m = Len(size) + 1 /\ m = Len(outcome) + 1
      /\ UNCHANGED <<io_state, fd, pending, link, resent>>
  BY <1>0, <1>1, <1>6, NewTypes
<1>3. fd = "open" /\ OpenInv'
  BY <1>0, <1>2 DEF Settled, OpenInv
<1>4. PICK q \in Seq(Seq(Byte)) :
         /\ LineUp(q, pending, sending)
         /\ QueueOk(q, outcome)
         /\ ~resent => /\ WireOk(wire, size)
                       /\ fd = "open" /\ link = "up" => ShapeOk(q, size, wire)
  BY DEF Settled, QueueInv
<1>5. q = pending /\ q # <<>>
  BY <1>0, <1>4 DEF LineUp, InSend
<1>7. ~resent => WireOk(wire, Append(size, n))
  BY <1>a, <1>2, <1>4, WireGrown
<1>8. ~resent /\ link = "up" => ShapeOk(Append(q, b), Append(size, n), wire)
  BY <1>a, <1>2, <1>3, <1>4, <1>5, ShapeBehind DEF b
<1>9. QueueOk(Append(q, b), outcome')
  BY <1>c, <1>0, <1>2, <1>4, QueueNew
<1>10. PICK r \in Seq(Seq(Byte)) : r = Append(q, b)
  <2>1. Append(q, b) \in Seq(Seq(Byte))
    BY <1>c, AppendProperties
  <2> QED  BY <2>1, Zenon
<1>12. /\ LineUp(r, pending', sending') /\ QueueOk(r, outcome')
       /\ ~resent' => WireOk(wire', size') /\ (link' = "up" => ShapeOk(r, size', wire'))
  BY <1>0, <1>1, <1>2, <1>5, <1>7, <1>8, <1>9, <1>10
<1>13. QueueInv'
  BY <1>12 DEF QueueInv
<1> QED  BY <1>2, <1>3, <1>13 DEF Settled

\* dowork writes the first queued message to its end.
LEMMA FlushWholeStep ==
    ASSUME Settled, FlushWhole
    PROVE  Settled'
<1>0. /\ pending # <<>> /\ fd = "open" /\ link = "up"
      /\ wire' = wire \o Head(pending) /\ pending' = Tail(pending)
      /\ outcome' = [outcome EXCEPT ![Head(pending)[1][1]] = "complete"]
      /\ UNCHANGED <<io_state, fd, sending, link, size, resent>>
  <2>1. MessageOf(Head(pending)) = Head(pending)[1][1]
    BY DEF MessageOf
  <2> QED  BY <2>1 DEF FlushWhole, Written
<1>1. /\ pending \in Seq(Seq(Byte)) /\ sending \in [Threads -> Seq(Byte)]
      /\ outcome \in Seq(Outcomes) /\ size \in Seq(Nat) /\ Len(size) = Len(outcome)
  BY DEF Settled, XioTypes
<1>2. PICK q \in Seq(Seq(Byte)) :
         /\ LineUp(q, pending, sending)
         /\ QueueOk(q, outcome)
         /\ ~resent => /\ WireOk(wire, size)
                       /\ fd = "open" /\ link = "up" => ShapeOk(q, size, wire)
  BY DEF Settled, QueueInv
<1>3. q # <<>> /\ q[1] = Head(pending) /\ LineUp(Tail(q), Tail(pending), sending)
  BY <1>0, <1>1, <1>2, LineFront
<1>4. Msg(q[1]) \in 1 .. Len(outcome)
  <2>1. 1 \in 1 .. Len(q)
    BY <1>3
  <2> QED  BY <1>2, <2>1 DEF QueueOk
<1>5. outcome' = [outcome EXCEPT ![Msg(q[1])] = "complete"]
  BY <1>0, <1>3 DEF Msg
<1>6. outcome' \in Seq(Outcomes) /\ Len(outcome') = Len(outcome)
  <2>1. "complete" \in Outcomes
    BY DEF Outcomes
  <2>2. \A e \in Outcomes, i \in 1 .. Len(outcome) :
           /\ [outcome EXCEPT ![i] = e] \in Seq(Outcomes)
           /\ Len([outcome EXCEPT ![i] = e]) = Len(outcome)
    BY <1>1, ExceptSeq
  <2> QED  BY <1>4, <1>5, <2>1, <2>2, Zenon
<1>7. Tail(pending) \in Seq(Seq(Byte)) /\ Tail(q) \in Seq(Seq(Byte))
  BY <1>0, <1>1, <1>3, TailOf
<1>8. XioTypes'
  BY <1>0, <1>1, <1>6, <1>7 DEF XioTypes
<1>9. OpenInv'
  BY <1>0 DEF OpenInv
<1>10. QueueOk(Tail(q), outcome')
  BY <1>1, <1>2, <1>3, <1>5, QueueCompleted
<1>11. ~resent => /\ WireOk(wire \o q[1], size)
                  /\ ShapeOk(Tail(q), size, wire \o q[1])
  BY <1>0, <1>2, <1>3, ShapeFlushed
<1>12. PICK r \in Seq(Seq(Byte)) : r = Tail(q)
  BY <1>7
<1>13. /\ LineUp(r, pending', sending') /\ QueueOk(r, outcome')
       /\ ~resent' => WireOk(wire', size') /\ ShapeOk(r, size', wire')
  BY <1>0, <1>3, <1>10, <1>11, <1>12
<1>14. QueueInv'
  BY <1>13 DEF QueueInv
<1> QED  BY <1>8, <1>9, <1>14 DEF Settled

\* The first message of the line is replaced by other bytes b of the same message.
LEMMA HeadStep ==
    ASSUME Settled, pending # <<>>, NEW b, OneMessage(b), Msg(b) = Msg(Head(pending)),
           pending' = <<b>> \o Tail(pending),
           UNCHANGED <<io_state, fd, sending, link, size, outcome>>
    PROVE  /\ XioTypes' /\ OpenInv'
           /\ \A q \in Seq(Seq(Byte)) : LineUp(q, pending, sending) /\ QueueOk(q, outcome)
                 => /\ q # <<>> /\ q[1] = Head(pending)
                    /\ LineUp(<<b>> \o Tail(q), pending', sending')
                    /\ QueueOk(<<b>> \o Tail(q), outcome')
                    /\ <<b>> \o Tail(q) \in Seq(Seq(Byte))
<1>1. /\ pending \in Seq(Seq(Byte)) /\ sending \in [Threads -> Seq(Byte)]
      /\ outcome \in Seq(Outcomes) /\ size \in Seq(Nat) /\ Len(size) = Len(outcome)
      /\ b \in Seq(Byte)
  BY DEF Settled, XioTypes, OneMessage
<1>2. pending' \in Seq(Seq(Byte))
  BY <1>1, HeadReplaced
<1>3. XioTypes'
  BY <1>1, <1>2 DEF XioTypes
<1>4. OpenInv'
  BY DEF Settled, OpenInv
<1>5. ASSUME NEW q \in Seq(Seq(Byte)), LineUp(q, pending, sending), QueueOk(q, outcome)
      PROVE  /\ q # <<>> /\ q[1] = Head(pending)
             /\ LineUp(<<b>> \o Tail(q), pending', sending')
             /\ QueueOk(<<b>> \o Tail(q), outcome')
             /\ <<b>> \o Tail(q) \in Seq(Seq(Byte))
  <2>1. /\ q # <<>> /\ q[1] = Head(pending)
        /\ LineUp(<<b>> \o Tail(q), <<b>> \o Tail(pending), sending)
    BY <1>1, <1>5, LineFront
  <2>2. QueueOk(<<b>> \o Tail(q), outcome)
    BY <1>5, <2>1, QueueHead
  <2>3. <<b>> \o Tail(q) \in Seq(Seq(Byte))
    BY <1>1, <2>1, HeadReplaced
  <2> QED  BY <2>1, <2>2, <2>3
<1> QED  BY <1>3, <1>4, <1>5

\* The first queued entry is of one message.
LEMMA HeadIsOne ==
    ASSUME Settled, pending # <<>>
    PROVE  OneMessage(Head(pending)) /\ Len(Head(pending)) \in Nat
<1>1. PICK q \in Seq(Seq(Byte)) : LineUp(q, pending, sending) /\ QueueOk(q, outcome)
  BY DEF Settled, QueueInv
<1>2. q # <<>> /\ q[1] = Head(pending)
  BY <1>1, LineFront DEF Settled, XioTypes
<1>3. 1 \in 1 .. Len(q)
  BY <1>2
<1>4. OneMessage(q[1])
  BY <1>1, <1>3 DEF QueueOk
<1> QED  BY <1>2, <1>4 DEF OneMessage

\* socketio_dowork writes a part of it.
LEMMA SocketFlushPartStep ==
    ASSUME Settled, NEW k \in Nat \ {0}, SocketFlushPart(k)
    PROVE  Settled'
<1> DEFINE a == Head(pending)
<1>0. /\ pending # <<>> /\ fd = "open" /\ link = "up" /\ k < Len(a)
      /\ wire' = wire \o SubSeq(a, 1, k)
      /\ pending' = <<Rest(a, k)>> \o Tail(pending)
      /\ UNCHANGED <<io_state, fd, sending, link, size, outcome, resent>>
  BY DEF SocketFlushPart, Written
<1>1. OneMessage(a)
  BY <1>0, HeadIsOne
<1>2. OneMessage(Rest(a, k)) /\ Msg(Rest(a, k)) = Msg(a)
  BY <1>0, <1>1, RestIsOne
<1>3. PICK q \in Seq(Seq(Byte)) :
         /\ LineUp(q, pending, sending)
         /\ QueueOk(q, outcome)
         /\ ~resent => /\ WireOk(wire, size)
                       /\ fd = "open" /\ link = "up" => ShapeOk(q, size, wire)
  BY DEF Settled, QueueInv
<1>4. /\ XioTypes' /\ OpenInv'
      /\ \A x \in Seq(Seq(Byte)) : LineUp(x, pending, sending) /\ QueueOk(x, outcome)
            => /\ x # <<>> /\ x[1] = a
               /\ LineUp(<<Rest(a, k)>> \o Tail(x), pending', sending')
               /\ QueueOk(<<Rest(a, k)>> \o Tail(x), outcome')
               /\ <<Rest(a, k)>> \o Tail(x) \in Seq(Seq(Byte))
  BY <1>0, <1>2, HeadStep
<1>5. PICK r \in Seq(Seq(Byte)) : r = <<Rest(a, k)>> \o Tail(q)
  BY <1>3, <1>4, Zenon
<1>6. q # <<>> /\ q[1] = a /\ LineUp(r, pending', sending') /\ QueueOk(r, outcome')
  BY <1>3, <1>4, <1>5, Zenon
<1> HIDE DEF a
<1>7. ~resent => WireOk(wire \o SubSeq(a, 1, k), size) /\ ShapeOk(r, size, wire \o SubSeq(a, 1, k))
  <2> SUFFICES ASSUME ~resent
               PROVE  /\ WireOk(wire \o SubSeq(a, 1, k), size)
                      /\ ShapeOk(r, size, wire \o SubSeq(a, 1, k))
    OBVIOUS
  <2>1. WireOk(wire, size) /\ ShapeOk(q, size, wire) /\ k < Len(q[1])
    BY <1>0, <1>3, <1>6
  <2>2. /\ WireOk(wire \o SubSeq(q[1], 1, k), size)
        /\ ShapeOk(<<Rest(q[1], k)>> \o Tail(q), size, wire \o SubSeq(q[1], 1, k))
    BY <1>6, <2>1, ShapeCut
  <2> QED  BY <1>5, <1>6, <2>2
<1>8. ~resent' => WireOk(wire', size') /\ ShapeOk(r, size', wire')
  BY <1>0, <1>7
<1>9. QueueInv'
  BY <1>6, <1>8 DEF QueueInv
<1> QED  BY <1>4, <1>9 DEF Settled

\* serialio_dowork writes a part of it and leaves bytes that were written.
LEMMA SerialFlushPartStep ==
    ASSUME Settled, NEW k \in Nat \ {0}, SerialFlushPart(k)
    PROVE  Settled'
<1> DEFINE a == Head(pending)  b == Rest(a, k) \o Rest(a, Len(a) - k)
<1>0. /\ pending # <<>> /\ k < Len(a)
      /\ pending' = <<b>> \o Tail(pending) /\ resent'
      /\ UNCHANGED <<io_state, fd, sending, link, size, outcome>>
  BY DEF SerialFlushPart
<1>1. OneMessage(a)
  BY <1>0, HeadIsOne
<1>2. OneMessage(b) /\ Msg(b) = Msg(a)
  BY <1>0, <1>1, ShiftedIsOne
<1>3. PICK q \in Seq(Seq(Byte)) : LineUp(q, pending, sending) /\ QueueOk(q, outcome)
  BY DEF Settled, QueueInv
<1> HIDE DEF b
<1>4. /\ XioTypes' /\ OpenInv'
      /\ \A x \in Seq(Seq(Byte)) : LineUp(x, pending, sending) /\ QueueOk(x, outcome)
            => /\ LineUp(<<b>> \o Tail(x), pending', sending')
               /\ QueueOk(<<b>> \o Tail(x), outcome')
               /\ <<b>> \o Tail(x) \in Seq(Seq(Byte))
  BY <1>0, <1>2, HeadStep
<1>5. PICK r \in Seq(Seq(Byte)) : r = <<b>> \o Tail(q)
  BY <1>3, <1>4, Zenon
<1>6. LineUp(r, pending', sending') /\ QueueOk(r, outcome')
  BY <1>3, <1>4, <1>5, Zenon
<1>7. QueueInv'
  BY <1>0, <1>6 DEF QueueInv
<1> QED  BY <1>4, <1>7 DEF Settled

-----------------------------------------------------------------------------
(***************************************************************************)
(* The theorems                                                            *)
(***************************************************************************)
\* The inductive invariant.
XioInv == ~overlapped => Settled

\* Outcomes that stay are not completed.
LEMMA SameOutcomes == ASSUME Settled, outcome' = outcome PROVE NoneCompleted
  BY DEF Settled, XioTypes, NoneCompleted

\* Once two threads have been inside send at a time, this is remembered.
LEMMA OverlapStays ==
    ASSUME [Next]_vars, ~overlapped'
    PROVE  ~overlapped
<1>1. CASE Dowork
  BY <1>1 DEF Dowork, DoworkBegin, SocketFlushWhole, SerialFlushWhole, FlushWhole, SocketFlushPart,
       SerialFlushPart, SocketFlushAgain, SocketFlushError, SerialFlushError, FlushDone,
       SocketReceive, SerialReceive, Receive, ReceiveError, ClosingUnderSend, historyVars
<1>2. CASE Calls
  <2>1. CASE \E t \in Senders, n \in Sizes : SocketSend(t, n) \/ SerialSend(t, n)
    <3>1. PICK t \in Senders, n \in Sizes : Send(t, n)
      BY <2>1 DEF SocketSend, SerialSend
    <3>2. \E result : NewMessage(t, n, result)
      BY <3>1, Zenon DEF Send, SendFails, SendDropped, SendWhole, SendBehindQueue, SendPart
    <3> QED  BY <3>2 DEF NewMessage
  <2> QED  BY <1>2, <2>1 DEF Calls, SocketOpen, SerialOpen, Open, SocketClose, LetGo,
              SocketDestroyCreate, SerialDestroyCreate, Replace, ClosingUnderSend, historyVars
<1>3. CASE Queueing
  BY <1>3 DEF Queueing, SocketAddPendingIo, SerialAddPendingIo, AddPendingIo, historyVars
<1>4. CASE LinkBreaks
  BY <1>4 DEF LinkBreaks, historyVars
<1>5. CASE UNCHANGED vars
  BY <1>5 DEF vars, historyVars
<1> QED  BY <1>1, <1>2, <1>3, <1>4, <1>5 DEF Next

\* socketio_dowork cannot write: the umqtt client closes, a task is only told.
LEMMA ErrorStep ==
    ASSUME Settled, ~overlapped', SocketFlushError
    PROVE  Settled'
<1>1. /\ pending # <<>> /\ (fd = "none" \/ link = "broken") /\ IndicateError("ERROR", Tail(pending))
      /\ UNCHANGED <<sending, link, size, wire, resent>>
      /\ ~InSend
  BY DEF SocketFlushError, ClosingUnderSend
<1>2. NoneCompleted
  BY LostSome DEF SocketFlushError, Settled, XioTypes, NoneCompleted
<1>3. CASE owner = "umqtt" /\ fd = "open"
  <2>1. fd' = "none" /\ io_state' # "OPEN" /\ pending' = <<>>
    BY <1>1, <1>3 DEF IndicateError, DroppedOnClose
  <2> QED  BY <1>1, <1>2, <2>1, ClosedStep
<1>4. CASE ~(owner = "umqtt" /\ fd = "open")
  <2>1. io_state' # "OPEN" /\ pending' = Tail(pending) /\ fd' = fd
    BY <1>1, <1>4 DEF IndicateError
  <2>2. link = "broken"
    BY <1>1 DEF Settled, OpenInv
  <2> QED  BY <1>1, <1>2, <2>1, <2>2, DroppedStep
<1> QED  BY <1>3, <1>4

\* The same when reading fails.
LEMMA ReceiveErrorStep ==
    ASSUME Settled, ~overlapped', ReceiveError
    PROVE  Settled'
<1>1. /\ io_state = "OPEN" /\ IndicateError("OPEN", pending)
      /\ UNCHANGED <<sending, link, size, wire, resent>>
      /\ ~InSend
  BY DEF ReceiveError, ClosingUnderSend
<1>2. NoneCompleted
  BY LostSome DEF ReceiveError, Settled, XioTypes, NoneCompleted
<1>3. CASE owner = "umqtt" /\ fd = "open"
  <2>1. fd' = "none" /\ io_state' # "OPEN" /\ pending' = <<>>
    BY <1>1, <1>3 DEF IndicateError, DroppedOnClose
  <2> QED  BY <1>1, <1>2, <2>1, ClosedStep
<1>4. CASE ~(owner = "umqtt" /\ fd = "open")
  <2>1. pending' = pending /\ fd' = fd
    BY <1>1, <1>4 DEF IndicateError
  <2> QED  BY <1>1, <1>2, <2>1, QuietStep
<1> QED  BY <1>3, <1>4

\* Every outcome of a send.
LEMMA SendStep ==
    ASSUME Settled, ~overlapped', NEW t \in Senders, NEW n \in Sizes, Send(t, n)
    PROVE  Settled'
<1>1. t \in Threads
  BY XioAssumption, Zenon DEF Senders
<1>2. ~InSend
  BY DEF Send, SendFails, SendDropped, SendWhole, SendBehindQueue, SendPart, NewMessage
<1>3. CASE SendFails(t, n)
  <2>1. "failed" \in Outcomes /\ "failed" # "complete"
    BY DEF Outcomes
  <2> QED  BY <1>1, <1>2, <1>3, <2>1, NewSettled DEF SendFails
<1>4. CASE SendDropped(t, n)
  <2>1. "dropped" \in Outcomes /\ "dropped" # "complete"
    BY DEF Outcomes
  <2> QED  BY <1>1, <1>2, <1>4, <2>1, NewSettled DEF SendDropped
<1>5. CASE SendWhole(t, n)
  BY <1>1, <1>2, <1>5, SendWholeStep
<1>6. CASE SendBehindQueue(t, n)
  BY <1>1, <1>2, <1>6, SendBehindStep
<1>7. CASE \E k \in 1 .. (n - 1) : SendPart(t, n, k)
  BY <1>1, <1>2, <1>7, SendPartStep
<1> QED  BY <1>3, <1>4, <1>5, <1>6, <1>7 DEF Send

\* Every step of an adapter.
LEMMA XioStep ==
    ASSUME XioInv, [Next]_vars
    PROVE  XioInv'
<1> SUFFICES ASSUME ~overlapped'  PROVE Settled'
  BY DEF XioInv
<1>0. Settled
  BY OverlapStays DEF XioInv
<1>1. ASSUME UNCHANGED <<fd, pending, sending, outcome, size, wire, resent>>,
             link' \in {link, "broken"}, io_state' = io_state
      PROVE  Settled'
  BY <1>0, <1>1, SameOutcomes, QuietStep
<1>2. CASE Dowork
  <2>1. CASE DoworkBegin \/ SocketFlushAgain \/ SerialFlushError \/ FlushDone \/ Receive
    BY <1>1, <2>1
       DEF DoworkBegin, SocketFlushAgain, SerialFlushError, FlushDone, Receive, historyVars
  <2>2. CASE FlushWhole
    BY <1>0, <2>2, FlushWholeStep
  <2>3. CASE \E n \in Sizes : \E k \in 1 .. (n - 1) : SocketFlushPart(k) \/ SerialFlushPart(k)
    <3>0. PICK n \in Sizes : \E k \in 1 .. (n - 1) : SocketFlushPart(k) \/ SerialFlushPart(k)
      BY <2>3
    <3>1. PICK k \in 1 .. (n - 1) : SocketFlushPart(k) \/ SerialFlushPart(k)
      BY <3>0
    <3>2. k \in Nat \ {0}
      BY XioAssumption
    <3> QED  BY <1>0, <3>1, <3>2, SocketFlushPartStep, SerialFlushPartStep
  <2>4. CASE SocketFlushError
    BY <1>0, <2>4, ErrorStep
  <2>5. CASE ReceiveError
    BY <1>0, <2>5, ReceiveErrorStep
  <2> QED  BY <1>2, <2>1, <2>2, <2>3, <2>4, <2>5
           DEF Dowork, SocketFlushWhole, SerialFlushWhole, SocketReceive, SerialReceive
<1>3. CASE Calls
  <2>1. CASE Open
    BY <1>0, <2>1, OpenedStep
  <2>2. CASE SocketClose \/ Replace
    <3>1. NoneCompleted
      BY <1>0, <2>2, LostSome DEF SocketClose, Replace, Settled, XioTypes, NoneCompleted
    <3>2. /\ pending' = <<>> /\ fd' = "none" /\ io_state' # "OPEN" /\ ~InSend
          /\ UNCHANGED <<sending, size, wire, resent>>
      BY <2>2 DEF SocketClose, Replace, DroppedOnClose, ClosingUnderSend
    <3> QED  BY <1>0, <3>1, <3>2, ClosedStep
  <2>3. CASE LetGo
    BY <1>1, <2>3 DEF LetGo, historyVars
  <2>4. CASE \E t \in Senders, n \in Sizes : Send(t, n)
    BY <1>0, <2>4, SendStep
  <2> QED  BY <1>3, <2>1, <2>2, <2>3, <2>4
           DEF Calls, SocketOpen, SerialOpen, SocketDestroyCreate, SerialDestroyCreate,
               SocketSend, SerialSend
<1>4. CASE Queueing
  BY <1>0, <1>4, QueuedStep DEF Queueing, SocketAddPendingIo, SerialAddPendingIo
<1>5. CASE LinkBreaks
  BY <1>1, <1>5 DEF LinkBreaks, adapterVars, historyVars
<1>6. CASE UNCHANGED vars
  BY <1>1, <1>6 DEF vars, adapterVars, historyVars
<1> QED  BY <1>2, <1>3, <1>4, <1>5, <1>6 DEF Next

\* As long as sends do not overlap, the messages that wait are in the order they were
\* sent in, none of them or younger is completed, and the wire stops where they go on:
\* for any number of threads and messages and any sizes.
THEOREM XioInvariant == Spec => []XioInv
<1>1. Init => XioInv
  <2> SUFFICES ASSUME Init  PROVE Settled
    BY DEF XioInv
  <2>1. \A t \in Threads : sending[t] = Nothing
    BY DEF Init
  <2>2. XioTypes
    BY DEF Init, XioTypes, Nothing
  <2>3. OpenInv
    BY <2>1 DEF Init, OpenInv, InSend
  <2>4. WireOk(wire, size) /\ <<>> \in Seq(Seq(Byte)) /\ fd # "open"
    BY DEF Init, WireOk, FramedIn
  <2>5. LineUp(<<>>, pending, sending)
    BY <2>1 DEF Init, LineUp
  <2>6. QueueInv
    BY <2>4, <2>5, QueueEmpty DEF QueueInv
  <2> QED  BY <2>2, <2>3, <2>6 DEF Settled
<1>2. XioInv /\ [Next]_vars => XioInv'
  BY XioStep
<1> QED  BY <1>1, <1>2, PTL DEF Spec

\* Partial writes, full buffers, errors and new connections of both adapters never tear a
\* message or mix two of them, as long as no two threads are inside send at once and
\* serialio_dowork does not write a part of a queued message.
THEOREM FramesStay == Spec => []WireIsFramed
<1>1. XioInv => WireIsFramed
  BY DEF XioInv, Settled, QueueInv, WireOk, FramedIn, Framed, WireIsFramed
<1> QED  BY <1>1, XioInvariant, PTL

\* on_send_complete is called for a message only when all of it and of the older ones is
\* written.
THEOREM CompletionIsTrue == Spec => []CompletedIsWritten
<1>1. XioInv => CompletedIsWritten
  <2> SUFFICES ASSUME XioInv, ~overlapped, NEW m \in DOMAIN outcome, QueuedBytes(m)
               PROVE  \A n \in m .. Len(outcome) : outcome[n] # "complete"
    BY DEF CompletedIsWritten
  <2>1. PICK q \in Seq(Seq(Byte)) : LineUp(q, pending, sending) /\ QueueOk(q, outcome)
    BY DEF XioInv, Settled, QueueInv
  <2>2. pending \in Seq(Seq(Byte)) /\ sending \in [Threads -> Seq(Byte)] /\ Len(pending) \in Nat
    BY DEF XioInv, Settled, XioTypes
  <2>3. /\ \A i \in 1 .. Len(pending) : i \in 1 .. Len(q) /\ q[i] = pending[i]
        /\ \A t \in Threads : sending[t] # Nothing =>
              \E i \in 1 .. Len(q) : q[i] = sending[t]
    <3>1. CASE q = pending /\ \A t \in Threads : sending[t] = Nothing
      BY <3>1
    <3>2. CASE \E t \in Threads : /\ sending[t] # Nothing /\ q = Append(pending, sending[t])
                                  /\ \A u \in Threads : u # t => sending[u] = Nothing
      <4>1. PICK t \in Threads : /\ sending[t] # Nothing /\ q = Append(pending, sending[t])
                                 /\ \A u \in Threads : u # t => sending[u] = Nothing
        BY <3>2
      <4>2. \A x \in Seq(Byte) :
               /\ Len(Append(pending, x)) = Len(pending) + 1
               /\ Append(pending, x)[Len(pending) + 1] = x
               /\ \A i \in 1 .. Len(pending) : Append(pending, x)[i] = pending[i]
        BY <2>2, AppendProperties
      <4>3. /\ Len(q) = Len(pending) + 1 /\ q[Len(pending) + 1] = sending[t]
            /\ \A i \in 1 .. Len(pending) : q[i] = pending[i]
        BY <2>2, <4>1, <4>2
      <4>4. Len(pending) + 1 \in 1 .. Len(q) /\ \A i \in 1 .. Len(pending) : i \in 1 .. Len(q)
        BY <2>2, <4>3
      <4> QED  BY <4>1, <4>3, <4>4, Zenon
    <3> QED  BY <2>1, <3>1, <3>2 DEF LineUp
  <2>4. PICK i \in 1 .. Len(q) : MessageOf(q[i]) = m
    <3>1. DOMAIN pending = 1 .. Len(pending)
      BY <2>2
    <3>2. \/ \E i \in 1 .. Len(pending) : MessageOf(pending[i]) = m
          \/ \E t \in Threads : sending[t] # Nothing /\ MessageOf(sending[t]) = m
      BY <3>1 DEF QueuedBytes
    <3> QED  BY <2>3, <3>2, Zenon
  <2>5. OneMessage(q[i]) /\ NotDone(outcome, Msg(q[i]))
    BY <2>1 DEF QueueOk
  <2>6. Msg(q[i]) = m
    BY <2>4, <2>5 DEF OneMessage, MessageOf, Msg
  <2> QED  BY <2>5, <2>6 DEF NotDone
<1> QED  BY <1>1, XioInvariant, PTL

\* Nothing of an old connection is queued when a new one begins, because close_connection
\* calls xio_dowork once more.
THEOREM ConnectionsBeginClean == Spec => []NewConnectionIsClean
<1>1. XioInv => NewConnectionIsClean
  BY DEF XioInv, Settled, OpenInv, NewConnectionIsClean
<1> QED  BY <1>1, XioInvariant, PTL

-----------------------------------------------------------------------------
(***************************************************************************)
(* The adapters implement MessageTransport                                 *)
(***************************************************************************)
\* The messages in the line are those accepted and not done with.
Exact(q, o) ==
    \A m \in 1 .. Len(o) : o[m] = "accepted" <=> \E i \in 1 .. Len(q) : Msg(q[i]) = m

\* The first message of the line is done with.
LEMMA ExactTail ==
    ASSUME NEW q, NEW o \in Seq(Outcomes), QueueOk(q, o), Exact(q, o), q # <<>>,
           NEW result, result # "accepted"
    PROVE  Exact(Tail(q), [o EXCEPT ![Msg(q[1])] = result])
<1> DEFINE p == [o EXCEPT ![Msg(q[1])] = result]
<1>1. /\ Len(q) \in Nat \ {0} /\ Len(Tail(q)) = Len(q) - 1
      /\ \A i \in 1 .. (Len(q) - 1) : Tail(q)[i] = q[i + 1]
  BY TailOf DEF QueueOk
<1>2. Len(p) = Len(o) /\ Len(o) \in Nat
  OBVIOUS
<1>3. \A n \in 1 .. Len(o) : p[n] = IF n = Msg(q[1]) THEN result ELSE o[n]
  OBVIOUS
<1> HIDE DEF p
<1>4. ASSUME NEW m \in 1 .. Len(o)
      PROVE  (\E i \in 1 .. Len(Tail(q)) : Msg(Tail(q)[i]) = m)
                <=> m # Msg(q[1]) /\ \E i \in 1 .. Len(q) : Msg(q[i]) = m
  <2>1. ASSUME NEW i \in 1 .. Len(Tail(q)), Msg(Tail(q)[i]) = m
        PROVE  m # Msg(q[1]) /\ \E j \in 1 .. Len(q) : Msg(q[j]) = m
    <3>1. i + 1 \in 1 .. Len(q) /\ 1 \in 1 .. Len(q) /\ 1 < i + 1 /\ Tail(q)[i] = q[i + 1]
      BY <1>1
    <3>2. Msg(q[1]) < Msg(q[i + 1]) /\ Msg(q[1]) \in 1 .. Len(o)
      BY <3>1 DEF QueueOk
    <3>3. Msg(q[i + 1]) = m
      BY <2>1, <3>1
    <3>4. m # Msg(q[1])
      BY <1>2, <3>2, <3>3
    <3> QED  BY <3>1, <3>3, <3>4
  <2>2. ASSUME m # Msg(q[1]), NEW j \in 1 .. Len(q), Msg(q[j]) = m
        PROVE  \E i \in 1 .. Len(Tail(q)) : Msg(Tail(q)[i]) = m
    <3>1. j # 1
      BY <2>2
    <3>2. j - 1 \in 1 .. Len(Tail(q)) /\ j - 1 \in 1 .. (Len(q) - 1) /\ (j - 1) + 1 = j
      BY <1>1, <3>1
    <3>3. Tail(q)[j - 1] = q[j]
      BY <1>1, <3>2
    <3> QED  BY <2>2, <3>2, <3>3
  <2> QED  BY <2>1, <2>2
<1>5. ASSUME NEW m \in 1 .. Len(p)
      PROVE  p[m] = "accepted" <=> \E i \in 1 .. Len(Tail(q)) : Msg(Tail(q)[i]) = m
  <2>1. m \in 1 .. Len(o)
    BY <1>2
  <2>2. p[m] = "accepted" <=> m # Msg(q[1]) /\ o[m] = "accepted"
    BY <1>3, <2>1
  <2>3. o[m] = "accepted" <=> \E i \in 1 .. Len(q) : Msg(q[i]) = m
    BY <2>1 DEF Exact
  <2> QED  BY <1>4, <2>1, <2>2, <2>3
<1>6. Exact(Tail(q), p)
  BY <1>5 DEF Exact
<1> QED  BY <1>6 DEF p

\* The first message of the line keeps some of its bytes.
LEMMA ExactHead ==
    ASSUME NEW q \in Seq(Seq(Byte)), NEW o, Exact(q, o), q # <<>>,
           NEW b \in Seq(Byte), Msg(b) = Msg(q[1])
    PROVE  Exact(<<b>> \o Tail(q), o)
<1> DEFINE r == <<b>> \o Tail(q)
<1>1. /\ Len(r) = Len(q) /\ r[1] = b /\ \A i \in 2 .. Len(q) : r[i] = q[i]
  BY HeadReplaced
<1>2. Len(q) \in Nat
  OBVIOUS
<1> HIDE DEF r
<1>3. ASSUME NEW i \in 1 .. Len(q)  PROVE Msg(r[i]) = Msg(q[i])
  <2>1. i = 1 \/ i \in 2 .. Len(q)
    BY <1>2
  <2> QED  BY <1>1, <2>1
<1>4. Exact(r, o)
  BY <1>1, <1>3 DEF Exact
<1> QED  BY <1>4 DEF r

\* A message that is sent joins the line, or is done with at once.
LEMMA ExactNew ==
    ASSUME NEW q, NEW o \in Seq(Outcomes), QueueOk(q, o), Exact(q, o),
           NEW b \in Seq(Byte), Msg(b) = Len(o) + 1
    PROVE  Exact(Append(q, b), Append(o, "accepted"))
<1> DEFINE r == Append(q, b)  p == Append(o, "accepted")
<1>1. q \in Seq(Seq(Byte)) /\ Len(q) \in Nat /\ Len(o) \in Nat /\ "accepted" \in Outcomes
  BY DEF QueueOk, Outcomes
<1>2. /\ Len(r) = Len(q) + 1 /\ r[Len(q) + 1] = b
      /\ \A i \in 1 .. Len(q) : r[i] = q[i]
  BY <1>1, AppendProperties
<1>3. /\ Len(p) = Len(o) + 1 /\ p[Len(o) + 1] = "accepted"
      /\ \A i \in 1 .. Len(o) : p[i] = o[i]
  BY <1>1, AppendProperties
<1> HIDE DEF r, p
<1>4. ASSUME NEW m \in 1 .. Len(p)
      PROVE  p[m] = "accepted" <=> \E i \in 1 .. Len(r) : Msg(r[i]) = m
  <2>1. CASE m = Len(o) + 1
    <3>1. Len(q) + 1 \in 1 .. Len(r) /\ Msg(r[Len(q) + 1]) = m
      BY <1>1, <1>2, <2>1
    <3> QED  BY <1>3, <2>1, <3>1
  <2>2. CASE m # Len(o) + 1
    <3>1. m \in 1 .. Len(o)
      BY <1>1, <1>3, <2>2
    <3>2. (\E i \in 1 .. Len(r) : Msg(r[i]) = m) <=> \E i \in 1 .. Len(q) : Msg(q[i]) = m
      <4>1. ASSUME NEW i \in 1 .. Len(r), Msg(r[i]) = m  PROVE i \in 1 .. Len(q)
        <5>1. i \in 1 .. Len(q) \/ i = Len(q) + 1
          BY <1>1, <1>2
        <5> QED  BY <1>2, <2>2, <4>1, <5>1
      <4>2. \A i \in 1 .. Len(q) : i \in 1 .. Len(r)
        BY <1>1, <1>2
      <4> QED  BY <1>2, <4>1, <4>2
    <3>3. o[m] = "accepted" <=> \E i \in 1 .. Len(q) : Msg(q[i]) = m
      BY <3>1 DEF Exact
    <3> QED  BY <1>3, <3>1, <3>2, <3>3
  <2> QED  BY <2>1, <2>2
<1>5. Exact(r, p)
  BY <1>4 DEF Exact
<1> QED  BY <1>5 DEF r, p

LEMMA ExactOther ==
    ASSUME NEW q, NEW o \in Seq(Outcomes), QueueOk(q, o), Exact(q, o),
           NEW result \in Outcomes, result # "accepted"
    PROVE  Exact(q, Append(o, result))
<1> DEFINE p == Append(o, result)
<1>1. /\ Len(p) = Len(o) + 1 /\ p[Len(o) + 1] = result /\ Len(o) \in Nat
      /\ \A i \in 1 .. Len(o) : p[i] = o[i]
  BY AppendProperties
<1> HIDE DEF p
<1>2. ASSUME NEW m \in 1 .. Len(p)
      PROVE  p[m] = "accepted" <=> \E i \in 1 .. Len(q) : Msg(q[i]) = m
  <2>1. CASE m = Len(o) + 1
    <3>1. ASSUME NEW i \in 1 .. Len(q)  PROVE Msg(q[i]) # m
      <4>1. Msg(q[i]) \in 1 .. Len(o)
        BY DEF QueueOk
      <4> QED  BY <1>1, <2>1, <4>1
    <3> QED  BY <1>1, <2>1, <3>1
  <2>2. CASE m # Len(o) + 1
    <3>1. m \in 1 .. Len(o)
      BY <1>1, <2>2
    <3> QED  BY <1>1, <3>1 DEF Exact
  <2> QED  BY <2>1, <2>2
<1>3. Exact(q, p)
  BY <1>2 DEF Exact
<1> QED  BY <1>3 DEF p

\* There is only one line.
LEMMA OneLine ==
    ASSUME NEW p, NEW s, NEW q, LineUp(q, p, s), NEW r, LineUp(r, p, s)
    PROVE  q = r
  BY DEF LineUp

\* The invariant: while sends have not overlapped, every accepted message is in the line.
Exactly == \A q \in Seq(Seq(Byte)) : LineUp(q, pending, sending) => Exact(q, outcome)
TransportInv == overlapped \in BOOLEAN /\ (~overlapped => Exactly)

LEMMA TheLine ==
    ASSUME Settled, Exactly
    PROVE  \E q \in Seq(Seq(Byte)) :
              LineUp(q, pending, sending) /\ QueueOk(q, outcome) /\ Exact(q, outcome)
<1>1. PICK q \in Seq(Seq(Byte)) : LineUp(q, pending, sending) /\ QueueOk(q, outcome)
  BY DEF Settled, QueueInv
<1>2. Exact(q, outcome)
  BY <1>1 DEF Exactly
<1> QED  BY <1>1, <1>2

\* What waits, as the sender sees it.
LEMMA WaitingLine ==
    ASSUME outcome \in Seq(Outcomes), NEW q \in Seq(Seq(Byte)), QueueOk(q, outcome),
           Exact(q, outcome)
    PROVE  /\ DOMAIN outcome = 1 .. Len(outcome)
           /\ \A m : m \in T!Waiting <=> \E i \in 1 .. Len(q) : Msg(q[i]) = m
           /\ q # <<>> => T!Oldest(Msg(q[1]))
           /\ q = <<>> => T!Waiting = {}
<1>1. DOMAIN outcome = 1 .. Len(outcome) /\ Len(q) \in Nat /\ Len(outcome) \in Nat
  OBVIOUS
<1>2. \A m : m \in T!Waiting <=> m \in 1 .. Len(outcome) /\ outcome[m] = "accepted"
  BY <1>1 DEF T!Waiting
<1>3. \A i \in 1 .. Len(q) : Msg(q[i]) \in 1 .. Len(outcome)
  BY DEF QueueOk
<1>4. \A m : m \in T!Waiting <=> \E i \in 1 .. Len(q) : Msg(q[i]) = m
  BY <1>2, <1>3 DEF Exact
<1>5. ASSUME q # <<>>  PROVE T!Oldest(Msg(q[1]))
  <2>1. 1 \in 1 .. Len(q)
    BY <1>5
  <2>2. Msg(q[1]) \in T!Waiting
    BY <1>4, <2>1
  <2>3. ASSUME NEW n \in T!Waiting  PROVE Msg(q[1]) <= n
    <3>1. PICK i \in 1 .. Len(q) : Msg(q[i]) = n
      BY <1>4
    <3>2. Msg(q[1]) \in Nat
      BY <1>1, <1>3, <2>1
    <3>3. CASE i = 1
      BY <3>1, <3>2, <3>3
    <3>4. CASE i # 1
      <4>1. 1 < i
        BY <1>1, <3>4
      <4>2. Msg(q[1]) < Msg(q[i])
        BY <2>1, <4>1 DEF QueueOk
      <4>3. Msg(q[i]) \in Nat
        BY <1>1, <1>3
      <4> QED  BY <3>1, <3>2, <4>2, <4>3
    <3> QED  BY <3>3, <3>4
  <2> QED  BY <2>2, <2>3 DEF T!Oldest
<1>6. ASSUME q = <<>>  PROVE T!Waiting = {}
  BY <1>4, <1>6
<1> QED  BY <1>1, <1>4, <1>5, <1>6

\* The step of a transport that an adapter takes.
Promised == [T!Next]_(T!transportVars)

\* The line of the next state.
LEMMA NextLine ==
    ASSUME NEW r \in Seq(Seq(Byte)), LineUp(r, pending', sending'), Exact(r, outcome')
    PROVE  Exactly'
<1>1. ASSUME NEW q \in Seq(Seq(Byte)), LineUp(q, pending', sending')
      PROVE  Exact(q, outcome')
  <2>1. q = r
    BY <1>1, OneLine
  <2> QED  BY <2>1
<1> QED  BY <1>1 DEF Exactly

\* Steps that the sender does not see.
LEMMA UnseenStep ==
    ASSUME Exactly, UNCHANGED <<pending, sending, outcome, overlapped>>
    PROVE  Exactly' /\ Promised
<1>1. Exactly'
  BY DEF Exactly
<1>2. Promised
  BY DEF Promised, T!transportVars
<1> QED  BY <1>1, <1>2

LEMMA UnseenQueueing ==
    ASSUME Settled, Exactly, NEW t \in Threads, AddPendingIo(t)
    PROVE  Exactly' /\ Promised
<1> USE DEF AddPendingIo, historyVars
<1>1. PICK q \in Seq(Seq(Byte)) :
         LineUp(q, pending, sending) /\ QueueOk(q, outcome) /\ Exact(q, outcome)
  BY TheLine
<1>2. /\ q = Append(pending, sending[t])
      /\ \A u \in Threads : u # t => sending[u] = Nothing
  BY <1>1 DEF LineUp
<1>3. sending \in [Threads -> Seq(Byte)]
  BY DEF Settled, XioTypes
<1>4. q = pending' /\ \A u \in Threads : sending'[u] = Nothing
  BY <1>2, <1>3
<1>5. LineUp(q, pending', sending')
  BY <1>4 DEF LineUp
<1>6. Exactly'
  BY <1>1, <1>5, NextLine
<1>7. Promised
  BY DEF Promised, T!transportVars
<1> QED  BY <1>6, <1>7

LEMMA UnseenPart ==
    ASSUME Settled, Exactly, pending # <<>>, NEW b, OneMessage(b), Msg(b) = Msg(Head(pending)),
           pending' = <<b>> \o Tail(pending),
           UNCHANGED <<io_state, fd, sending, link, size, outcome, overlapped>>
    PROVE  Exactly' /\ Promised
<1>1. PICK q \in Seq(Seq(Byte)) :
         LineUp(q, pending, sending) /\ QueueOk(q, outcome) /\ Exact(q, outcome)
  BY TheLine
<1>2. /\ q # <<>> /\ q[1] = Head(pending)
      /\ LineUp(<<b>> \o Tail(q), pending', sending')
      /\ <<b>> \o Tail(q) \in Seq(Seq(Byte))
  BY <1>1, HeadStep
<1>3. b \in Seq(Byte)
  BY DEF OneMessage
<1>4. Exact(<<b>> \o Tail(q), outcome)
  BY <1>1, <1>2, <1>3, ExactHead
<1>5. PICK r \in Seq(Seq(Byte)) : r = <<b>> \o Tail(q)
  BY <1>2, Zenon
<1>6. LineUp(r, pending', sending') /\ Exact(r, outcome')
  BY <1>2, <1>4, <1>5
<1>7. Exactly'
  BY <1>6, NextLine
<1>8. Promised
  BY DEF Promised, T!transportVars
<1> QED  BY <1>7, <1>8

\* The oldest message is done with.
LEMMA SettledStep ==
    ASSUME Settled, Exactly, NEW q \in Seq(Seq(Byte)), LineUp(q, pending, sending),
           QueueOk(q, outcome), pending # <<>>, NEW result \in {"complete", "failed"},
           outcome' = [outcome EXCEPT ![Msg(q[1])] = result],
           pending' = Tail(pending), UNCHANGED <<sending, overlapped>>
    PROVE  Exactly' /\ Promised
<1>1. outcome \in Seq(Outcomes) /\ pending \in Seq(Seq(Byte)) /\ sending \in [Threads -> Seq(Byte)]
  BY DEF Settled, XioTypes
<1>2. Exact(q, outcome)
  BY DEF Exactly
<1>3. q # <<>> /\ LineUp(Tail(q), Tail(pending), sending)
  BY <1>1, LineFront
<1>4. Exact(Tail(q), outcome')
  BY <1>1, <1>2, <1>3, ExactTail
<1>5. Tail(q) \in Seq(Seq(Byte))
  BY <1>3, TailOf
<1>6. LineUp(Tail(q), pending', sending')
  BY <1>3
<1>7. Exactly'
  BY <1>4, <1>5, <1>6, NextLine
<1>8. T!Oldest(Msg(q[1]))
  BY <1>1, <1>2, <1>3, WaitingLine
<1>9. Msg(q[1]) \in T!Waiting
  BY <1>8 DEF T!Oldest
<1>10. T!Settle(result)
  BY <1>8, <1>9 DEF T!Settle
<1>11. Promised
  BY <1>10 DEF Promised, T!Next
<1> QED  BY <1>7, <1>11

\* The message behind some bytes in the line.
LEMMA MessageIs ==
    ASSUME NEW b, OneMessage(b)
    PROVE  MessageOf(b) = Msg(b)
<1>1. b \in Seq(Byte) /\ b # <<>>
  BY DEF OneMessage
<1>2. Head(b) = b[1]
  BY <1>1
<1> QED  BY <1>2 DEF MessageOf, Msg

\* The queue is lost while nobody is inside send.
LEMMA AbandonedStep ==
    ASSUME Settled, Exactly, ~InSend, Lost(pending), pending' = <<>>,
           UNCHANGED <<sending, overlapped>>
    PROVE  Exactly' /\ Promised
<1>1. outcome \in Seq(Outcomes) /\ pending \in Seq(Seq(Byte))
  BY DEF Settled, XioTypes
<1>2. \A t \in Threads : sending[t] = Nothing
  BY DEF InSend
<1>3. LineUp(pending, pending, sending)
  BY <1>2 DEF LineUp
<1>4. PICK q \in Seq(Seq(Byte)) :
         LineUp(q, pending, sending) /\ QueueOk(q, outcome) /\ Exact(q, outcome)
  BY TheLine
<1>5. q = pending
  BY <1>3, <1>4, OneLine
<1>6. DOMAIN outcome = 1 .. Len(outcome)
      /\ \A m : m \in T!Waiting <=> \E i \in 1 .. Len(q) : Msg(q[i]) = m
  BY <1>1, <1>4, WaitingLine
<1>7. \A i \in 1 .. Len(q) : MessageOf(q[i]) = Msg(q[i])
  BY <1>4, MessageIs DEF QueueOk
<1>8. DOMAIN q = 1 .. Len(q)
  OBVIOUS
<1>9. \A m : (\E i \in DOMAIN q : MessageOf(q[i]) = m) <=> m \in T!Waiting
  BY <1>6, <1>7, <1>8
<1>10. outcome' = [m \in DOMAIN outcome |->
                      IF \E i \in DOMAIN q : MessageOf(q[i]) = m THEN "failed" ELSE outcome[m]]
  BY <1>5 DEF Lost
<1>11. outcome' = [m \in DOMAIN outcome |-> IF m \in T!Waiting THEN "failed" ELSE outcome[m]]
  BY <1>9, <1>10
<1>12. Promised
  BY <1>11 DEF Promised, T!Next, T!Abandon
<1>13. Len(outcome') = Len(outcome) /\ outcome' \in Seq(Outcomes)
  BY <1>1, LostSome
<1>14. ASSUME NEW m \in 1 .. Len(outcome')  PROVE outcome'[m] # "accepted"
  <2>1. m \in DOMAIN outcome
    BY <1>6, <1>13
  <2>2. m \notin T!Waiting => outcome[m] # "accepted"
    BY <2>1 DEF T!Waiting
  <2> QED  BY <1>11, <2>1, <2>2
<1>15. Exact(<<>>, outcome')
  BY <1>14 DEF Exact
<1>16. LineUp(<<>>, pending', sending') /\ <<>> \in Seq(Seq(Byte))
  BY <1>2 DEF LineUp
<1>17. Exactly'
  BY <1>15, <1>16, NextLine
<1> QED  BY <1>12, <1>17

\* A task's socket gives up the oldest message only.
LEMMA GivenUpStep ==
    ASSUME Settled, Exactly, ~InSend, pending # <<>>, Lost(<<Head(pending)>>),
           pending' = Tail(pending), UNCHANGED <<sending, overlapped>>
    PROVE  Exactly' /\ Promised
<1>1. outcome \in Seq(Outcomes) /\ pending \in Seq(Seq(Byte)) /\ sending \in [Threads -> Seq(Byte)]
  BY DEF Settled, XioTypes
<1>2. PICK q \in Seq(Seq(Byte)) :
         LineUp(q, pending, sending) /\ QueueOk(q, outcome) /\ Exact(q, outcome)
  BY TheLine
<1>3. q # <<>> /\ q[1] = Head(pending)
  BY <1>1, <1>2, LineFront
<1>4. OneMessage(q[1])
  BY <1>2, <1>3 DEF QueueOk
<1>5. MessageOf(Head(pending)) = Msg(q[1])
  BY <1>3, <1>4, MessageIs
<1> DEFINE h == <<Head(pending)>>
<1>6. DOMAIN h = {1} /\ h[1] = Head(pending)
  OBVIOUS
<1>7. Lost(h)
  OBVIOUS
<1> HIDE DEF h
<1>8. \A m : (\E i \in DOMAIN h : MessageOf(h[i]) = m) <=> m = Msg(q[1])
  BY <1>5, <1>6
<1>9. outcome' = [m \in DOMAIN outcome |-> IF m = Msg(q[1]) THEN "failed" ELSE outcome[m]]
  BY <1>7, <1>8 DEF Lost
<1>10. outcome' = [outcome EXCEPT ![Msg(q[1])] = "failed"]
  BY <1>1, <1>9
<1> QED  BY <1>2, <1>10, SettledStep

\* A message that is done with when send returns.
LEMMA SentStep ==
    ASSUME Settled, Exactly, ~InSend, NEW result \in Outcomes \ {"accepted"},
           result \in {"complete", "dropped"} => pending = <<>>,
           outcome' = Append(outcome, result), UNCHANGED <<pending, sending, overlapped>>
    PROVE  Exactly' /\ Promised
<1>1. outcome \in Seq(Outcomes) /\ pending \in Seq(Seq(Byte))
  BY DEF Settled, XioTypes
<1>2. LineUp(pending, pending, sending)
  BY DEF LineUp, InSend
<1>3. PICK q \in Seq(Seq(Byte)) :
         LineUp(q, pending, sending) /\ QueueOk(q, outcome) /\ Exact(q, outcome)
  BY TheLine
<1>4. q = pending
  BY <1>2, <1>3, OneLine
<1>5. Exact(q, outcome')
  BY <1>1, <1>3, ExactOther
<1>6. LineUp(q, pending', sending')
  BY <1>3
<1>7. Exactly'
  BY <1>5, <1>6, NextLine
<1>8. result \in {"complete", "dropped"} => T!Waiting = {}
  BY <1>1, <1>3, <1>4, WaitingLine
<1>9. T!Send(result)
  BY <1>8 DEF T!Send
<1>10. result \in {"accepted", "complete", "dropped", "failed"}
  BY DEF Outcomes
<1>11. Promised
  BY <1>9, <1>10 DEF Promised, T!Next
<1> QED  BY <1>7, <1>11

\* A message that is accepted.
LEMMA AcceptedStep ==
    ASSUME Settled, Exactly, ~InSend, NEW t \in Threads, NEW b, OneMessage(b),
           Msg(b) = Len(outcome) + 1, sending' = [sending EXCEPT ![t] = b],
           outcome' = Append(outcome, "accepted"), UNCHANGED <<pending, overlapped>>
    PROVE  Exactly' /\ Promised
<1>1. /\ outcome \in Seq(Outcomes) /\ pending \in Seq(Seq(Byte))
      /\ sending \in [Threads -> Seq(Byte)] /\ b \in Seq(Byte) /\ b # <<>>
  BY DEF Settled, XioTypes, OneMessage
<1>2. LineUp(pending, pending, sending)
  BY DEF LineUp, InSend
<1>3. PICK q \in Seq(Seq(Byte)) :
         LineUp(q, pending, sending) /\ QueueOk(q, outcome) /\ Exact(q, outcome)
  BY TheLine
<1>4. q = pending
  BY <1>2, <1>3, OneLine
<1>5. Exact(Append(q, b), outcome')
  BY <1>1, <1>3, ExactNew
<1>6. LineUp(Append(pending, b), pending, sending')
  BY <1>1, NewInLine
<1>7. Append(q, b) \in Seq(Seq(Byte))
  BY <1>1, AppendProperties
<1>8. PICK r \in Seq(Seq(Byte)) : r = Append(q, b)
  BY <1>7, Zenon
<1>9. LineUp(r, pending', sending') /\ Exact(r, outcome')
  BY <1>4, <1>5, <1>6, <1>8
<1>10. Exactly'
  BY <1>9, NextLine
<1>11. T!Send("accepted")
  BY DEF T!Send
<1>12. Promised
  BY <1>11 DEF Promised, T!Next
<1> QED  BY <1>10, <1>12

\* Every outcome of a send is one that the sender may expect.
LEMMA SendPromised ==
    ASSUME Settled, Exactly, ~InSend, overlapped' = overlapped,
           NEW t \in Threads, NEW n \in Sizes, Send(t, n)
    PROVE  Exactly' /\ Promised
<1>0. /\ "failed" \in Outcomes \ {"accepted"} /\ "dropped" \in Outcomes \ {"accepted"}
      /\ "complete" \in Outcomes \ {"accepted"} /\ "failed" \notin {"complete", "dropped"}
  BY DEF Outcomes
<1>1. /\ n \in Nat \ {0} /\ size \in Seq(Nat) /\ Len(size) = Len(outcome)
      /\ Len(size) \in Nat
  BY XioAssumption DEF Settled, XioTypes
<1>2. ASSUME NEW result, NewMessage(t, n, result)
      PROVE  /\ outcome' = Append(outcome, result) /\ pending' = pending
             /\ Len(size') = Len(outcome) + 1 /\ Len(size') \in Nat
  <2>1. size' = Append(size, n) /\ outcome' = Append(outcome, result) /\ pending' = pending
    BY <1>2 DEF NewMessage, adapterVars
  <2>2. Len(size') = Len(size) + 1
    BY <1>1, <2>1, AppendProperties
  <2> QED  BY <1>1, <2>1, <2>2
<1>3. CASE SendFails(t, n)
  BY <1>0, <1>2, <1>3, SentStep DEF SendFails
<1>4. CASE SendDropped(t, n)
  BY <1>0, <1>2, <1>4, SentStep DEF SendDropped
<1>5. CASE SendWhole(t, n)
  BY <1>0, <1>2, <1>5, SentStep DEF SendWhole
<1>6. CASE SendBehindQueue(t, n)
  <2>1. NewMessage(t, n, "accepted") /\ sending' = [sending EXCEPT ![t] = Bytes(Len(size'), n)]
    BY <1>6 DEF SendBehindQueue
  <2>2. /\ outcome' = Append(outcome, "accepted") /\ pending' = pending
        /\ Len(size') = Len(outcome) + 1 /\ Len(size') \in Nat
    BY <1>2, <2>1
  <2>3. PICK m \in Nat : m = Len(size')
    BY <2>2
  <2>4. OneMessage(Bytes(m, n)) /\ Msg(Bytes(m, n)) = m
    BY <1>1, BytesAreOne
  <2> QED  BY <2>1, <2>2, <2>3, <2>4, AcceptedStep
<1>7. ASSUME NEW k \in 1 .. (n - 1), SendPart(t, n, k)
      PROVE  Exactly' /\ Promised
  <2>1. /\ NewMessage(t, n, "accepted")
        /\ sending' = [sending EXCEPT ![t] = Rest(Bytes(Len(size'), n), k)]
    BY <1>7 DEF SendPart
  <2>2. /\ outcome' = Append(outcome, "accepted") /\ pending' = pending
        /\ Len(size') = Len(outcome) + 1 /\ Len(size') \in Nat
    BY <1>2, <2>1
  <2>3. PICK m \in Nat : m = Len(size')
    BY <2>2
  <2>4. OneMessage(Bytes(m, n)) /\ Msg(Bytes(m, n)) = m /\ Len(Bytes(m, n)) = n
    BY <1>1, BytesAreOne
  <2>5. k \in Nat \ {0} /\ k < n
    BY <1>1
  <2>6. OneMessage(Rest(Bytes(m, n), k)) /\ Msg(Rest(Bytes(m, n), k)) = m
    BY <2>4, <2>5, RestIsOne
  <2> QED  BY <2>1, <2>2, <2>3, <2>6, AcceptedStep
<1> QED  BY <1>3, <1>4, <1>5, <1>6, <1>7 DEF Send

\* So is every step of dowork.
LEMMA DoworkPromised ==
    ASSUME Settled, Exactly, overlapped \in BOOLEAN, ~overlapped', ~overlapped, Dowork
    PROVE  Exactly' /\ Promised
<1>1. CASE DoworkBegin \/ SocketFlushAgain \/ SerialFlushError \/ FlushDone \/ Receive
  BY <1>1, UnseenStep
     DEF DoworkBegin, SocketFlushAgain, SerialFlushError, FlushDone, Receive, historyVars
<1>2. CASE FlushWhole
  <2>1. /\ pending # <<>> /\ pending' = Tail(pending)
        /\ outcome' = [outcome EXCEPT ![MessageOf(Head(pending))] = "complete"]
        /\ UNCHANGED <<sending, overlapped>>
    BY <1>2 DEF FlushWhole
  <2>2. PICK q \in Seq(Seq(Byte)) :
           LineUp(q, pending, sending) /\ QueueOk(q, outcome) /\ Exact(q, outcome)
    BY TheLine
  <2>3. q # <<>> /\ q[1] = Head(pending)
    BY <2>1, <2>2, LineFront DEF Settled, XioTypes
  <2>4. MessageOf(Head(pending)) = Msg(q[1])
    <3>1. OneMessage(q[1])
      BY <2>2, <2>3 DEF QueueOk
    <3> QED  BY <2>3, <3>1, MessageIs
  <2> QED  BY <2>1, <2>2, <2>4, SettledStep
<1>3. ASSUME NEW n \in Sizes, NEW k \in 1 .. (n - 1), SocketFlushPart(k)
      PROVE  Exactly' /\ Promised
  <2>0. k \in Nat \ {0}
    BY XioAssumption
  <2>1. /\ pending # <<>> /\ k < Len(Head(pending))
        /\ pending' = <<Rest(Head(pending), k)>> \o Tail(pending)
        /\ UNCHANGED <<io_state, fd, sending, link, size, outcome, overlapped>>
    BY <1>3 DEF SocketFlushPart
  <2>2. OneMessage(Head(pending))
    BY <2>1, HeadIsOne
  <2>3. /\ OneMessage(Rest(Head(pending), k))
        /\ Msg(Rest(Head(pending), k)) = Msg(Head(pending))
    BY <2>0, <2>1, <2>2, RestIsOne
  <2> QED  BY <2>1, <2>3, UnseenPart
<1>4. ASSUME NEW n \in Sizes, NEW k \in 1 .. (n - 1), SerialFlushPart(k)
      PROVE  Exactly' /\ Promised
  <2> DEFINE a == Head(pending)  b == Rest(a, k) \o Rest(a, Len(a) - k)
  <2>0. k \in Nat \ {0}
    BY XioAssumption
  <2>1. /\ pending # <<>> /\ k < Len(a) /\ pending' = <<b>> \o Tail(pending)
        /\ UNCHANGED <<io_state, fd, sending, link, size, outcome, overlapped>>
    BY <1>4 DEF SerialFlushPart
  <2>2. OneMessage(a)
    BY <2>1, HeadIsOne
  <2>3. OneMessage(b) /\ Msg(b) = Msg(a)
    BY <2>0, <2>1, <2>2, ShiftedIsOne
  <2> HIDE DEF b
  <2> QED  BY <2>1, <2>3, UnseenPart
<1>5. CASE SocketFlushError
  <2>1. /\ pending # <<>> /\ IndicateError("ERROR", Tail(pending)) /\ sending' = sending
        /\ overlapped' = (overlapped \/ InSend)
        /\ Lost(IF owner = "umqtt" /\ fd = "open" THEN pending ELSE <<Head(pending)>>)
    BY <1>5 DEF SocketFlushError, ClosingUnderSend
  <2>2. ~InSend /\ overlapped' = overlapped
    BY <2>1
  <2>3. CASE owner = "umqtt" /\ fd = "open"
    BY <2>1, <2>2, <2>3, AbandonedStep DEF IndicateError, DroppedOnClose
  <2>4. CASE ~(owner = "umqtt" /\ fd = "open")
    <3>1. pending' = Tail(pending) /\ Lost(<<Head(pending)>>)
      BY <2>1, <2>4 DEF IndicateError
    <3> QED  BY <2>1, <2>2, <3>1, GivenUpStep
  <2> QED  BY <2>3, <2>4
<1>6. CASE ReceiveError
  <2>1. /\ io_state = "OPEN" /\ IndicateError("OPEN", pending) /\ sending' = sending
        /\ overlapped' = (overlapped \/ InSend)
        /\ Lost(IF owner = "umqtt" THEN pending ELSE <<>>)
    BY <1>6 DEF ReceiveError, ClosingUnderSend
  <2>2. ~InSend /\ overlapped' = overlapped /\ fd = "open"
    BY <2>1 DEF Settled, OpenInv
  <2>3. CASE owner = "umqtt"
    BY <2>1, <2>2, <2>3, AbandonedStep DEF IndicateError, DroppedOnClose
  <2>4. CASE owner # "umqtt"
    <3>1. pending' = pending
      BY <2>1, <2>4 DEF IndicateError
    <3>2. outcome' = outcome
      <4>1. outcome \in Seq(Outcomes)
        BY DEF Settled, XioTypes
      <4>2. outcome' = [m \in DOMAIN outcome |-> outcome[m]]
        BY <2>1, <2>4 DEF Lost
      <4> QED  BY <4>1, <4>2
    <3> QED  BY <2>1, <2>2, <3>1, <3>2, UnseenStep
  <2> QED  BY <2>3, <2>4
<1> QED  BY <1>1, <1>2, <1>3, <1>4, <1>5, <1>6
         DEF Dowork, SocketFlushWhole, SerialFlushWhole, SocketReceive, SerialReceive

LEMMA TransportStep ==
    ASSUME XioInv, TransportInv, [Next]_vars
    PROVE  TransportInv' /\ Promised
<1>0. overlapped' \in BOOLEAN
  <2>1. CASE Calls
    <3>1. CASE \E t \in Senders, n \in Sizes : SocketSend(t, n) \/ SerialSend(t, n)
      <4>1. PICK t \in Senders, n \in Sizes : Send(t, n)
        BY <3>1 DEF SocketSend, SerialSend
      <4>2. \E result : NewMessage(t, n, result)
        BY <4>1, Zenon DEF Send, SendFails, SendDropped, SendWhole, SendBehindQueue, SendPart
      <4> QED  BY <4>2 DEF NewMessage
    <3> QED  BY <2>1, <3>1 DEF TransportInv, Calls, SocketOpen, SerialOpen, Open, SocketClose,
                LetGo, SocketDestroyCreate, SerialDestroyCreate, Replace, ClosingUnderSend,
                historyVars
  <2>2. CASE ~Calls
    BY <2>2 DEF TransportInv, Next, Dowork, DoworkBegin, SocketFlushWhole, SerialFlushWhole,
         FlushWhole, SocketFlushPart, SerialFlushPart, SocketFlushAgain, SocketFlushError,
         SerialFlushError, FlushDone, SocketReceive, SerialReceive, Receive, ReceiveError,
         ClosingUnderSend, Queueing, SocketAddPendingIo, SerialAddPendingIo, AddPendingIo,
         LinkBreaks, vars, historyVars
  <2> QED  BY <2>1, <2>2
<1>1. CASE overlapped'
  <2>1. overlapped' = TRUE
    BY <1>0, <1>1
  <2> QED  BY <1>0, <2>1 DEF TransportInv, Promised, T!Next, T!Overlap
<1>2. CASE ~overlapped'
  <2>0. ~overlapped /\ overlapped \in BOOLEAN /\ Settled /\ Exactly /\ overlapped' = overlapped
    BY <1>0, <1>2, OverlapStays DEF XioInv, TransportInv
  <2> SUFFICES Exactly' /\ Promised
    BY <1>0 DEF TransportInv
  <2>1. CASE Dowork
    BY <1>2, <2>0, <2>1, DoworkPromised
  <2>2. CASE Open \/ LetGo \/ LinkBreaks \/ UNCHANGED vars
    BY <2>0, <2>2, UnseenStep DEF Open, LetGo, LinkBreaks, vars, adapterVars, historyVars
  <2>3. CASE SocketClose \/ Replace
    <3>1. Lost(pending) /\ pending' = <<>> /\ sending' = sending
          /\ overlapped' = (overlapped \/ InSend)
      BY <2>3 DEF SocketClose, Replace, DroppedOnClose, ClosingUnderSend
    <3>2. ~InSend
      BY <1>2, <3>1
    <3> QED  BY <2>0, <3>1, <3>2, AbandonedStep
  <2>4. ASSUME NEW t \in Senders, NEW n \in Sizes, Send(t, n)
        PROVE  Exactly' /\ Promised
    <3>1. t \in Threads
      BY XioAssumption, Zenon DEF Senders
    <3>2. ~InSend
      BY <1>2, <2>4 DEF Send, SendFails, SendDropped, SendWhole, SendBehindQueue, SendPart,
                        NewMessage
    <3> QED  BY <2>0, <2>4, <3>1, <3>2, SendPromised
  <2>5. ASSUME NEW t \in Threads, AddPendingIo(t)
        PROVE  Exactly' /\ Promised
    BY <2>0, <2>5, UnseenQueueing
  <2> QED  BY <2>1, <2>2, <2>3, <2>4, <2>5
           DEF Next, Calls, SocketOpen, SerialOpen, SocketDestroyCreate, SerialDestroyCreate,
               SocketSend, SerialSend, Queueing, SocketAddPendingIo, SerialAddPendingIo
<1> QED  BY <1>1, <1>2

\* As long as no two calls get in each other's way, the socket and the serial adapter are
\* the transport their users expect: every message is done with once, those accepted in the
\* order they were sent in, and no message overtakes one that waits.  This holds for any
\* threads and sizes, whatever is written at once, whatever fails and whenever the owner
\* closes or replaces the adapter.
THEOREM TransportImplemented == Spec => ImplementsTransport
<1>1. Init => TransportInv /\ T!Init
  <2> SUFFICES ASSUME Init  PROVE TransportInv /\ T!Init
    OBVIOUS
  <2>1. outcome = <<>> /\ overlapped = FALSE
    BY DEF Init
  <2>2. Exactly
    BY <2>1 DEF Exactly, Exact
  <2> QED  BY <2>1, <2>2 DEF TransportInv, T!Init
<1>2. XioInv /\ TransportInv /\ [Next]_vars => TransportInv' /\ [T!Next]_(T!transportVars)
  BY TransportStep DEF Promised
<1> QED  BY <1>1, <1>2, XioInvariant, PTL DEF Spec, ImplementsTransport, T!Spec

=============================================================================
