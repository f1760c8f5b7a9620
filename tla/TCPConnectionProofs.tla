------------------------- MODULE TCPConnectionProofs -------------------------
(***************************************************************************)
(* Theorems about TCPConnection, for any threads, messages, buffer sizes,  *)
(* marks and bounds.                                                       *)
(***************************************************************************)
EXTENDS TCPConnection, SequenceTheorems, TLAPS

ChannelType == [events : SUBSET Flags, polling : BOOLEAN, interest : SUBSET Flags]
SockType    == [room : 0 .. SndBuf, input : BOOLEAN, fin : BOOLEAN, rst : BOOLEAN,
                err : BOOLEAN, finSent : BOOLEAN, open : BOOLEAN]

------------------------------------------------------------------------------
(* The operators on a channel *)

\* An update of m_events to a set that is not empty.
LEMMA UpdateFacts ==
  ASSUME NEW ch \in ChannelType, NEW e \in SUBSET Flags, e # {},
         NEW c, c = UpdateChannel([ch EXCEPT !.events = e])
  PROVE  /\ c \in ChannelType /\ c.events = e /\ c.polling
         /\ c.interest = IF "EXCLUSIVE" \in e THEN ch.interest ELSE e
<1>1. PICK d : d = [ch EXCEPT !.events = e]
  OBVIOUS
<1>2. d \in ChannelType /\ d.events = e /\ d.interest = ch.interest
  BY <1>1 DEF ChannelType
<1>3. ~IsNoneEvents(d)
  BY <1>2 DEF IsNoneEvents
<1>4. c = [EpollCtl(d) EXCEPT !.polling = TRUE]
  BY <1>1, <1>3 DEF UpdateChannel
<1>5. EpollCtl(d) \in ChannelType /\ EpollCtl(d).events = e
      /\ EpollCtl(d).interest = IF "EXCLUSIVE" \in e THEN ch.interest ELSE e
  BY <1>2 DEF EpollCtl, ChannelType
<1>6. QED
  BY <1>4, <1>5 DEF ChannelType

\* enableRead() and enableWrite(): epoll is told, unless EPOLLEXCLUSIVE is set.
LEMMA EnableFacts ==
  ASSUME NEW ch \in ChannelType, NEW c, c = EnableRead(ch) \/ c = EnableWrite(ch)
  PROVE  /\ c \in ChannelType /\ ch.events \subseteq c.events /\ c.polling
         /\ "EXCLUSIVE" \in c.events <=> "EXCLUSIVE" \in ch.events
         /\ c.interest = IF "EXCLUSIVE" \in ch.events THEN ch.interest ELSE c.events
<1>1. PICK new \in {{"IN", "PRI"}, {"OUT"}} :
        c = UpdateChannel([ch EXCEPT !.events = ch.events \cup new])
  BY DEF EnableRead, EnableWrite, ChannelType
<1>2. ch.events \cup new \in SUBSET Flags /\ ch.events \cup new # {} /\ "EXCLUSIVE" \notin new
  BY DEF ChannelType, Flags
<1>3. QED
  BY <1>1, <1>2, UpdateFacts

LEMMA EnableWriteWrites ==
  ASSUME NEW ch \in ChannelType
  PROVE  "OUT" \in EnableWrite(ch).events
BY DEF ChannelType, EnableWrite, UpdateChannel, IsNoneEvents, EpollCtl, Flags

\* disableRead() and disableWrite() set every other bit, and clear none: the
\* kernel refuses what they ask for.
LEMMA DisableFacts ==
  ASSUME NEW ch \in ChannelType, NEW c, c = DisableRead(ch) \/ c = DisableWrite(ch)
  PROVE  /\ c \in ChannelType /\ ch.events \subseteq c.events /\ c.polling
         /\ "EXCLUSIVE" \in c.events
         /\ c.interest = ch.interest
<1>1. PICK new \in {Flags \ {"IN"}, Flags \ {"OUT"}} :
        c = UpdateChannel([ch EXCEPT !.events = ch.events \cup new])
  BY DEF DisableRead, DisableWrite, ChannelType
<1>2. ch.events \cup new \in SUBSET Flags /\ "EXCLUSIVE" \in ch.events \cup new
  BY DEF ChannelType, Flags
<1>3. QED
  BY <1>1, <1>2, UpdateFacts

LEMMA DisableAllFacts ==
  ASSUME NEW ch \in ChannelType
  PROVE  /\ DisableAll(ch) \in ChannelType
         /\ DisableAll(ch).events = {}
         /\ ch.polling => ~DisableAll(ch).polling
BY DEF ChannelType, DisableAll, UpdateChannel, IsNoneEvents, EpollCtl, Flags

(* The operators on the socket *)

LEMMA AfterWriteFacts ==
  ASSUME sock \in SockType, NEW n \in Nat, n <= sock.room, SndBuf \in Nat
  PROVE  /\ AfterWrite(n) \in SockType
         /\ AfterWrite(n).finSent = sock.finSent
         /\ AfterWrite(n).rst = sock.rst
         /\ AfterWrite(n).open = sock.open
<1>1. sock.room - n \in 0 .. SndBuf
  BY DEF SockType
<1>2. (sock.err /\ ~Broken) \in BOOLEAN
  OBVIOUS
<1>3. AfterWrite(n) = [sock EXCEPT !.room = sock.room - n, !.err = sock.err /\ ~Broken]
  BY DEF AfterWrite, SockType
<1>4. QED
  BY <1>1, <1>2, <1>3 DEF SockType

LEMMA ShutdownFacts ==
  ASSUME NEW s, NEW ch, NEW k \in SockType
  PROVE  /\ ShutdownInLoop(s, ch, k) \in SockType
         /\ ShutdownInLoop(s, ch, k).rst = k.rst
         /\ ShutdownInLoop(s, ch, k).open = k.open
         /\ k.finSent => ShutdownInLoop(s, ch, k).finSent
         /\ ShutdownInLoop(s, ch, k).finSent /\ ~k.finSent => ~IsWriting(ch) /\ s # "kDisconnected"
BY DEF ShutdownInLoop, SockType

(* The bytes of a write *)

LEMMA TakeDrop ==
  ASSUME NEW S, NEW s \in Seq(S), NEW n \in 0 .. Len(s)
  PROVE  /\ Take(s, n) \in Seq(S) /\ Drop(s, n) \in Seq(S)
         /\ Len(Take(s, n)) = n /\ Len(Drop(s, n)) = Len(s) - n
         /\ Take(s, n) \o Drop(s, n) = s
<1>1. Len(s) \in Nat /\ DOMAIN s = 1 .. Len(s) /\ \A i \in 1 .. Len(s) : s[i] \in S
  BY LenProperties, ElementOfSeq
<1>2. Take(s, n) \in Seq(S) /\ Len(Take(s, n)) = n
  <2>1. \A i \in 1 .. n : s[i] \in S
    BY <1>1
  <2>2. SubSeq(s, 1, n) \in Seq(S) /\ Len(SubSeq(s, 1, n)) = IF 1 <= n THEN n - 1 + 1 ELSE 0
    BY <1>1, <2>1, SubSeqProperties
  <2>3. QED
    BY <1>1, <2>2 DEF Take
<1>3. Drop(s, n) \in Seq(S) /\ Len(Drop(s, n)) = Len(s) - n
  <2>1. \A i \in n + 1 .. Len(s) : s[i] \in S
    BY <1>1
  <2>2. /\ SubSeq(s, n + 1, Len(s)) \in Seq(S)
        /\ Len(SubSeq(s, n + 1, Len(s))) = IF n + 1 <= Len(s) THEN Len(s) - (n + 1) + 1 ELSE 0
    BY <1>1, <2>1, SubSeqProperties
  <2>3. \A l \in Nat : \A m \in 0 .. l : (IF m + 1 <= l THEN l - (m + 1) + 1 ELSE 0) = l - m
    OBVIOUS
  <2>4. QED
    BY <1>1, <2>2, <2>3 DEF Drop
<1>4. SubSeq(s, 1, n) \o SubSeq(s, n + 1, Len(s)) = SubSeq(s, 1, Len(s))
  <2>1. 1 \in 1 .. Len(s) + 1 /\ n \in 1 - 1 .. Len(s) /\ Len(s) \in n .. Len(s)
    BY <1>1
  <2>2. QED
    BY <2>1, ConcatAdjacentSubSeq
<1>5. QED
  BY <1>2, <1>3, <1>4, SubSeqFull DEF Take, Drop

LEMMA TakeNone ==
  ASSUME NEW S, NEW s \in Seq(S)
  PROVE  Take(s, 0) = <<>> /\ Drop(s, 0) = s
BY SubSeqEmpty, SubSeqFull, LenProperties DEF Take, Drop

LEMMA DropAll ==
  ASSUME NEW S, NEW s \in Seq(S)
  PROVE  Drop(s, Len(s)) = <<>>
BY SubSeqEmpty, LenProperties DEF Drop

LEMMA WrittenBound ==
  ASSUME sock \in SockType, SndBuf \in Nat, NEW S, NEW data \in Seq(S)
  PROVE  /\ Written(data) \in 0 .. Len(data) /\ Written(data) <= sock.room
         /\ Broken => Written(data) = 0
<1>1. Len(data) \in Nat /\ sock.room \in Nat
  BY LenProperties DEF SockType
<1>2. QED
  BY <1>1 DEF Written, Least

\* ConcatAssociative, for bytes and for closures.
LEMMA BytesInARow ==
  ASSUME NEW p \in Seq(Byte), NEW q \in Seq(Byte), NEW r \in Seq(Byte)
  PROVE  (p \o q) \o r = p \o (q \o r)
BY ConcatAssociative

LEMMA TasksInARow ==
  ASSUME NEW p \in Seq(Task), NEW q \in Seq(Task), NEW r \in Seq(Task)
  PROVE  (p \o q) \o r = p \o (q \o r)
BY ConcatAssociative

\* Of w and o, t is put between them and r after: t \o r has come after both.
Split(w, o, t, r)    == (w \o t) \o (o \o r) = (w \o o) \o (t \o r)
Follows(w, o, t, r, d) == (w \o t) \o (o \o r) = (w \o o) \o d

LEMMA Regroup ==
  ASSUME NEW w \in Seq(Byte), NEW o \in Seq(Byte), NEW t \in Seq(Byte), NEW r \in Seq(Byte),
         t = <<>> \/ o = <<>>
  PROVE  Split(w, o, t, r)
<1>1. CASE t = <<>>
  <2>1. w \o t = w /\ t \o r = r
    BY <1>1, ConcatEmptySeq
  <2>2. (w \o o) \o r = w \o (o \o r)
    BY BytesInARow
  <2>3. QED
    BY <2>1, <2>2 DEF Split
<1>2. CASE o = <<>>
  <2>1. o \o r = r /\ w \o o = w
    BY <1>2, ConcatEmptySeq
  <2>2. (w \o t) \o r = w \o (t \o r)
    BY BytesInARow
  <2>3. QED
    BY <2>1, <2>2 DEF Split
<1>3. QED
  BY <1>1, <1>2

\* What is written first and what is buffered after it are the data.
LEMMA SplitIsWhole ==
  ASSUME NEW w \in Seq(Byte), NEW o \in Seq(Byte), NEW d \in Seq(Byte),
         NEW n \in 0 .. Len(d), n = 0 \/ o = <<>>,
         NEW t, NEW r, t = Take(d, n), r = Drop(d, n)
  PROVE  Follows(w, o, t, r, d)
<1>1. t \in Seq(Byte) /\ r \in Seq(Byte) /\ t \o r = d
  BY TakeDrop
<1>2. n = 0 => t = <<>>
  BY TakeNone
<1>3. t = <<>> \/ o = <<>>
  BY <1>2
<1>4. Split(w, o, t, r)
  BY <1>1, <1>3, Regroup
<1>5. QED
  BY <1>1, <1>4 DEF Split, Follows

LEMMA CallbackIsInert ==
  ASSUME NEW name \in Inert
  PROVE  /\ Callback(name) \in Seq(Task)
         /\ \A i \in DOMAIN Callback(name) : Callback(name)[i].fn \in Inert
<1>1. Fn(name) \in Task /\ Fn(name).fn = name
  BY EmptySeq DEF Fn, Task, Inert, Closures
<1>2. QED
  BY <1>1 DEF Callback

\* Only callbacks of the application are queued.
InertAfter(q, r) == r \in Seq(Task) /\ \E u \in Seq(Task) : r = q \o u /\ \A i \in DOMAIN u : u[i].fn \in Inert

LEMMA InertEmpty ==
  ASSUME NEW q \in Seq(Task)
  PROVE  InertAfter(q, q)
<1>1. <<>> \in Seq(Task) /\ q = q \o <<>> /\ DOMAIN <<>> = {}
  BY EmptySeq, ConcatEmptySeq
<1>2. QED
  BY <1>1 DEF InertAfter

LEMMA InertMore ==
  ASSUME NEW q \in Seq(Task), NEW r, InertAfter(q, r), NEW v \in Seq(Task),
         \A i \in DOMAIN v : v[i].fn \in Inert
  PROVE  InertAfter(q, r \o v)
<1>1. PICK u \in Seq(Task) : r = q \o u /\ \A i \in DOMAIN u : u[i].fn \in Inert
  BY DEF InertAfter
<1>2. r \o v = q \o (u \o v) /\ u \o v \in Seq(Task) /\ r \o v \in Seq(Task)
  <2>1. (q \o u) \o v = q \o (u \o v)
    BY TasksInARow
  <2>2. QED
    BY <1>1, <2>1, ConcatProperties DEF InertAfter
<1>3. \A i \in DOMAIN (u \o v) : (u \o v)[i].fn \in Inert
  <2>1. /\ Len(u) \in Nat /\ Len(v) \in Nat /\ DOMAIN u = 1 .. Len(u) /\ DOMAIN v = 1 .. Len(v)
        /\ DOMAIN (u \o v) = 1 .. Len(u) + Len(v)
        /\ \A i \in 1 .. Len(u) + Len(v) : (u \o v)[i] = IF i <= Len(u) THEN u[i] ELSE v[i - Len(u)]
    BY <1>1, <1>2, LenProperties, ConcatProperties
  <2> SUFFICES ASSUME NEW i \in 1 .. Len(u) + Len(v) PROVE (u \o v)[i].fn \in Inert
    BY <2>1
  <2>2. i <= Len(u) => i \in DOMAIN u
    BY <2>1
  <2>3. ~(i <= Len(u)) => i - Len(u) \in DOMAIN v
    BY <2>1
  <2>4. QED
    BY <1>1, <2>1, <2>2, <2>3
<1>4. QED
  BY <1>2, <1>3 DEF InertAfter

\* The types that SendInLoop and HandleWrite need.
StreamOK ==
  /\ chan \in ChannelType /\ sock \in SockType
  /\ outBuf \in Seq(Byte) /\ wire \in Seq(Byte)

\* sendInLoop() of a connection that is not closed.
LEMMA SendFacts ==
  ASSUME StreamOK, NEW data \in Seq(Byte), NEW q \in Seq(Task), SendInLoop(data, q),
         state # "kDisconnected"
  PROVE  /\ StreamOK' /\ state' = state /\ InertAfter(q, queue')
         /\ (chan' = chan /\ outBuf' = outBuf) \/ chan' = EnableWrite(chan)
         /\ failed' = IF ~IsWriting(chan) /\ outBuf # <<>> THEN "sendInLoop" ELSE failed
         /\ sock'.finSent = sock.finSent /\ sock'.rst = sock.rst /\ sock'.open = sock.open
         /\ Broken => wire' = wire
         /\ ~Broken /\ (IsWriting(chan) \/ outBuf = <<>>) =>
              wire' \o outBuf' = (wire \o outBuf) \o data
<1> DEFINE direct == ~IsWriting(chan)
           n      == IF direct THEN Written(data) ELSE 0
           rest   == Drop(data, n)
           buffer == rest # <<>> /\ ~(direct /\ Broken)
           size   == Len(outBuf) + Len(rest)
           high   == buffer /\ Len(outBuf) < HighWaterMark /\ size >= HighWaterMark
           a      == IF rest = <<>> THEN Callback("writeComplete") ELSE <<>>
           b      == IF high THEN Callback("highWaterMark") ELSE <<>>
<1>1. /\ failed' = IF direct /\ outBuf # <<>> THEN "sendInLoop" ELSE failed
      /\ wire' = wire \o Take(data, n)
      /\ sock' = IF direct THEN AfterWrite(n) ELSE sock
      /\ outBuf' = IF buffer THEN outBuf \o rest ELSE outBuf
      /\ chan' = IF buffer THEN EnableWrite(chan) ELSE chan
      /\ queue' = q \o a \o b
      /\ UNCHANGED state
  BY DEF SendInLoop, WritesDirectly
<1>2. SndBuf \in Nat
  BY ConnectionAssumption
<1>3. /\ n \in 0 .. Len(data) /\ (direct => n <= sock.room)
      /\ Broken => n = 0
  <2>1. Len(data) \in Nat
    BY LenProperties
  <2>2. QED
    BY <1>2, <2>1, WrittenBound DEF StreamOK
<1>4. Take(data, n) \in Seq(Byte) /\ rest \in Seq(Byte)
  BY <1>3, TakeDrop
<1>5. StreamOK'
  <2>1. chan' \in ChannelType
    BY <1>1, EnableFacts DEF StreamOK
  <2>2. sock' \in SockType
    BY <1>1, <1>2, <1>3, AfterWriteFacts DEF StreamOK
  <2>3. outBuf' \in Seq(Byte) /\ wire' \in Seq(Byte)
    BY <1>1, <1>4, ConcatProperties DEF StreamOK
  <2>4. QED
    BY <2>1, <2>2, <2>3 DEF StreamOK
<1>6. InertAfter(q, queue')
  <2>1. a \in Seq(Task) /\ \A i \in DOMAIN a : a[i].fn \in Inert
    BY CallbackIsInert, EmptySeq DEF Inert
  <2>2. b \in Seq(Task) /\ \A i \in DOMAIN b : b[i].fn \in Inert
    BY CallbackIsInert, EmptySeq DEF Inert
  <2> HIDE DEF a, b
  <2>3. InertAfter(q, q \o a)
    BY <2>1, InertEmpty, InertMore
  <2>4. QED
    BY <1>1, <2>2, <2>3, InertMore
<1>7. sock'.finSent = sock.finSent /\ sock'.rst = sock.rst /\ sock'.open = sock.open
  BY <1>1, <1>2, <1>3, AfterWriteFacts DEF StreamOK
<1>8. Broken => wire' = wire
  BY <1>1, <1>3, TakeNone, ConcatEmptySeq DEF StreamOK
<1>9. ASSUME ~Broken, IsWriting(chan) \/ outBuf = <<>>
      PROVE  wire' \o outBuf' = (wire \o outBuf) \o data
  <2>1. n = 0 \/ outBuf = <<>>
    BY <1>9
  <2>2. Follows(wire, outBuf, Take(data, n), rest, data)
    <3>1. outBuf \in Seq(Byte) /\ wire \in Seq(Byte)
      BY DEF StreamOK
    <3>2. QED
      BY <1>3, <2>1, <3>1, SplitIsWhole
  <2>3. outBuf' = outBuf \o rest
    BY <1>1, <1>9, ConcatEmptySeq DEF StreamOK
  <2>4. QED
    BY <1>1, <2>2, <2>3 DEF Follows
<1>10. QED
  BY <1>1, <1>5, <1>6, <1>7, <1>8, <1>9

------------------------------------------------------------------------------
(* Types *)

\* Whole messages have been sent, so the next one is within the bound.
Whole(n) == \E k \in 0 .. MaxMsgs : n = k * MsgLen

LEMMA NextMessage ==
  ASSUME NEW m \in Nat \ {0}, NEW x \in Nat \ {0}, NEW k \in 0 .. x, k * m < m * x
  PROVE  k + 1 \in 0 .. x /\ k * m + m = (k + 1) * m /\ k * m + m <= m * x
<1>1. k + 1 <= x
  <2> SUFFICES ASSUME k = x PROVE FALSE
    OBVIOUS
  <2>1. k * m = m * x
    OBVIOUS
  <2>2. QED
    BY <2>1
<1>2. PICK d \in Nat : x = (k + 1) + d
  <2>1. x - (k + 1) \in Nat /\ x = (k + 1) + (x - (k + 1))
    BY <1>1
  <2>2. QED
    BY <2>1
<1>3. m * x = (k * m + m) + d * m /\ d * m >= 0 /\ k * m + m = (k + 1) * m
  BY <1>2
<1>4. k * m \in Nat /\ d * m \in Nat
  BY <1>2
<1>5. QED
  BY <1>1, <1>3, <1>4

LEMMA DataFacts ==
  ASSUME NEW s \in Sender, sent \in [Sender -> Nat], Whole(sent[s]),
         sent[s] < MsgLen * MaxMsgs
  PROVE  Data(s) \in Seq(Byte) /\ Len(Data(s)) = MsgLen /\ Whole(sent[s] + MsgLen)
<1>1. MsgLen \in Nat \ {0} /\ MaxMsgs \in Nat \ {0}
  BY ConnectionAssumption
<1>2. PICK k \in 0 .. MaxMsgs : sent[s] = k * MsgLen
  BY DEF Whole
<1>3. /\ k + 1 \in 0 .. MaxMsgs /\ sent[s] + MsgLen = (k + 1) * MsgLen
      /\ sent[s] + MsgLen <= MsgLen * MaxMsgs
  BY <1>1, <1>2, NextMessage
<1>4. Whole(sent[s] + MsgLen)
  BY <1>3 DEF Whole
<1>5. sent[s] \in Nat /\ MsgLen * MaxMsgs \in Nat
  BY <1>1
<1>6. \A i \in 1 .. MsgLen : sent[s] + i \in 1 .. MsgLen * MaxMsgs
  BY <1>1, <1>3, <1>5
<1>7. \A i \in 1 .. MsgLen : <<s, sent[s] + i>> \in Byte
  BY <1>6 DEF Byte
<1>8. Data(s) \in [1 .. MsgLen -> Byte]
  BY <1>7 DEF Data
<1>9. QED
  BY <1>1, <1>4, <1>8, LenProperties, SeqDef

\* handleWrite() of a connection that is not closed.
LEMMA WriteFacts ==
  ASSUME StreamOK, queue \in Seq(Task), HandleWrite, state # "kDisconnected"
  PROVE  /\ StreamOK' /\ InertAfter(queue, queue') /\ UNCHANGED <<state, appVars>>
         /\ failed' = IF outBuf = <<>> \/ ~IsWriting(chan) THEN "handleWrite" ELSE failed
         /\ chan' = chan \/ (chan' = DisableWrite(chan) /\ outBuf' = <<>>)
         /\ sock'.rst = sock.rst /\ sock'.open = sock.open
         /\ sock.finSent => sock'.finSent
         /\ sock'.finSent /\ ~sock.finSent => outBuf' = <<>>
         /\ outBuf = <<>> => outBuf' = <<>>
         /\ Broken => wire' = wire
         /\ wire' \o outBuf' = wire \o outBuf
<1> DEFINE n       == Written(outBuf)
           drained == ~Broken /\ n = Len(outBuf)
           sk      == AfterWrite(n)
           a       == IF drained THEN Callback("writeComplete") ELSE <<>>
<1>1. /\ failed' = IF outBuf = <<>> \/ ~IsWriting(chan) THEN "handleWrite" ELSE failed
      /\ wire' = wire \o Take(outBuf, n)
      /\ outBuf' = Drop(outBuf, n)
      /\ chan' = IF drained THEN DisableWrite(chan) ELSE chan
      /\ sock' = IF drained /\ state = "kDisconnecting"
                 THEN ShutdownInLoop(state, chan', sk) ELSE sk
      /\ queue' = queue \o a
      /\ UNCHANGED <<state, appVars>>
  BY DEF HandleWrite
<1>2. SndBuf \in Nat /\ outBuf \in Seq(Byte) /\ wire \in Seq(Byte) /\ sock \in SockType
      /\ chan \in ChannelType
  BY ConnectionAssumption DEF StreamOK
<1>3. n \in 0 .. Len(outBuf) /\ n <= sock.room /\ (Broken => n = 0) /\ Len(outBuf) \in Nat
  BY <1>2, WrittenBound, LenProperties
<1>4. /\ Take(outBuf, n) \in Seq(Byte) /\ Drop(outBuf, n) \in Seq(Byte)
      /\ Take(outBuf, n) \o Drop(outBuf, n) = outBuf
      /\ Len(Drop(outBuf, n)) = Len(outBuf) - n
  BY <1>2, <1>3, TakeDrop
<1>5. drained => Drop(outBuf, n) = <<>>
  BY <1>2, DropAll
<1>6. sk \in SockType /\ sk.finSent = sock.finSent /\ sk.rst = sock.rst /\ sk.open = sock.open
  BY <1>2, <1>3, AfterWriteFacts
<1>7. a \in Seq(Task) /\ \A i \in DOMAIN a : a[i].fn \in Inert
  BY CallbackIsInert, EmptySeq DEF Inert
<1> HIDE DEF n, drained, sk, a
<1>8. StreamOK'
  <2>1. chan' \in ChannelType
    BY <1>1, <1>2, DisableFacts
  <2>2. sock' \in SockType
    BY <1>1, <1>6, ShutdownFacts
  <2>3. outBuf' \in Seq(Byte) /\ wire' \in Seq(Byte)
    BY <1>1, <1>2, <1>4, ConcatProperties
  <2>4. QED
    BY <2>1, <2>2, <2>3 DEF StreamOK
<1>9. InertAfter(queue, queue')
  <2>1. InertAfter(queue, queue)
    BY InertEmpty
  <2>2. QED
    BY <1>1, <1>7, <2>1, InertMore
<1>10. /\ sock'.rst = sock.rst /\ sock'.open = sock.open /\ (sock.finSent => sock'.finSent)
       /\ sock'.finSent /\ ~sock.finSent => outBuf' = <<>>
  <2>1. CASE sock' = sk
    BY <1>6, <2>1
  <2>2. CASE drained /\ sock' = ShutdownInLoop(state, chan', sk)
    BY <1>1, <1>5, <1>6, <2>2, ShutdownFacts
  <2>3. QED
    BY <1>1, <2>1, <2>2
<1>11. outBuf = <<>> => outBuf' = <<>>
  <2>1. outBuf = <<>> => Len(outBuf) = 0
    OBVIOUS
  <2>2. outBuf = <<>> => n = 0
    BY <1>3, <2>1
  <2>3. QED
    BY <1>1, <1>2, <2>2, TakeNone
<1>12. Broken => wire' = wire
  BY <1>1, <1>2, <1>3, TakeNone, ConcatEmptySeq
<1>13. wire' \o outBuf' = wire \o outBuf
  <2>1. (wire \o Take(outBuf, n)) \o Drop(outBuf, n) = wire \o (Take(outBuf, n) \o Drop(outBuf, n))
    BY <1>2, <1>4, BytesInARow
  <2>2. QED
    BY <1>1, <1>4, <2>1
<1>14. QED
  BY <1>1, <1>5, <1>8, <1>9, <1>10, <1>11, <1>12, <1>13

\* handleClose(), whoever calls it.
LEMMA CloseFacts ==
  ASSUME HandleClose, chan \in ChannelType
  PROVE  /\ chan' \in ChannelType /\ chan'.events = {} /\ (chan.polling => ~chan'.polling)
         /\ state' = "kDisconnected" /\ refs' = refs \ {Owner}
         /\ failed' = IF state = "kDisconnected" THEN "handleClose"
                      ELSE IF chan.polling THEN failed ELSE "updateChannel"
<1>1. CanUpdate([chan EXCEPT !.events = {}]) <=> chan.polling
  BY DEF CanUpdate, IsNoneEvents, ChannelType
<1>2. QED
  BY <1>1, DisableAllFacts DEF HandleClose

\* stopRead and startRead on the loop: the bits of m_events only grow.
LEMMA ReadingFacts ==
  ASSUME NEW op \in Reading, ReadingInLoop(op), chan \in ChannelType
  PROVE  /\ chan' \in ChannelType /\ chan.events \subseteq chan'.events
         /\ chan.polling => chan'.polling
         /\ \/ chan' = chan
            \/ op = "stopRead" /\ IsReading(chan) /\ chan' = DisableRead(chan)
            \/ op = "startRead" /\ chan' = EnableRead(chan)
<1>1. \/ chan' = chan
      \/ op = "stopRead" /\ IsReading(chan) /\ chan' = DisableRead(chan)
      \/ op = "startRead" /\ chan' = EnableRead(chan)
  BY DEF Reading, ReadingInLoop, StopReadInLoop, StartReadInLoop
<1>2. QED
  BY <1>1, EnableFacts, DisableFacts

\* One poll reports the end of the connection at most once: to "close" or to "read".
Name == {"close", "error", "read", "write"}
Ends == {"close", "read"}
NoEnd(s)  == \A i \in DOMAIN s : s[i] \notin Ends
OneEnd(s) == \A i, j \in DOMAIN s : s[i] \in Ends /\ s[j] \in Ends => i = j

LEMMA EndsConcat ==
  ASSUME NEW p \in Seq(Name), NEW q \in Seq(Name)
  PROVE  /\ p \o q \in Seq(Name)
         /\ NoEnd(p) /\ NoEnd(q) => NoEnd(p \o q)
         /\ NoEnd(p) /\ OneEnd(q) => OneEnd(p \o q)
         /\ OneEnd(p) /\ NoEnd(q) => OneEnd(p \o q)
<1>1. /\ Len(p) \in Nat /\ Len(q) \in Nat /\ DOMAIN p = 1 .. Len(p) /\ DOMAIN q = 1 .. Len(q)
      /\ p \o q \in Seq(Name) /\ DOMAIN (p \o q) = 1 .. Len(p) + Len(q)
      /\ \A i \in 1 .. Len(p) + Len(q) : (p \o q)[i] = IF i <= Len(p) THEN p[i] ELSE q[i - Len(p)]
  BY LenProperties, ConcatProperties
<1> DEFINE pq == p \o q
<1>2. \A i \in DOMAIN pq : \/ i \in DOMAIN p /\ pq[i] = p[i]
                           \/ i > Len(p) /\ i - Len(p) \in DOMAIN q /\ pq[i] = q[i - Len(p)]
  BY <1>1
<1>3. \A i, j \in DOMAIN pq : i - Len(p) = j - Len(p) => i = j
  BY <1>1
<1> HIDE DEF pq
<1>4. NoEnd(p) /\ NoEnd(q) => NoEnd(pq)
  BY <1>2 DEF NoEnd
<1>5. (NoEnd(p) /\ OneEnd(q)) \/ (OneEnd(p) /\ NoEnd(q)) => OneEnd(pq)
  BY <1>2, <1>3 DEF NoEnd, OneEnd
<1>6. QED
  BY <1>1, <1>4, <1>5 DEF pq

LEMMA PollFacts ==
  CallbacksFor(Reported) \in Seq(Name) /\ OneEnd(CallbacksFor(Reported))
<1> DEFINE r == Reported
           a == IF "HUP" \in r /\ "IN" \notin r THEN <<"close">> ELSE <<>>
           b == IF "ERR" \in r THEN <<"error">> ELSE <<>>
           c == IF r \cap {"IN", "PRI", "RDHUP"} # {} THEN <<"read">> ELSE <<>>
           d == IF "OUT" \in r THEN <<"write">> ELSE <<>>
<1>1. CallbacksFor(r) = a \o b \o c \o d
  BY DEF CallbacksFor
<1>2. r \in SUBSET {"IN", "OUT", "ERR", "HUP"}
  BY DEF Reported
<1>3. a \in Seq(Name) /\ b \in Seq(Name) /\ c \in Seq(Name) /\ d \in Seq(Name)
  <2>1. <<>> \in Seq(Name)
    BY EmptySeq
  <2>2. <<"close">> \in Seq(Name) /\ <<"error">> \in Seq(Name)
        /\ <<"read">> \in Seq(Name) /\ <<"write">> \in Seq(Name)
    BY DEF Name
  <2>3. QED
    BY <2>1, <2>2
<1>4. NoEnd(b) /\ NoEnd(d) /\ OneEnd(a) /\ OneEnd(c)
  BY DEF NoEnd, OneEnd, Ends
<1>5. NoEnd(a) \/ NoEnd(c)
  BY <1>2 DEF NoEnd, Ends
<1> HIDE DEF r, a, b, c, d
<1>6. (a \o b) \in Seq(Name) /\ OneEnd(a \o b) /\ (NoEnd(a) => NoEnd(a \o b))
  BY <1>3, <1>4, EndsConcat
<1>7. (a \o b) \o c \in Seq(Name) /\ OneEnd((a \o b) \o c)
  BY <1>3, <1>4, <1>5, <1>6, EndsConcat
<1>8. ((a \o b) \o c) \o d \in Seq(Name) /\ OneEnd(((a \o b) \o c) \o d)
  BY <1>3, <1>4, <1>7, EndsConcat
<1>9. QED
  BY <1>1, <1>8 DEF r

LEMMA TailName ==
  ASSUME callbacks \in Seq(Name), callbacks # <<>>
  PROVE  /\ Tail(callbacks) \in Seq(Name) /\ Head(callbacks) \in Name
         /\ OneEnd(callbacks) => OneEnd(Tail(callbacks))
         /\ OneEnd(callbacks) /\ Head(callbacks) \in Ends => NoEnd(Tail(callbacks))
         /\ NoEnd(callbacks) => NoEnd(Tail(callbacks)) /\ Head(callbacks) \notin Ends
<1>1. /\ Len(callbacks) \in Nat /\ Len(callbacks) > 0 /\ DOMAIN callbacks = 1 .. Len(callbacks)
      /\ Tail(callbacks) \in Seq(Name) /\ Head(callbacks) = callbacks[1]
      /\ DOMAIN Tail(callbacks) = 1 .. Len(callbacks) - 1
      /\ \A i \in 1 .. Len(callbacks) - 1 : Tail(callbacks)[i] = callbacks[i + 1]
  BY LenProperties, HeadTailProperties, EmptySeq
<1>2. /\ 1 \in DOMAIN callbacks
      /\ \A i \in DOMAIN Tail(callbacks) :
           i + 1 \in DOMAIN callbacks /\ i + 1 # 1 /\ Tail(callbacks)[i] = callbacks[i + 1]
  BY <1>1
<1>3. \A i, j \in DOMAIN Tail(callbacks) : i + 1 = j + 1 => i = j
  BY <1>1
<1>4. Head(callbacks) \in Name
  BY <1>1, <1>2
<1>5. QED
  BY <1>1, <1>2, <1>3, <1>4 DEF OneEnd, NoEnd

\* sendInLoop(), of a closed connection too.
LEMMA SendAlways ==
  ASSUME StreamOK, NEW data \in Seq(Byte), NEW q \in Seq(Task), SendInLoop(data, q)
  PROVE  /\ StreamOK' /\ state' = state /\ InertAfter(q, queue')
         /\ failed' \in {failed, "sendInLoop"}
         /\ sock'.finSent = sock.finSent /\ sock'.rst = sock.rst /\ sock'.open = sock.open
         /\ chan.events \subseteq chan'.events
<1>1. CASE state = "kDisconnected"
  <2>1. queue' = q /\ UNCHANGED <<state, chan, outBuf, sock, wire, failed>>
    BY <1>1 DEF SendInLoop, WritesDirectly
  <2>2. QED
    BY <2>1, InertEmpty DEF StreamOK
<1>2. CASE state # "kDisconnected"
  <2>1. chan.events \subseteq chan'.events
    BY <1>2, SendFacts, EnableFacts DEF StreamOK
  <2>2. QED
    BY <1>2, <2>1, SendFacts
<1>3. QED
  BY <1>1, <1>2

CallType == [Thread -> {"idle"} \cup Steps \cup Closures]
Failure  == {"none", "sendInLoop", "shutdown", "handleRead", "handleWrite",
             "handleClose", "updateChannel", "~TCPConnection", "freed"}
State    == {"kConnected", "kDisconnecting", "kDisconnected"}

\* The parts of TypeOK that SendInLoop and HandleWrite do not need.
LoopOK  == /\ state \in State /\ callbacks \in Seq(Name) /\ queue \in Seq(Task)
           /\ failed \in Failure /\ refs \subseteq Sender \cup {Owner}
CallsOK == /\ call \in CallType /\ sent \in [Sender -> Nat]
           /\ \A s \in Sender : Whole(sent[s])
           /\ \A th \in Thread : call[th] = "sendInLoop" => sent[th] < MsgLen * MaxMsgs

TypeInv == StreamOK /\ LoopOK /\ CallsOK

LEMMA TypeParts == TypeInv => TypeOK
BY DEF TypeInv, TypeOK, StreamOK, LoopOK, CallsOK, ChannelType, SockType, Name, CallType,
       Failure, State

LEMMA NewCall ==
  ASSUME CallsOK, NEW th \in Thread, NEW step \in {"idle"} \cup Steps \cup Closures,
         step = "sendInLoop" => sent[th] < MsgLen * MaxMsgs,
         call' = [call EXCEPT ![th] = step], sent' = sent
  PROVE  CallsOK'
<1>1. call' \in CallType /\ call'[th] = step /\ \A u \in Thread \ {th} : call'[u] = call[u]
  BY DEF CallsOK, CallType
<1>2. QED
  BY <1>1 DEF CallsOK, Whole

\* The callbacks of the socket.
LEMMA HandleTypes ==
  ASSUME StreamOK, LoopOK, Poll \/ HandleEvent
  PROVE  StreamOK' /\ LoopOK' /\ UNCHANGED <<call, sent>>
<1>1. CASE Poll
  <2>1. /\ callbacks' = CallbacksFor(Reported)
        /\ UNCHANGED <<state, chan, outBuf, queue, appVars, sock, wire, failed>>
    BY <1>1 DEF Poll
  <2>2. QED
    BY <2>1, PollFacts DEF StreamOK, LoopOK, appVars
<1>2. HandleEvent => callbacks' \in Seq(Name)
  BY TailName DEF HandleEvent, HandleError, HandleInput, HandleReadError, HandleEnd, HandleWrite,
                  Calls, LoopOK
<1>3. CASE HandleError \/ HandleInput \/ HandleReadError
  <2>1. \/ sock' = [sock EXCEPT !.err = FALSE]
        \/ sock' = [sock EXCEPT !.input = FALSE]
    BY <1>3 DEF HandleError, HandleInput, HandleReadError
  <2>2. sock' \in SockType
    BY <2>1 DEF StreamOK, SockType
  <2>3. /\ failed' \in {failed, "handleRead"}
        /\ UNCHANGED <<state, chan, outBuf, queue, appVars, wire>>
    BY <1>3 DEF HandleError, HandleInput, HandleReadError
  <2>4. QED
    BY <1>2, <1>3, <2>2, <2>3 DEF StreamOK, LoopOK, appVars, Failure, HandleEvent
<1>4. CASE HandleEnd
  <2>1. UNCHANGED <<outBuf, queue, call, sent, sock, wire>>
    BY <1>4 DEF HandleEnd
  <2>2. CASE failed' = "handleRead" /\ UNCHANGED <<state, chan, refs>>
    BY <1>2, <1>4, <2>1, <2>2 DEF StreamOK, LoopOK, Failure, HandleEvent
  <2>3. CASE HandleClose
    BY <1>2, <1>4, <2>1, <2>3, CloseFacts DEF StreamOK, LoopOK, Failure, State, HandleEvent
  <2>4. QED
    BY <1>4, <2>2, <2>3 DEF HandleEnd
<1>5. CASE HandleWrite
  <2>1. CASE state = "kDisconnected"
    <3>1. UNCHANGED <<state, appVars, chan, outBuf, queue, sock, wire, failed>>
      BY <1>5, <2>1 DEF HandleWrite
    <3>2. QED
      BY <1>2, <1>5, <3>1 DEF StreamOK, LoopOK, appVars, HandleEvent
  <2>2. CASE state # "kDisconnected"
    <3>1. /\ StreamOK' /\ InertAfter(queue, queue') /\ UNCHANGED <<state, appVars>>
          /\ failed' \in {failed, "handleWrite"}
      BY <1>5, <2>2, WriteFacts DEF LoopOK
    <3>2. QED
      BY <1>2, <1>5, <3>1 DEF LoopOK, appVars, Failure, InertAfter, HandleEvent
  <2>3. QED
    BY <2>1, <2>2
<1>6. QED
  BY <1>1, <1>3, <1>4, <1>5 DEF HandleEvent

\* The closure that runs is the first of the queue.
LEMMA TakenTask ==
  ASSUME LoopOK, queue # <<>>
  PROVE  /\ Tail(queue) \in Seq(Task) /\ Head(queue) \in Task
         /\ Len(queue) \in Nat /\ Len(queue) > 0 /\ Len(Tail(queue)) = Len(queue) - 1
         /\ Head(queue) = queue[1] /\ 1 \in DOMAIN queue
         /\ \A i \in DOMAIN Tail(queue) : i + 1 \in DOMAIN queue /\ Tail(queue)[i] = queue[i + 1]
<1>1. queue \in Seq(Task) /\ Len(queue) \in Nat
  BY LenProperties DEF LoopOK
<1>2. /\ Len(queue) > 0 /\ DOMAIN queue = 1 .. Len(queue)
      /\ Tail(queue) \in Seq(Task) /\ Head(queue) = queue[1] /\ queue[1] \in Task
      /\ Len(Tail(queue)) = Len(queue) - 1
      /\ DOMAIN Tail(queue) = 1 .. Len(queue) - 1
      /\ \A i \in 1 .. Len(queue) - 1 : Tail(queue)[i] = queue[i + 1]
  BY <1>1, LenProperties, HeadTailProperties, EmptySeq
<1>3. QED
  BY <1>1, <1>2

LEMMA ClosureTypes ==
  ASSUME StreamOK, LoopOK, RunClosure
  PROVE  StreamOK' /\ LoopOK' /\ UNCHANGED <<call, sent>>
<1>1. queue # <<>> /\ UNCHANGED <<callbacks, call, sent>>
  BY DEF RunClosure
<1> DEFINE task == Head(queue)
           rest == Tail(queue)
<1>2. task.data \in Seq(Byte) /\ task.fn \in Closures /\ rest \in Seq(Task)
  BY <1>1, TakenTask DEF Task
<1>3. \/ SendInLoop(task.data, rest) /\ UNCHANGED refs
      \/ /\ sock' = ShutdownInLoop(state, chan, sock)
         /\ queue' = rest
         /\ UNCHANGED <<state, chan, outBuf, refs, wire, failed>>
      \/ HandleClose /\ queue' = rest /\ UNCHANGED <<outBuf, sock, wire>>
      \/ /\ task.fn \in Reading /\ ReadingInLoop(task.fn) /\ queue' = rest
         /\ failed' \in {failed, "freed"}
         /\ UNCHANGED <<state, outBuf, refs, sock, wire>>
      \/ queue' = rest /\ UNCHANGED <<state, chan, outBuf, refs, sock, wire, failed>>
  BY DEF RunClosure
<1> HIDE DEF task, rest
<1>4. CASE SendInLoop(task.data, rest) /\ UNCHANGED refs
  BY <1>1, <1>2, <1>4, SendAlways DEF LoopOK, Failure, InertAfter
<1>5. CASE /\ sock' = ShutdownInLoop(state, chan, sock)
           /\ queue' = rest
           /\ UNCHANGED <<state, chan, outBuf, refs, wire, failed>>
  <2>1. sock' \in SockType
    BY <1>5, ShutdownFacts DEF StreamOK
  <2>2. QED
    BY <1>1, <1>2, <1>5, <2>1 DEF StreamOK, LoopOK
<1>6. CASE HandleClose /\ queue' = rest /\ UNCHANGED <<outBuf, sock, wire>>
  BY <1>1, <1>2, <1>6, CloseFacts DEF StreamOK, LoopOK, Failure, State
<1>7. CASE /\ task.fn \in Reading /\ ReadingInLoop(task.fn) /\ queue' = rest
           /\ failed' \in {failed, "freed"}
           /\ UNCHANGED <<state, outBuf, refs, sock, wire>>
  BY <1>1, <1>2, <1>7, ReadingFacts DEF StreamOK, LoopOK, Failure
<1>8. CASE queue' = rest /\ UNCHANGED <<state, chan, outBuf, refs, sock, wire, failed>>
  BY <1>1, <1>2, <1>8 DEF StreamOK, LoopOK
<1>9. QED
  BY <1>3, <1>4, <1>5, <1>6, <1>7, <1>8

LEMMA SentMore ==
  ASSUME CallsOK, NEW s \in Sender, sent[s] < MsgLen * MaxMsgs,
         sent' = [sent EXCEPT ![s] = @ + MsgLen], call' \in CallType,
         \A th \in Thread : call'[th] = "sendInLoop" => th # s /\ call[th] = "sendInLoop"
  PROVE  CallsOK' /\ Data(s) \in Seq(Byte)
<1>1. Data(s) \in Seq(Byte) /\ Whole(sent[s] + MsgLen)
  BY DataFacts DEF CallsOK
<1>2. sent[s] + MsgLen \in Nat
  BY ConnectionAssumption DEF CallsOK
<1>3. sent' \in [Sender -> Nat] /\ sent'[s] = sent[s] + MsgLen
      /\ \A u \in Sender \ {s} : sent'[u] = sent[u]
  BY <1>2 DEF CallsOK
<1>4. \A u \in Sender : Whole(sent'[u])
  BY <1>1, <1>3 DEF CallsOK
<1>5. QED
  BY <1>1, <1>3, <1>4 DEF CallsOK, Sender, Whole

\* A callback on the loop thread calls.
LEMMA LoopCallTypes ==
  ASSUME TypeInv, LoopCall
  PROVE  TypeInv'
<1>1. CASE LoopSend
  <2>1. /\ SendInLoop(Data(Loop), queue) /\ sent[Loop] < MsgLen * MaxMsgs
        /\ sent' = [sent EXCEPT ![Loop] = @ + MsgLen]
        /\ UNCHANGED <<callbacks, call, refs>>
    BY <1>1 DEF LoopSend, CanSend
  <2>2. Loop \in Sender /\ \A th \in Thread : th # Loop
    BY ConnectionAssumption DEF Sender
  <2>3. CallsOK' /\ Data(Loop) \in Seq(Byte)
    <3>1. call' \in CallType
      BY <2>1 DEF TypeInv, CallsOK
    <3>2. QED
      BY <2>1, <2>2, <3>1, SentMore DEF TypeInv
  <2>4. /\ StreamOK' /\ state' = state /\ InertAfter(queue, queue')
        /\ failed' \in {failed, "sendInLoop"}
    BY <2>1, <2>3, SendAlways DEF TypeInv, LoopOK
  <2>5. LoopOK'
    BY <2>1, <2>4 DEF TypeInv, LoopOK, InertAfter, Failure
  <2>6. QED
    BY <2>3, <2>4, <2>5 DEF TypeInv
<1>2. CASE LoopShutdown
  <2>1. /\ failed' \in {failed, "shutdown"} /\ state' = "kDisconnecting"
        /\ sock' \in {sock, ShutdownInLoop(state', chan, sock)}
        /\ UNCHANGED <<chan, outBuf, callbacks, queue, call, sent, refs, wire>>
    BY <1>2 DEF LoopShutdown, appVars
  <2>2. sock' \in SockType
    BY <2>1, ShutdownFacts DEF TypeInv, StreamOK
  <2>3. QED
    BY <2>1, <2>2 DEF TypeInv, StreamOK, LoopOK, CallsOK, Failure, State, Whole
<1>3. CASE LoopForceClose
  <2>1. /\ state' = "kDisconnecting" /\ queue' = Append(queue, Fn("forceCloseInLoop"))
        /\ UNCHANGED <<chan, outBuf, callbacks, call, sent, refs, sock, wire, failed>>
    BY <1>3 DEF LoopForceClose, appVars
  <2>2. Fn("forceCloseInLoop") \in Task
    BY EmptySeq DEF Fn, Task, Closures
  <2>3. queue' \in Seq(Task)
    BY <2>1, <2>2, AppendProperties DEF TypeInv, LoopOK
  <2>4. QED
    BY <2>1, <2>3 DEF TypeInv, StreamOK, LoopOK, CallsOK, State, Whole
<1>4. CASE LoopReading
  <2>1. PICK op \in Reading : ReadingInLoop(op)
    BY <1>4 DEF LoopReading
  <2>2. UNCHANGED <<state, outBuf, callbacks, queue, call, sent, refs, sock, wire, failed>>
    BY <1>4 DEF LoopReading, appVars
  <2>3. chan' \in ChannelType
    BY <2>1, ReadingFacts DEF TypeInv, StreamOK
  <2>4. QED
    BY <2>2, <2>3 DEF TypeInv, StreamOK, LoopOK, CallsOK, Whole
<1>5. QED
  BY <1>1, <1>2, <1>3, <1>4 DEF LoopCall

\* Another thread is inside of a call.
LEMMA ThreadTypes ==
  ASSUME TypeInv, NEW th \in Thread, Begin(th) \/ Exchange(th) \/ Push(th)
  PROVE  TypeInv'
<1>0. th \in Sender /\ th # Loop /\ MsgLen \in Nat
  BY ConnectionAssumption DEF Sender
<1>1. CASE Begin(th)
  <2>1. PICK step \in Steps \cup Closures :
          Enter(th, step) /\ (step = "sendInLoop" => sent[th] < MsgLen * MaxMsgs)
    BY <1>1 DEF Begin, BeginSend, BeginForceClose, BeginReading, BeginShutdown, CanSend,
                Steps, Closures, Reading
  <2>2. call' = [call EXCEPT ![th] = step]
        /\ UNCHANGED <<state, chan, outBuf, callbacks, queue, sent, refs, sock, wire>>
    BY <2>1 DEF Enter
  <2>3. failed' \in {failed, "shutdown"}
    BY <1>1 DEF Begin, BeginSend, BeginForceClose, BeginReading, BeginShutdown
  <2>4. CallsOK'
    BY <2>1, <2>2, NewCall DEF TypeInv
  <2>5. QED
    BY <2>2, <2>3, <2>4 DEF TypeInv, StreamOK, LoopOK, Failure
<1>2. CASE Exchange(th)
  <2> DEFINE next == CASE call[th] = "shutdown"   /\ state = "kConnected"    -> "shutdownInLoop"
                       [] call[th] = "forceClose" /\ state # "kDisconnected" -> "forceCloseInLoop"
                       [] OTHER -> "idle"
  <2>1. /\ call' = [call EXCEPT ![th] = next] /\ state' = "kDisconnecting"
        /\ UNCHANGED <<chan, outBuf, callbacks, queue, sent, refs, sock, wire, failed>>
    BY <1>2 DEF Exchange, TypeInv, CallsOK, CallType
  <2>2. next \in {"idle"} \cup Steps \cup Closures /\ next # "sendInLoop"
    BY DEF Closures
  <2> HIDE DEF next
  <2>3. CallsOK'
    BY <2>1, <2>2, NewCall DEF TypeInv
  <2>4. QED
    BY <2>1, <2>3 DEF TypeInv, StreamOK, LoopOK, State
<1>3. CASE Push(th)
  <2> DEFINE data == IF call[th] = "sendInLoop" THEN Data(th) ELSE <<>>
             task == [fn |-> call[th], data |-> data]
  <2>1. /\ call[th] \in Closures /\ queue' = Append(queue, task)
        /\ sent' = [sent EXCEPT ![th] = @ + Len(data)]
        /\ call' = [call EXCEPT ![th] = "idle"]
        /\ UNCHANGED <<state, chan, outBuf, callbacks, refs, sock, wire, failed>>
    BY <1>3 DEF Push
  <2>2. /\ call' \in CallType /\ call'[th] = "idle"
        /\ \A u \in Thread \ {th} : call'[u] = call[u]
    BY <2>1 DEF TypeInv, CallsOK, CallType
  <2>3. CallsOK' /\ data \in Seq(Byte)
    <3>1. CASE call[th] = "sendInLoop"
      <4>1. sent[th] < MsgLen * MaxMsgs /\ Len(Data(th)) = MsgLen
        BY <1>0, <3>1, DataFacts DEF TypeInv, CallsOK
      <4>2. sent' = [sent EXCEPT ![th] = @ + MsgLen]
        BY <2>1, <3>1, <4>1
      <4>3. \A u \in Thread : call'[u] = "sendInLoop" => u # th /\ call[u] = "sendInLoop"
        BY <2>2
      <4>4. QED
        BY <1>0, <2>2, <3>1, <4>1, <4>2, <4>3, SentMore DEF TypeInv
    <3>2. CASE call[th] # "sendInLoop"
      <4>1. data = <<>> /\ Len(data) = 0
        BY <3>2
      <4>2. sent[th] \in Nat /\ sent[th] + 0 = sent[th]
        BY <1>0 DEF TypeInv, CallsOK
      <4>3. sent' = sent
        BY <1>0, <2>1, <4>1, <4>2 DEF TypeInv, CallsOK
      <4>4. CallsOK'
        BY <2>1, <4>3, NewCall DEF TypeInv
      <4>5. QED
        BY <4>1, <4>4, EmptySeq
    <3>3. QED
      BY <3>1, <3>2
  <2> HIDE DEF data
  <2>4. task \in Task
    BY <2>1, <2>3 DEF Task
  <2> HIDE DEF task
  <2>5. queue' \in Seq(Task)
    BY <2>1, <2>4, AppendProperties DEF TypeInv, LoopOK
  <2>6. QED
    BY <2>1, <2>3, <2>5 DEF TypeInv, StreamOK, LoopOK
<1>4. QED
  BY <1>1, <1>2, <1>3

\* The peer and the kernel.
LEMMA PeerFacts ==
  ASSUME Peer, sock \in SockType
  PROVE  /\ UNCHANGED <<state, chan, outBuf, callbacks, queue, appVars, wire, failed>>
         /\ sock' \in SockType /\ sock'.finSent = sock.finSent /\ (sock.rst => sock'.rst)
         /\ sock'.open = sock.open
<1>1. UNCHANGED <<state, chan, outBuf, callbacks, queue, appVars, wire, failed>>
  BY DEF Peer, PeerSends, PeerReads, PeerCloses, PeerResets, Kernel
<1>2. SndBuf \in 0 .. SndBuf
  BY ConnectionAssumption
<1>3. \/ sock' = [sock EXCEPT !.input = TRUE]
      \/ sock' = [sock EXCEPT !.room = SndBuf]
      \/ sock' = [sock EXCEPT !.fin = TRUE]
      \/ sock' = [sock EXCEPT !.rst = TRUE, !.err = TRUE]
  BY DEF Peer, PeerSends, PeerReads, PeerCloses, PeerResets, Kernel
<1>4. /\ sock' \in SockType /\ sock'.finSent = sock.finSent /\ (sock.rst => sock'.rst)
      /\ sock'.open = sock.open
  BY <1>2, <1>3 DEF SockType
<1>5. QED
  BY <1>1, <1>4

LEMMA TypeStep ==
  ASSUME TypeInv, [Next]_vars
  PROVE  TypeInv'
<1>1. CASE UNCHANGED vars
  BY <1>1 DEF vars, appVars, TypeInv, StreamOK, LoopOK, CallsOK, Whole
<1>2. CASE Poll \/ HandleEvent
  BY <1>2, HandleTypes DEF TypeInv, CallsOK, Whole
<1>3. CASE RunClosure
  BY <1>3, ClosureTypes DEF TypeInv, CallsOK, Whole
<1>4. CASE LoopCall
  BY <1>4, LoopCallTypes
<1>5. CASE Destroy
  <2>1. sock' = [sock EXCEPT !.open = FALSE] /\ failed' \in {failed, "~TCPConnection"}
        /\ UNCHANGED <<state, chan, outBuf, callbacks, queue, call, sent, refs, wire>>
    BY <1>5 DEF Destroy, appVars
  <2>2. sock' \in SockType
    BY <2>1 DEF TypeInv, StreamOK, SockType
  <2>3. QED
    BY <2>1, <2>2 DEF TypeInv, StreamOK, LoopOK, CallsOK, Failure, Whole
<1>6. CASE Peer
  BY <1>6, PeerFacts DEF TypeInv, StreamOK, LoopOK, CallsOK, appVars, Whole
<1>7. ASSUME NEW th \in Thread, Begin(th) \/ Exchange(th) \/ Push(th) PROVE TypeInv'
  BY <1>7, ThreadTypes
<1>8. ASSUME NEW h \in Sender, Release(h) PROVE TypeInv'
  BY <1>8 DEF Release, TypeInv, StreamOK, LoopOK, CallsOK, Whole
<1>9. QED
  BY <1>1, <1>2, <1>3, <1>4, <1>5, <1>6, <1>7, <1>8 DEF Next

LEMMA InitType == Init => TypeInv
<1> SUFFICES ASSUME Init PROVE TypeInv
  OBVIOUS
<1>1. MsgLen \in Nat \ {0} /\ MaxMsgs \in Nat \ {0} /\ SndBuf \in Nat
  BY ConnectionAssumption
<1>2. NewChannel \in ChannelType
  BY DEF NewChannel, ChannelType
<1>3. StreamOK
  <2>1. chan \in ChannelType
    BY <1>2, EnableFacts DEF Init
  <2>2. sock \in SockType
    BY <1>1 DEF Init, SockType
  <2>3. QED
    BY <2>1, <2>2, EmptySeq DEF Init, StreamOK
<1>4. LoopOK
  BY EmptySeq DEF Init, LoopOK, State, Failure
<1>5. CallsOK
  <2>1. Whole(0)
    BY <1>1 DEF Whole
  <2>2. call \in CallType /\ \A th \in Thread : call[th] # "sendInLoop"
    BY DEF Init, CallType
  <2>3. sent \in [Sender -> Nat] /\ \A s \in Sender : sent[s] = 0
    BY DEF Init
  <2>4. QED
    BY <2>1, <2>2, <2>3 DEF CallsOK
<1>6. QED
  BY <1>3, <1>4, <1>5 DEF TypeInv

LEMMA TypeInvInductive == Safety => []TypeInv
BY InitType, TypeStep, PTL DEF Safety

------------------------------------------------------------------------------
(* What is buffered, and the FIN *)

\* m_events asks for EPOLLOUT as long as bytes wait: nothing but handleClose()
\* clears a bit of it, and that is when the server lets the connection go.
WritingInv ==
  /\ Owner \in refs /\ outBuf # <<>> => IsWriting(chan)
  /\ state = "kDisconnected" => Owner \notin refs

\* Every step but the one that closes only adds to m_events, and shuts the
\* socket down with nothing buffered or nothing to wait for.
Closes == HandleClose /\ outBuf' = outBuf /\ sock' = sock
Pauses == "stopRead" \in LoopOps \/ (queue # <<>> /\ Head(queue).fn = "stopRead")
Adds   ==
  /\ \/ chan' = chan \/ chan' = EnableRead(chan) \/ chan' = EnableWrite(chan)
     \/ chan' = DisableWrite(chan) /\ (failed' = "none" => IsWriting(chan) /\ outBuf # <<>>)
     \/ chan' = DisableRead(chan) /\ Pauses
  /\ Owner \in refs' <=> Owner \in refs
  /\ chan.events \subseteq chan'.events
  /\ outBuf = <<>> /\ outBuf' # <<>> => IsWriting(chan')
  /\ state' = "kDisconnected" => state = "kDisconnected"
  /\ sock'.finSent /\ ~sock.finSent => outBuf' = <<>> \/ (outBuf' = outBuf /\ ~IsWriting(chan))

LEMMA SendAdds ==
  ASSUME StreamOK, NEW data \in Seq(Byte), NEW q \in Seq(Task), SendInLoop(data, q),
         UNCHANGED refs
  PROVE  Adds
<1>1. /\ state' = state /\ sock'.finSent = sock.finSent /\ chan.events \subseteq chan'.events
  BY SendAlways
<1>2. /\ outBuf' = outBuf \/ IsWriting(chan')
      /\ chan' = chan \/ chan' = EnableWrite(chan)
  <2>1. CASE state = "kDisconnected"
    BY <2>1 DEF SendInLoop, WritesDirectly
  <2>2. CASE state # "kDisconnected"
    BY <2>2, SendFacts, EnableWriteWrites DEF IsWriting, StreamOK
  <2>3. QED
    BY <2>1, <2>2
<1>3. QED
  BY <1>1, <1>2 DEF Adds

LEMMA AddsOrCloses ==
  ASSUME TypeInv, [Next]_vars
  PROVE  Adds \/ Closes
<1>0. StreamOK /\ LoopOK /\ CallsOK
  BY DEF TypeInv
<1>1. ASSUME UNCHANGED <<chan, outBuf, state>>, sock'.finSent = sock.finSent,
             Owner \in refs' <=> Owner \in refs
      PROVE  Adds
  BY <1>1 DEF Adds
<1>2. CASE UNCHANGED vars
  BY <1>1, <1>2 DEF vars, appVars
<1>3. CASE Poll
  BY <1>1, <1>3 DEF Poll, appVars
<1>4. CASE HandleError \/ HandleInput \/ HandleReadError
  <2>1. \/ sock' = [sock EXCEPT !.err = FALSE]
        \/ sock' = [sock EXCEPT !.input = FALSE]
    BY <1>4 DEF HandleError, HandleInput, HandleReadError
  <2>2. sock'.finSent = sock.finSent
    BY <1>0, <2>1 DEF StreamOK, SockType
  <2>3. QED
    BY <1>1, <1>4, <2>2 DEF HandleError, HandleInput, HandleReadError, appVars
<1>5. CASE HandleEnd
  BY <1>1, <1>5 DEF HandleEnd, Closes
<1>6. CASE HandleWrite
  <2>1. CASE state = "kDisconnected"
    BY <1>1, <1>6, <2>1 DEF HandleWrite, appVars
  <2>2. CASE state # "kDisconnected"
    BY <1>0, <1>6, <2>2, WriteFacts, DisableFacts DEF Adds, StreamOK, LoopOK, appVars
  <2>3. QED
    BY <2>1, <2>2
<1>7. CASE RunClosure
  <2>1. Head(queue).data \in Seq(Byte) /\ Tail(queue) \in Seq(Task)
    BY <1>0, <1>7, TakenTask DEF RunClosure, Task
  <2>2. CASE SendInLoop(Head(queue).data, Tail(queue)) /\ UNCHANGED refs
    BY <1>0, <2>1, <2>2, SendAdds
  <2>3. CASE /\ sock' = ShutdownInLoop(state, chan, sock)
             /\ UNCHANGED <<state, chan, outBuf, refs, wire, failed>>
    BY <1>0, <2>3, ShutdownFacts DEF Adds, StreamOK
  <2>4. CASE HandleClose /\ UNCHANGED <<outBuf, sock, wire>>
    BY <2>4 DEF Closes
  <2>5. CASE /\ Head(queue).fn \in Reading /\ ReadingInLoop(Head(queue).fn)
             /\ UNCHANGED <<state, outBuf, refs, sock, wire>>
    BY <1>0, <1>7, <2>5, ReadingFacts DEF Adds, StreamOK, Pauses, RunClosure
  <2>6. CASE UNCHANGED <<state, chan, outBuf, refs, sock, wire, failed>>
    BY <1>1, <2>6
  <2>7. QED
    BY <1>7, <2>2, <2>3, <2>4, <2>5, <2>6 DEF RunClosure
<1>8. CASE LoopSend
  <2>1. Data(Loop) \in Seq(Byte)
    BY <1>0, <1>8, DataFacts DEF LoopSend, CanSend, CallsOK, Sender
  <2>2. QED
    BY <1>0, <1>8, <2>1, SendAdds DEF LoopSend, LoopOK
<1>9. CASE LoopShutdown
  <2>1. /\ state' = "kDisconnecting"
        /\ sock' = IF state = "kConnected" THEN ShutdownInLoop(state', chan, sock) ELSE sock
        /\ UNCHANGED <<chan, outBuf, refs>>
    BY <1>9 DEF LoopShutdown, appVars
  <2>2. sock'.finSent /\ ~sock.finSent => ~IsWriting(chan)
    BY <1>0, <2>1, ShutdownFacts DEF StreamOK
  <2>3. QED
    BY <2>1, <2>2 DEF Adds
<1>10. CASE LoopForceClose
  BY <1>10 DEF LoopForceClose, Adds, appVars
<1>11. CASE LoopReading
  <2>1. PICK op \in LoopOps \cap Reading : ReadingInLoop(op)
    BY <1>11 DEF LoopReading
  <2>2. UNCHANGED <<state, outBuf, refs, sock>>
    BY <1>11 DEF LoopReading, appVars
  <2>3. QED
    BY <1>0, <2>1, <2>2, ReadingFacts DEF Adds, StreamOK, Pauses
<1>12. CASE Destroy
  <2>1. sock'.finSent = sock.finSent
    BY <1>0, <1>12 DEF Destroy, StreamOK, SockType
  <2>2. QED
    BY <1>1, <1>12, <2>1 DEF Destroy, appVars
<1>13. CASE Peer
  BY <1>0, <1>1, <1>13, PeerFacts DEF StreamOK, appVars
<1>14. ASSUME NEW th \in Thread, Begin(th) PROVE Adds
  BY <1>1, <1>14 DEF Begin, BeginSend, BeginForceClose, BeginReading, BeginShutdown, Enter
<1>15. ASSUME NEW th \in Thread, Exchange(th) PROVE Adds
  BY <1>15 DEF Exchange, Adds
<1>16. ASSUME NEW th \in Thread, Push(th) PROVE Adds
  BY <1>1, <1>16 DEF Push
<1>17. ASSUME NEW h \in Sender, Release(h) PROVE Adds
  BY <1>1, <1>17 DEF Release
<1>18. QED
  BY <1>2, <1>3, <1>4, <1>5, <1>6, <1>7, <1>8, <1>9, <1>10, <1>11, <1>12, <1>13,
     <1>14, <1>15, <1>16, <1>17 DEF Next, HandleEvent, LoopCall

LEMMA WritingStep ==
  ASSUME TypeInv, WritingInv, [Next]_vars
  PROVE  WritingInv'
<1>1. CASE Adds
  BY <1>1 DEF Adds, WritingInv, IsWriting
<1>2. CASE Closes
  BY <1>2, CloseFacts DEF Closes, WritingInv, TypeInv, StreamOK
<1>3. QED
  BY <1>1, <1>2, AddsOrCloses

LEMMA WritingInvInductive == Safety => []WritingInv
<1>1. Init => WritingInv
  BY DEF Init, WritingInv
<1>2. QED
  BY <1>1, WritingStep, TypeInvInductive, PTL DEF Safety

\* Every variable of the connection keeps its type, through failures and all.
THEOREM TypeCorrect == Safety => []TypeOK
BY TypeInvInductive, TypeParts, PTL

\* However shutdown(), forceClose() and sends of any threads meet, the FIN is
\* not sent over bytes that wait in m_outputBuffer.
THEOREM FinComesAfterData == Safety => FinAfterData
<1>1. ASSUME TypeInv, WritingInv, [Next]_vars
      PROVE  Owner \in refs /\ sock'.finSent /\ ~sock.finSent => outBuf' = <<>>
  <2>1. CASE Adds
    BY <1>1, <2>1 DEF Adds, WritingInv
  <2>2. CASE Closes
    BY <2>2 DEF Closes
  <2>3. QED
    BY <1>1, <2>1, <2>2, AddsOrCloses
<1>2. TypeInv /\ WritingInv /\ [Next]_vars
        => [(Owner \in refs /\ sock.finSent' /\ ~sock.finSent) => (outBuf' = <<>>)]_vars
  BY <1>1
<1>3. QED
  BY <1>2, TypeInvInductive, WritingInvInductive, PTL DEF Safety, FinAfterData

------------------------------------------------------------------------------
(* What is queued *)

LEMMA InertFrom ==
  ASSUME NEW q \in Seq(Task), NEW r, InertAfter(q, r), NEW i \in DOMAIN r
  PROVE  (i \in DOMAIN q /\ r[i] = q[i]) \/ (i \notin DOMAIN q /\ r[i].fn \in Inert)
<1>1. PICK u \in Seq(Task) : r = q \o u /\ \A k \in DOMAIN u : u[k].fn \in Inert
  BY DEF InertAfter
<1>2. /\ Len(q) \in Nat /\ Len(u) \in Nat /\ DOMAIN q = 1 .. Len(q) /\ DOMAIN u = 1 .. Len(u)
      /\ DOMAIN r = 1 .. Len(q) + Len(u)
      /\ \A k \in 1 .. Len(q) + Len(u) : r[k] = IF k <= Len(q) THEN q[k] ELSE u[k - Len(q)]
  BY <1>1, LenProperties, ConcatProperties
<1>3. ~(i <= Len(q)) => i - Len(q) \in DOMAIN u
  BY <1>2
<1>4. QED
  BY <1>1, <1>2, <1>3

LEMMA InertKeeps ==
  ASSUME NEW q \in Seq(Task), NEW r, InertAfter(q, r)
  PROVE  \A i \in DOMAIN q : i \in DOMAIN r /\ r[i] = q[i]
<1>1. PICK u \in Seq(Task) : r = q \o u
  BY DEF InertAfter
<1>2. /\ Len(q) \in Nat /\ Len(u) \in Nat /\ DOMAIN q = 1 .. Len(q)
      /\ DOMAIN r = 1 .. Len(q) + Len(u)
      /\ \A k \in 1 .. Len(q) + Len(u) : r[k] = IF k <= Len(q) THEN q[k] ELSE u[k - Len(q)]
  BY <1>1, LenProperties, ConcatProperties
<1>3. QED
  BY <1>2

\* The queue is left alone, or loses its first closure to RunClosure, and then
\* gets callbacks of the application; or it gets one closure of a call.
LEMMA QueueStep ==
  ASSUME TypeInv, [Next]_vars
  PROVE  \/ InertAfter(queue, queue') /\ ~RunClosure
         \/ RunClosure /\ queue # <<>> /\ InertAfter(Tail(queue), queue')
         \/ LoopForceClose
         \/ \E th \in Thread : Push(th)
<1>0. StreamOK /\ LoopOK /\ CallsOK /\ queue \in Seq(Task)
  BY DEF TypeInv, LoopOK
<1>1. queue' = queue => InertAfter(queue, queue')
  BY <1>0, InertEmpty
<1>2. CASE RunClosure
  <2>1. Head(queue).data \in Seq(Byte) /\ Tail(queue) \in Seq(Task) /\ queue # <<>>
    BY <1>0, <1>2, TakenTask DEF RunClosure, Task
  <2>2. SendInLoop(Head(queue).data, Tail(queue)) \/ queue' = Tail(queue)
    BY <1>2 DEF RunClosure
  <2>3. QED
    BY <1>0, <1>2, <2>1, <2>2, SendAlways, InertEmpty
<1> SUFFICES ASSUME ~RunClosure, ~LoopForceClose, ~ \E th \in Thread : Push(th)
             PROVE  InertAfter(queue, queue')
  BY <1>2
<1>3. CASE HandleWrite
  <2>1. CASE state = "kDisconnected"
    BY <1>1, <1>3, <2>1 DEF HandleWrite
  <2>2. CASE state # "kDisconnected"
    BY <1>0, <1>3, <2>2, WriteFacts
  <2>3. QED
    BY <2>1, <2>2
<1>4. CASE LoopSend
  <2>1. Data(Loop) \in Seq(Byte)
    BY <1>0, <1>4, DataFacts DEF LoopSend, CanSend, CallsOK, Sender
  <2>2. QED
    BY <1>0, <1>4, <2>1, SendAlways DEF LoopSend
<1>5. CASE UNCHANGED vars
  BY <1>1, <1>5 DEF vars
<1>6. CASE Poll \/ HandleError \/ HandleInput \/ HandleReadError \/ HandleEnd
  BY <1>1, <1>6 DEF Poll, HandleError, HandleInput, HandleReadError, HandleEnd
<1>7. CASE LoopShutdown \/ LoopReading \/ Destroy
  BY <1>1, <1>7 DEF LoopShutdown, LoopReading, Destroy
<1>8. CASE Peer
  BY <1>0, <1>1, <1>8, PeerFacts DEF StreamOK
<1>9. ASSUME NEW th \in Thread, Begin(th) \/ Exchange(th) PROVE queue' = queue
  BY <1>9 DEF Begin, BeginSend, BeginForceClose, BeginReading, BeginShutdown, Enter, Exchange
<1>10. ASSUME NEW h \in Sender, Release(h) PROVE queue' = queue
  BY <1>10 DEF Release
<1>11. QED
  BY <1>1, <1>3, <1>4, <1>5, <1>6, <1>7, <1>8, <1>9, <1>10 DEF Next, HandleEvent, LoopCall

LEMMA AppendFrom ==
  ASSUME NEW q \in Seq(Task), NEW t \in Task, NEW i \in DOMAIN Append(q, t)
  PROVE  (i \in DOMAIN q /\ Append(q, t)[i] = q[i]) \/ (i = Len(q) + 1 /\ Append(q, t)[i] = t)
<1>1. /\ Len(q) \in Nat /\ DOMAIN q = 1 .. Len(q)
      /\ DOMAIN Append(q, t) = 1 .. Len(q) + 1
      /\ \A k \in 1 .. Len(q) : Append(q, t)[k] = q[k]
      /\ Append(q, t)[Len(q) + 1] = t
  BY LenProperties, AppendProperties
<1>2. QED
  BY <1>1

\* A call appends a closure of Task.
LEMMA PushTask ==
  ASSUME TypeInv, NEW th \in Thread, Push(th)
  PROVE  \E t \in Task : /\ queue' = Append(queue, t) /\ t.fn = call[th]
                         /\ call[th] = "sendInLoop" => t.data = Data(th)
<1> DEFINE data == IF call[th] = "sendInLoop" THEN Data(th) ELSE <<>>
           t    == [fn |-> call[th], data |-> data]
<1>1. call[th] \in Closures /\ queue' = Append(queue, t)
  BY DEF Push
<1>2. data \in Seq(Byte)
  BY DataFacts, EmptySeq DEF TypeInv, CallsOK, Sender
<1>3. t \in Task
  BY <1>1, <1>2 DEF Task
<1>4. QED
  BY <1>1, <1>3

\* Only what the application calls from other threads is called there; and
\* stopRead and startRead are queued by other threads only.
NotAsked ==
  /\ \A i \in DOMAIN queue : queue[i].fn \notin Reading \ ThreadOps
  /\ \A th \in Thread : call[th] \notin (Reading \cup Steps) \ ThreadOps

LEMMA NotAskedStep ==
  ASSUME TypeInv, NotAsked, [Next]_vars
  PROVE  NotAsked'
<1>0. LoopOK /\ CallsOK /\ queue \in Seq(Task)
  BY DEF TypeInv, LoopOK
<1>1. \A th \in Thread : call'[th] \notin (Reading \cup Steps) \ ThreadOps
  <2>1. CASE call' = call
    BY <2>1 DEF NotAsked
  <2>2. ASSUME NEW th \in Thread, NEW step, call' = [call EXCEPT ![th] = step],
               step \notin (Reading \cup Steps) \ ThreadOps
        PROVE  \A u \in Thread : call'[u] \notin (Reading \cup Steps) \ ThreadOps
    BY <1>0, <2>2 DEF CallsOK, CallType, NotAsked
  <2>3. ASSUME NEW th \in Thread, Begin(th)
        PROVE  \A u \in Thread : call'[u] \notin (Reading \cup Steps) \ ThreadOps
    <3>1. PICK step : Enter(th, step) /\ step \notin (Reading \cup Steps) \ ThreadOps
      BY <2>3 DEF Begin, BeginSend, BeginForceClose, BeginReading, BeginShutdown, Reading, Steps
    <3>2. QED
      BY <2>2, <3>1 DEF Enter
  <2>4. ASSUME NEW th \in Thread, Exchange(th)
        PROVE  \A u \in Thread : call'[u] \notin (Reading \cup Steps) \ ThreadOps
    <3> DEFINE next == CASE call[th] = "shutdown"   /\ state = "kConnected"    -> "shutdownInLoop"
                         [] call[th] = "forceClose" /\ state # "kDisconnected" -> "forceCloseInLoop"
                         [] OTHER -> "idle"
    <3>1. call' = [call EXCEPT ![th] = next]
      BY <1>0, <2>4 DEF Exchange, CallsOK, CallType
    <3>2. next \notin Reading \cup Steps
      BY DEF Reading, Steps
    <3> HIDE DEF next
    <3>3. QED
      BY <2>2, <3>1, <3>2
  <2>5. ASSUME NEW th \in Thread, Push(th)
        PROVE  \A u \in Thread : call'[u] \notin (Reading \cup Steps) \ ThreadOps
    BY <2>2, <2>5 DEF Push, Reading, Steps
  <2>6. CASE Poll \/ HandleEvent \/ RunClosure \/ Destroy
    <3>1. call' = call
      BY <1>0, <2>6, HandleTypes, ClosureTypes DEF TypeInv, Destroy, appVars
    <3>2. QED
      BY <2>1, <3>1
  <2>7. CASE LoopCall \/ Peer
    <3>1. call' = call
      BY <2>7, PeerFacts DEF TypeInv, StreamOK, LoopCall, LoopSend, LoopShutdown, LoopForceClose,
                             LoopReading, appVars
    <3>2. QED
      BY <2>1, <3>1
  <2>8. ASSUME NEW h \in Sender, Release(h) PROVE call' = call
    BY <2>8 DEF Release
  <2>9. CASE UNCHANGED vars
    BY <2>1, <2>9 DEF vars, appVars
  <2>10. QED
    BY <2>1, <2>3, <2>4, <2>5, <2>6, <2>7, <2>8, <2>9 DEF Next
<1>2. ASSUME NEW i \in DOMAIN queue' PROVE queue'[i].fn \notin Reading \ ThreadOps
  <2>0. \A fn \in Inert \cup {"forceCloseInLoop"} : fn \notin Reading
    BY DEF Inert, Reading
  <2>1. CASE InertAfter(queue, queue')
    BY <1>0, <1>2, <2>0, <2>1, InertFrom DEF NotAsked
  <2>2. CASE queue # <<>> /\ InertAfter(Tail(queue), queue')
    <3>1. /\ Tail(queue) \in Seq(Task)
          /\ \A k \in DOMAIN Tail(queue) : k + 1 \in DOMAIN queue /\ Tail(queue)[k] = queue[k + 1]
      BY <1>0, <2>2, TakenTask
    <3>2. QED
      BY <1>2, <2>0, <2>2, <3>1, InertFrom DEF NotAsked
  <2>3. CASE LoopForceClose
    <3>1. Fn("forceCloseInLoop") \in Task /\ Fn("forceCloseInLoop").fn = "forceCloseInLoop"
      BY EmptySeq DEF Fn, Task, Closures
    <3>2. QED
      BY <1>0, <1>2, <2>0, <2>3, <3>1, AppendFrom DEF LoopForceClose, NotAsked
  <2>4. CASE \E th \in Thread : Push(th)
    <3>1. PICK th \in Thread : Push(th)
      BY <2>4
    <3>2. PICK t \in Task : queue' = Append(queue, t) /\ t.fn = call[th]
      BY <3>1, PushTask
    <3>3. QED
      BY <1>0, <1>2, <3>2, AppendFrom DEF NotAsked
  <2>5. QED
    BY <2>1, <2>2, <2>3, <2>4, QueueStep
<1>3. QED
  BY <1>1, <1>2 DEF NotAsked

LEMMA NotAskedInductive == Safety => []NotAsked
<1>1. Init => NotAsked
  BY DEF Init, NotAsked, Reading, Steps
<1>2. QED
  BY <1>1, NotAskedStep, TypeInvInductive, PTL DEF Safety

\* A failed assertion is the end.
LEMMA StillRunning ==
  ASSUME [Next]_vars, Running'
  PROVE  Running
BY DEF Next, Running, Poll, HandleEvent, HandleError, HandleInput, HandleReadError, HandleEnd,
       HandleWrite, Calls, RunClosure, LoopCall, LoopSend, LoopShutdown, LoopForceClose,
       LoopReading, Destroy, Peer, PeerSends, PeerReads, PeerCloses, PeerResets, Kernel,
       Begin, BeginSend, BeginForceClose, BeginReading, BeginShutdown, Enter, Exchange, Push,
       Release, vars

------------------------------------------------------------------------------
(* The interest set of the kernel *)

\* While the channel is not closed, the kernel was told of m_events, or was told
\* of EPOLLOUT before the first update it has refused.
InterestInv ==
  Running /\ Owner \in refs =>
    IF "EXCLUSIVE" \in chan.events THEN "OUT" \in chan.interest
    ELSE chan.interest = chan.events

LEMMA InterestStep ==
  ASSUME TypeInv, NotAsked, InterestInv, [Next]_vars,
         "stopRead" \notin LoopOps \cup ThreadOps
  PROVE  InterestInv'
<1>1. ~Pauses
  <2>1. queue # <<>> => Head(queue) = queue[1] /\ 1 \in DOMAIN queue
    BY TakenTask DEF TypeInv
  <2>2. QED
    BY <2>1 DEF Pauses, NotAsked, Reading
<1>2. Running' => Running
  BY StillRunning
<1>3. chan \in ChannelType
  BY DEF TypeInv, StreamOK
<1>4. CASE Closes
  BY <1>3, <1>4, CloseFacts DEF Closes, InterestInv
<1>5. CASE Adds
  <2> SUFFICES ASSUME Running', Owner \in refs'
               PROVE  IF "EXCLUSIVE" \in chan'.events THEN "OUT" \in chan'.interest
                      ELSE chan'.interest = chan'.events
    BY DEF InterestInv
  <2>1. IF "EXCLUSIVE" \in chan.events THEN "OUT" \in chan.interest
        ELSE chan.interest = chan.events
    BY <1>2, <1>5 DEF InterestInv, Adds
  <2>2. CASE chan' = chan
    BY <2>1, <2>2
  <2>3. CASE chan' = EnableRead(chan) \/ chan' = EnableWrite(chan)
    BY <1>3, <2>1, <2>3, EnableFacts
  <2>4. CASE chan' = DisableWrite(chan) /\ (failed' = "none" => IsWriting(chan) /\ outBuf # <<>>)
    BY <1>3, <2>1, <2>4, DisableFacts DEF Running, IsWriting
  <2>5. QED
    BY <1>1, <1>5, <2>2, <2>3, <2>4 DEF Adds
<1>6. QED
  BY <1>4, <1>5, AddsOrCloses

\* Bytes in m_outputBuffer are waited for in the kernel too, as long as nobody
\* calls stopRead(), whose mask the kernel refuses.
THEOREM BufferedBytesAwaited ==
  ASSUME "stopRead" \notin LoopOps \cup ThreadOps
  PROVE  Safety => []BufferedIsAwaited
<1>1. Init => InterestInv
  <2> SUFFICES ASSUME Init PROVE InterestInv
    OBVIOUS
  <2>1. NewChannel \in ChannelType /\ "EXCLUSIVE" \notin NewChannel.events
    BY DEF NewChannel, ChannelType
  <2>2. QED
    BY <2>1, EnableFacts DEF Init, InterestInv
<1>2. TypeInv /\ NotAsked /\ InterestInv /\ [Next]_vars => InterestInv'
  BY InterestStep
<1>3. Safety => []InterestInv
  BY <1>1, <1>2, TypeInvInductive, NotAskedInductive, PTL DEF Safety
<1>4. WritingInv /\ InterestInv => BufferedIsAwaited
  BY DEF WritingInv, InterestInv, BufferedIsAwaited, IsWriting
<1>5. QED
  BY <1>3, <1>4, WritingInvInductive, PTL

------------------------------------------------------------------------------
(* After the close *)

\* A connection that is closed stays so, if only callbacks on the loop thread
\* exchange m_state: no byte is sent, and epoll hears of it from startRead() only.
LEMMA DownStep ==
  ASSUME TypeInv, NotAsked, [Next]_vars, state = "kDisconnected", ThreadOps \cap Steps = {}
  PROVE  /\ Running' => state' = "kDisconnected"
         /\ wire' = wire /\ outBuf' = outBuf
         /\ Running' => chan' = chan \/ \E op \in Reading :
              /\ ReadingInLoop(op)
              /\ op \in LoopOps \/ (queue # <<>> /\ Head(queue).fn = op)
<1>1. CASE UNCHANGED vars
  BY <1>1 DEF vars
<1>2. CASE Poll \/ HandleError \/ HandleInput \/ HandleReadError \/ HandleWrite
  BY <1>2 DEF Poll, HandleError, HandleInput, HandleReadError, HandleWrite
<1>3. CASE HandleEnd
  <2>1. failed' \in {"handleRead", "handleClose"} /\ UNCHANGED <<wire, outBuf>>
    BY <1>3 DEF HandleEnd, HandleClose
  <2>2. QED
    BY <2>1 DEF Running
<1>4. CASE RunClosure
  BY <1>4 DEF RunClosure, SendInLoop, WritesDirectly
<1>5. CASE LoopSend \/ LoopForceClose
  BY <1>5 DEF LoopSend, CanSend, LoopForceClose
<1>6. CASE LoopShutdown
  BY <1>6 DEF LoopShutdown, Running
<1>7. CASE LoopReading
  BY <1>7 DEF LoopReading
<1>8. CASE Destroy
  BY <1>8 DEF Destroy
<1>9. CASE Peer
  BY <1>9 DEF Peer, PeerSends, PeerReads, PeerCloses, PeerResets, Kernel
<1>10. ASSUME NEW th \in Thread, Begin(th) PROVE UNCHANGED <<state, wire, outBuf, chan>>
  BY <1>10 DEF Begin, BeginSend, BeginForceClose, BeginReading, BeginShutdown, Enter
<1>11. ASSUME NEW th \in Thread, Exchange(th) PROVE FALSE
  BY <1>11 DEF Exchange, NotAsked
<1>12. ASSUME NEW th \in Thread, Push(th) PROVE UNCHANGED <<state, wire, outBuf, chan>>
  BY <1>12 DEF Push
<1>13. ASSUME NEW h \in Sender, Release(h) PROVE UNCHANGED <<state, wire, outBuf, chan>>
  BY <1>13 DEF Release
<1>14. QED
  BY <1>1, <1>2, <1>3, <1>4, <1>5, <1>6, <1>7, <1>8, <1>9, <1>10, <1>11, <1>12, <1>13
     DEF Next, HandleEvent, LoopCall

\* The server has let go of the connection only when it is closed.
DownInv == Running /\ Owner \notin refs => state = "kDisconnected"

LEMMA DownInvInductive ==
  ASSUME ThreadOps \cap Steps = {}
  PROVE  Safety => []DownInv
<1>1. Init => DownInv
  BY DEF Init, DownInv
<1>2. ASSUME TypeInv, NotAsked, DownInv, [Next]_vars
      PROVE  DownInv'
  <2>1. CASE Adds
    BY <1>2, <2>1, DownStep, StillRunning DEF DownInv, Adds
  <2>2. CASE Closes
    BY <2>2 DEF Closes, HandleClose, DownInv
  <2>3. QED
    BY <1>2, <2>1, <2>2, AddsOrCloses
<1>3. QED
  BY <1>1, <1>2, TypeInvInductive, NotAskedInductive, PTL DEF Safety

\* The callbacks that are left: those of a new poll, or one fewer, and no end
\* of the connection is left when it has been closed.
LEMMA CallbacksStep ==
  ASSUME TypeInv, [Next]_vars
  PROVE  /\ \/ Poll
            \/ callbacks' = callbacks
            \/ callbacks # <<>> /\ callbacks' = Tail(callbacks)
         /\ Owner \in refs /\ Owner \notin refs' =>
              \/ callbacks = <<>> /\ callbacks' = <<>>
              \/ callbacks # <<>> /\ callbacks' = Tail(callbacks) /\ Head(callbacks) \in Ends
<1>1. CASE UNCHANGED vars
  BY <1>1 DEF vars, appVars
<1>2. CASE Poll
  BY <1>2 DEF Poll, appVars
<1>3. CASE HandleError \/ HandleInput \/ HandleReadError \/ HandleWrite
  BY <1>3 DEF HandleError, HandleInput, HandleReadError, HandleWrite, Calls, appVars
<1>4. CASE HandleEnd
  BY <1>4 DEF HandleEnd, Ends
<1>5. CASE RunClosure
  BY <1>5 DEF RunClosure
<1>6. CASE LoopCall \/ Destroy
  BY <1>6 DEF LoopCall, LoopSend, LoopShutdown, LoopForceClose, LoopReading, Destroy, appVars
<1>7. CASE Peer
  BY <1>7 DEF Peer, PeerSends, PeerReads, PeerCloses, PeerResets, Kernel, appVars
<1>8. ASSUME NEW th \in Thread, Begin(th) \/ Exchange(th) \/ Push(th)
      PROVE  UNCHANGED <<callbacks, refs>>
  BY <1>8 DEF Begin, BeginSend, BeginForceClose, BeginReading, BeginShutdown, Enter, Exchange, Push
<1>9. ASSUME NEW h \in Sender, Release(h)
      PROVE  callbacks' = callbacks /\ (Owner \in refs' <=> Owner \in refs)
  BY <1>9 DEF Release
<1>10. QED
  BY <1>1, <1>2, <1>3, <1>4, <1>5, <1>6, <1>7, <1>8, <1>9 DEF Next, HandleEvent

\* An open connection is polled, a closed one is not and has no end left to handle.
ClosedInv ==
  Running =>
    /\ OneEnd(callbacks)
    /\ Owner \in refs => chan.polling
    /\ Owner \notin refs => chan.events = {} /\ ~chan.polling /\ NoEnd(callbacks)

LEMMA ClosedStep ==
  ASSUME TypeInv, NotAsked, DownInv, ClosedInv, [Next]_vars,
         ThreadOps \subseteq {"send"}, "startRead" \notin LoopOps
  PROVE  ClosedInv'
<1> SUFFICES ASSUME Running' PROVE ClosedInv'
  BY DEF ClosedInv
<1>0. /\ Running /\ ThreadOps \cap Steps = {} /\ chan \in ChannelType
      /\ callbacks \in Seq(Name) /\ OneEnd(callbacks)
  BY StillRunning DEF Steps, ClosedInv, TypeInv, StreamOK, LoopOK
<1>1. OneEnd(callbacks')
  <2>1. CASE Poll
    BY <2>1, PollFacts DEF Poll
  <2>2. CASE callbacks' = callbacks
    BY <1>0, <2>2
  <2>3. CASE callbacks # <<>> /\ callbacks' = Tail(callbacks)
    BY <1>0, <2>3, TailName
  <2>4. QED
    BY <2>1, <2>2, <2>3, CallbacksStep
<1>2. CASE Owner \in refs'
  <2>1. Adds /\ Owner \in refs /\ chan.polling
    <3>1. ~Closes
      BY <1>2 DEF Closes, HandleClose
    <3>2. QED
      BY <1>0, <1>2, <3>1, AddsOrCloses DEF Adds, ClosedInv
  <2>2. chan'.polling
    BY <1>0, <2>1, EnableFacts, DisableFacts DEF Adds
  <2>3. QED
    BY <1>1, <1>2, <2>2 DEF ClosedInv
<1>3. CASE Owner \in refs /\ Owner \notin refs'
  <2>1. Closes
    BY <1>3, AddsOrCloses DEF Adds
  <2>2. chan'.events = {} /\ ~chan'.polling
    BY <1>0, <1>3, <2>1, CloseFacts DEF Closes, ClosedInv
  <2>3. NoEnd(callbacks')
    <3>1. NoEnd(<<>>)
      BY DEF NoEnd
    <3>2. QED
      BY <1>0, <1>3, <3>1, CallbacksStep, TailName
  <2>4. QED
    BY <1>1, <1>3, <2>2, <2>3 DEF ClosedInv
<1>4. CASE Owner \notin refs /\ Owner \notin refs'
  <2>1. state = "kDisconnected" /\ chan.events = {} /\ ~chan.polling /\ NoEnd(callbacks)
    BY <1>0, <1>4 DEF DownInv, ClosedInv
  <2>2. chan' = chan
    <3>1. ASSUME NEW op \in Reading, ReadingInLoop(op),
                 op \in LoopOps \/ (queue # <<>> /\ Head(queue).fn = op)
          PROVE  chan' = chan
      <4>1. queue # <<>> => Head(queue).fn \notin Reading
        <5>1. queue # <<>> => Head(queue) = queue[1] /\ 1 \in DOMAIN queue
          BY TakenTask DEF TypeInv
        <5>2. QED
          BY <5>1 DEF NotAsked, Reading
      <4>2. op = "stopRead"
        BY <3>1, <4>1 DEF Reading
      <4>3. QED
        BY <2>1, <3>1, <4>2, ReadingFacts, <1>0 DEF IsReading
    <3>2. QED
      BY <1>0, <2>1, <3>1, DownStep
  <2>3. NoEnd(callbacks')
    <3>1. ~Poll
      BY <2>1 DEF Poll
    <3>2. QED
      BY <1>0, <2>1, <3>1, CallbacksStep, TailName
  <2>4. QED
    BY <1>1, <1>4, <2>1, <2>2, <2>3 DEF ClosedInv
<1>5. QED
  BY <1>2, <1>3, <1>4

LEMMA NoAssertionFails ==
  ASSUME TypeInv, NotAsked, WritingInv, DownInv, ClosedInv, AssertionsHold, [Next]_vars,
         ThreadOps \subseteq {"send"}, "startRead" \notin LoopOps
  PROVE  AssertionsHold'
<1>1. /\ chan \in ChannelType /\ callbacks \in Seq(Name)
      /\ Owner \notin refs <=> state = "kDisconnected" \/ (~Running /\ Owner \notin refs)
  BY DEF TypeInv, StreamOK, LoopOK, DownInv, WritingInv
<1>2. failed' \in {failed, "shutdown", "handleWrite"} => AssertionsHold'
  BY DEF AssertionsHold
<1>3. Running /\ callbacks # <<>> /\ Head(callbacks) \in Ends => state # "kDisconnected"
  BY <1>1, TailName DEF ClosedInv, WritingInv
<1>4. Running /\ state # "kDisconnected" => Owner \in refs /\ chan.polling
  BY DEF DownInv, ClosedInv
<1>5. ASSUME HandleClose, Running, state # "kDisconnected" PROVE failed' = failed
  BY <1>1, <1>4, <1>5, CloseFacts
<1>6. ASSUME NEW data, NEW q, SendInLoop(data, q), Running PROVE failed' = failed
  BY <1>4, <1>6 DEF SendInLoop, WritesDirectly, WritingInv
<1>7. CASE HandleInput \/ HandleReadError
  BY <1>2, <1>3, <1>7 DEF HandleInput, HandleReadError, Calls, Ends
<1>8. CASE HandleEnd
  <2>1. Running /\ callbacks # <<>> /\ Head(callbacks) \in Ends
    BY <1>8 DEF HandleEnd, Ends
  <2>2. state # "kDisconnected"
    BY <1>3, <2>1
  <2>3. HandleClose
    BY <1>8, <2>2 DEF HandleEnd
  <2>4. QED
    BY <1>2, <1>5, <2>1, <2>2, <2>3
<1>9. CASE RunClosure
  <2>1. queue # <<>> /\ Running
    BY <1>9 DEF RunClosure
  <2>2. Head(queue).fn \notin Reading
    <3>1. Head(queue) = queue[1] /\ 1 \in DOMAIN queue
      BY <2>1, TakenTask DEF TypeInv
    <3>2. QED
      BY <3>1 DEF NotAsked, Reading
  <2>3. CASE SendInLoop(Head(queue).data, Tail(queue))
    BY <1>2, <1>6, <2>1, <2>3
  <2>4. CASE HandleClose /\ state # "kDisconnected"
    BY <1>2, <1>5, <2>1, <2>4
  <2>5. CASE failed' = failed
    BY <1>2, <2>5
  <2>6. QED
    BY <1>9, <2>2, <2>3, <2>4, <2>5 DEF RunClosure
<1>10. CASE LoopSend
  BY <1>2, <1>6, <1>10 DEF LoopSend
<1>11. CASE Destroy
  BY <1>2, <1>11 DEF Destroy, Held, DownInv
<1>12. CASE Poll \/ HandleError \/ HandleWrite \/ LoopShutdown \/ LoopForceClose \/ LoopReading
  BY <1>2, <1>12 DEF Poll, HandleError, HandleWrite, LoopShutdown, LoopForceClose, LoopReading
<1>13. CASE Peer
  BY <1>2, <1>13 DEF Peer, PeerSends, PeerReads, PeerCloses, PeerResets, Kernel
<1>14. ASSUME NEW th \in Thread, Begin(th) \/ Exchange(th) \/ Push(th)
       PROVE  failed' \in {failed, "shutdown"}
  BY <1>14 DEF Begin, BeginSend, BeginForceClose, BeginReading, BeginShutdown, Exchange, Push
<1>15. ASSUME NEW h \in Sender, Release(h) PROVE failed' = failed
  BY <1>15 DEF Release
<1>16. CASE UNCHANGED vars
  BY <1>2, <1>16 DEF vars
<1>17. QED
  BY <1>2, <1>7, <1>8, <1>9, <1>10, <1>11, <1>12, <1>13, <1>14, <1>15, <1>16
     DEF Next, HandleEvent, LoopCall

\* While only callbacks on the loop thread close the connection, and none calls
\* startRead() on a closed one, no order of sends, closures, polls and events
\* trips the assertions of a read, a close, a removal from epoll, a send or the
\* destruction.
THEOREM AssertionsDoHold ==
  ASSUME ThreadOps \subseteq {"send"}, "startRead" \notin LoopOps
  PROVE  Safety => []AssertionsHold
<1>1. ThreadOps \cap Steps = {}
  BY DEF Steps
<1>2. Init => ClosedInv /\ AssertionsHold
  <2> SUFFICES ASSUME Init PROVE ClosedInv /\ AssertionsHold
    OBVIOUS
  <2>1. NewChannel \in ChannelType
    BY DEF NewChannel, ChannelType
  <2>2. QED
    BY <2>1, EnableFacts DEF Init, ClosedInv, AssertionsHold, OneEnd
<1>3. TypeInv /\ NotAsked /\ DownInv /\ ClosedInv /\ [Next]_vars => ClosedInv'
  BY ClosedStep
<1>4. TypeInv /\ NotAsked /\ WritingInv /\ DownInv /\ ClosedInv /\ AssertionsHold /\ [Next]_vars
        => AssertionsHold'
  BY NoAssertionFails
<1>5. Safety => []DownInv
  BY <1>1, DownInvInductive
<1>6. QED
  BY <1>2, <1>3, <1>4, <1>5, TypeInvInductive, NotAskedInductive, WritingInvInductive, PTL
     DEF Safety

------------------------------------------------------------------------------
(* The order of the bytes *)

\* Of s, q has the first m bytes.
Has(q, s, m) == \A n \in Nat : (\E i \in DOMAIN q : q[i] = <<s, n>>) <=> n \in 1 .. m

\* The message of s after its first k bytes.
Block(s, k) == [i \in 1 .. MsgLen |-> <<s, k + i>>]

LEMMA BlockFacts ==
  ASSUME NEW s \in Sender, NEW k \in Nat
  PROVE  /\ DOMAIN Block(s, k) = 1 .. MsgLen
         /\ \A i \in 1 .. MsgLen : Block(s, k)[i] = <<s, k + i>>
         /\ \A t \in Sender, m \in Nat : Block(s, k) = Block(t, m) => s = t /\ k = m
<1>1. /\ DOMAIN Block(s, k) = 1 .. MsgLen
      /\ \A i \in 1 .. MsgLen : Block(s, k)[i] = <<s, k + i>>
  BY DEF Block
<1>2. ASSUME NEW t \in Sender, NEW m \in Nat, Block(s, k) = Block(t, m)
      PROVE  s = t /\ k = m
  <2>1. 1 \in 1 .. MsgLen
    BY ConnectionAssumption
  <2>2. Block(s, k)[1] = <<s, k + 1>> /\ Block(t, m)[1] = <<t, m + 1>>
    BY <2>1 DEF Block
  <2>3. s = t /\ k + 1 = m + 1
    BY <1>2, <2>2
  <2>4. QED
    BY <2>3
<1>3. QED
  BY <1>1, <1>2

\* Where the bytes of a concatenation come from.
LEMMA Positions ==
  ASSUME NEW p \in Seq(Byte), NEW q \in Seq(Byte)
  PROVE  /\ Len(p) \in Nat /\ DOMAIN p = 1 .. Len(p) /\ DOMAIN p \subseteq DOMAIN (p \o q)
         /\ \A i \in DOMAIN p : (p \o q)[i] = p[i]
         /\ \A i \in DOMAIN q : Len(p) + i \in DOMAIN (p \o q) /\ (p \o q)[Len(p) + i] = q[i]
         /\ \A i \in DOMAIN (p \o q) : i \in DOMAIN p \/ \E j \in DOMAIN q : i = Len(p) + j
<1>1. /\ Len(p) \in Nat /\ Len(q) \in Nat /\ DOMAIN p = 1 .. Len(p) /\ DOMAIN q = 1 .. Len(q)
      /\ DOMAIN (p \o q) = 1 .. Len(p) + Len(q)
      /\ \A i \in 1 .. Len(p) + Len(q) : (p \o q)[i] = IF i <= Len(p) THEN p[i] ELSE q[i - Len(p)]
  BY LenProperties, ConcatProperties
<1>2. \A i \in 1 .. Len(q) : /\ Len(p) + i \in 1 .. Len(p) + Len(q)
                             /\ ~(Len(p) + i <= Len(p)) /\ (Len(p) + i) - Len(p) = i
  BY <1>1
<1>3. ASSUME NEW i \in DOMAIN (p \o q), i \notin DOMAIN p
      PROVE  \E j \in DOMAIN q : i = Len(p) + j
  <2>1. i - Len(p) \in DOMAIN q /\ i = Len(p) + (i - Len(p))
    BY <1>1, <1>3
  <2>2. QED
    BY <2>1
<1>4. QED
  BY <1>1, <1>2, <1>3

LEMMA PrefixInOrder ==
  ASSUME NEW p \in Seq(Byte), NEW q \in Seq(Byte), InOrder(p \o q)
  PROVE  InOrder(p)
<1> DEFINE r == p \o q
<1>1. /\ DOMAIN p = 1 .. Len(p) /\ Len(p) \in Nat /\ DOMAIN p \subseteq DOMAIN r
      /\ \A i \in DOMAIN p : r[i] = p[i]
  BY Positions
<1>2. \A i \in DOMAIN p : \A j \in 1 .. i - 1 : j \in DOMAIN p
  BY <1>1
<1>3. InOrder(r)
  OBVIOUS
<1> HIDE DEF r
<1> SUFFICES ASSUME NEW i \in DOMAIN p
             PROVE  /\ \A j \in DOMAIN p : p[j] = p[i] => j = i
                    /\ p[i][2] > 1 => \E j \in 1 .. i - 1 : p[j] = <<p[i][1], p[i][2] - 1>>
  BY DEF InOrder
<1>4. /\ i \in DOMAIN r /\ r[i] = p[i]
      /\ \A j \in DOMAIN r : r[j] = r[i] => j = i
      /\ r[i][2] > 1 => \E j \in 1 .. i - 1 : r[j] = <<r[i][1], r[i][2] - 1>>
  BY <1>1, <1>3 DEF InOrder
<1>5. ASSUME NEW j \in DOMAIN p, p[j] = p[i] PROVE j = i
  BY <1>1, <1>4, <1>5
<1>6. \A j \in 1 .. i - 1 : p[j] = r[j]
  BY <1>1, <1>2
<1>7. QED
  BY <1>4, <1>5, <1>6

LEMMA AppendBlock ==
  ASSUME NEW q \in Seq(Byte), InOrder(q), NEW s \in Sender, NEW k \in Nat, Has(q, s, k),
         Block(s, k) \in Seq(Byte)
  PROVE  /\ InOrder(q \o Block(s, k))
         /\ Has(q \o Block(s, k), s, k + MsgLen)
         /\ \A t \in Sender \ {s} : \A m \in Nat :
              Has(q, t, m) => Has(q \o Block(s, k), t, m)
<1> DEFINE d == Block(s, k)
           r == q \o d
           L == Len(q)
<1>1. /\ L \in Nat /\ DOMAIN q = 1 .. L /\ DOMAIN q \subseteq DOMAIN r
      /\ \A i \in DOMAIN q : r[i] = q[i]
      /\ \A i \in DOMAIN d : L + i \in DOMAIN r /\ r[L + i] = d[i]
      /\ \A i \in DOMAIN r : i \in DOMAIN q \/ \E j \in DOMAIN d : i = L + j
  BY Positions
<1>2. DOMAIN d = 1 .. MsgLen /\ \A i \in 1 .. MsgLen : d[i] = <<s, k + i>>
  BY BlockFacts
<1>3. MsgLen \in Nat /\ MsgLen > 0
  BY ConnectionAssumption
<1>4. \A i \in DOMAIN q : q[i] \in Byte /\ q[i][2] \in Nat /\ q[i] = <<q[i][1], q[i][2]>>
  <2>1. MsgLen * MaxMsgs \in Nat
    BY ConnectionAssumption
  <2>2. \A b \in Byte : b[2] \in Nat /\ b = <<b[1], b[2]>>
    BY <2>1 DEF Byte
  <2>3. \A i \in DOMAIN q : q[i] \in Byte
    BY ElementOfSeq, <1>1
  <2>4. QED
    BY <2>2, <2>3
<1> HIDE DEF d, r, L
<1>5. \A i \in DOMAIN q : \A j \in 1 .. MsgLen : q[i] # <<s, k + j>>
  <2>1. \A j \in 1 .. MsgLen : k + j \in Nat /\ k + j \notin 1 .. k
    BY <1>3
  <2>2. QED
    BY <2>1 DEF Has
<1>6. InOrder(r)
  <2> SUFFICES ASSUME NEW i \in DOMAIN r
               PROVE  /\ \A j \in DOMAIN r : r[j] = r[i] => j = i
                      /\ r[i][2] > 1 => \E j \in 1 .. i - 1 : r[j] = <<r[i][1], r[i][2] - 1>>
    BY DEF InOrder
  <2>1. CASE i \in DOMAIN q
    <3>1. r[i] = q[i]
      BY <1>1, <2>1
    <3>2. ASSUME NEW j \in DOMAIN r, r[j] = r[i] PROVE j = i
      <4>1. CASE j \in DOMAIN q
        BY <1>1, <2>1, <3>1, <3>2, <4>1 DEF InOrder
      <4>2. ASSUME NEW l \in DOMAIN d, j = L + l PROVE FALSE
        BY <1>1, <1>2, <1>5, <2>1, <3>1, <3>2, <4>2
      <4>3. QED
        BY <1>1, <4>1, <4>2
    <3>3. ASSUME r[i][2] > 1
          PROVE  \E j \in 1 .. i - 1 : r[j] = <<r[i][1], r[i][2] - 1>>
      <4>1. PICK j \in 1 .. i - 1 : q[j] = <<q[i][1], q[i][2] - 1>>
        BY <2>1, <3>1, <3>3 DEF InOrder
      <4>2. j \in DOMAIN q
        BY <1>1, <2>1
      <4>3. QED
        BY <1>1, <3>1, <4>1, <4>2
    <3>4. QED
      BY <3>2, <3>3
  <2>2. ASSUME NEW l \in 1 .. MsgLen, i = L + l
        PROVE  /\ \A j \in DOMAIN r : r[j] = r[i] => j = i
               /\ r[i][2] > 1 => \E j \in 1 .. i - 1 : r[j] = <<r[i][1], r[i][2] - 1>>
    <3>1. r[i] = <<s, k + l>>
      BY <1>1, <1>2, <2>2
    <3>2. ASSUME NEW j \in DOMAIN r, r[j] = r[i] PROVE j = i
      <4>1. j \notin DOMAIN q
        BY <1>1, <1>5, <3>1, <3>2
      <4>2. PICK m \in 1 .. MsgLen : j = L + m
        BY <1>1, <1>2, <4>1
      <4>3. r[j] = <<s, k + m>>
        BY <1>1, <1>2, <4>2
      <4>4. k + m = k + l
        BY <3>1, <3>2, <4>3
      <4>5. QED
        BY <2>2, <4>2, <4>4
    <3>3. ASSUME r[i][2] > 1
          PROVE  \E j \in 1 .. i - 1 : r[j] = <<r[i][1], r[i][2] - 1>>
      <4>1. r[i][1] = s /\ r[i][2] = k + l /\ k + l > 1
        BY <3>1, <3>3
      <4>2. CASE l = 1
        <5>1. k \in 1 .. k /\ (k + l) - 1 = k
          BY <4>1, <4>2
        <5>2. PICK j \in DOMAIN q : q[j] = <<s, k>>
          BY <5>1 DEF Has
        <5>3. r[j] = <<s, k>> /\ j \in 1 .. i - 1
          BY <1>1, <2>2, <4>2, <5>2
        <5>4. QED
          BY <4>1, <5>1, <5>3
      <4>3. CASE l # 1
        <5>1. l - 1 \in 1 .. MsgLen /\ L + (l - 1) \in 1 .. i - 1 /\ k + (l - 1) = (k + l) - 1
          BY <1>1, <1>3, <2>2, <4>3
        <5>2. r[L + (l - 1)] = <<s, k + (l - 1)>>
          BY <1>1, <1>2, <5>1
        <5>3. QED
          BY <4>1, <5>1, <5>2
      <4>4. QED
        BY <4>2, <4>3
    <3>4. QED
      BY <3>2, <3>3
  <2>3. QED
    BY <1>1, <1>2, <2>1, <2>2
<1>7. Has(r, s, k + MsgLen)
  <2> SUFFICES ASSUME NEW n \in Nat
               PROVE  (\E i \in DOMAIN r : r[i] = <<s, n>>) <=> n \in 1 .. k + MsgLen
    BY DEF Has
  <2>1. ASSUME NEW i \in DOMAIN r, r[i] = <<s, n>> PROVE n \in 1 .. k + MsgLen
    <3>1. CASE i \in DOMAIN q
      <4>1. n \in 1 .. k
        BY <1>1, <2>1, <3>1 DEF Has
      <4>2. QED
        BY <1>3, <4>1
    <3>2. ASSUME NEW j \in 1 .. MsgLen, i = L + j PROVE n \in 1 .. k + MsgLen
      <4>1. r[i] = <<s, k + j>>
        BY <1>1, <1>2, <3>2
      <4>2. n = k + j
        BY <2>1, <4>1
      <4>3. QED
        BY <1>3, <4>2
    <3>3. QED
      BY <1>1, <1>2, <3>1, <3>2
  <2>2. ASSUME n \in 1 .. k + MsgLen PROVE \E i \in DOMAIN r : r[i] = <<s, n>>
    <3>1. CASE n \in 1 .. k
      <4>1. PICK i \in DOMAIN q : q[i] = <<s, n>>
        BY <3>1 DEF Has
      <4>2. QED
        BY <1>1, <4>1
    <3>2. CASE n \notin 1 .. k
      <4>1. n - k \in 1 .. MsgLen /\ k + (n - k) = n
        BY <1>3, <2>2, <3>2
      <4>2. L + (n - k) \in DOMAIN r /\ r[L + (n - k)] = <<s, k + (n - k)>>
        BY <1>1, <1>2, <4>1
      <4>3. QED
        BY <4>1, <4>2
    <3>3. QED
      BY <3>1, <3>2
  <2>3. QED
    BY <2>1, <2>2
<1>8. ASSUME NEW t \in Sender \ {s}, NEW m \in Nat, Has(q, t, m) PROVE Has(r, t, m)
  <2>1. ASSUME NEW n \in Nat
        PROVE  (\E i \in DOMAIN r : r[i] = <<t, n>>) <=> \E i \in DOMAIN q : q[i] = <<t, n>>
    <3>1. ASSUME NEW i \in DOMAIN r, r[i] = <<t, n>> PROVE i \in DOMAIN q /\ q[i] = <<t, n>>
      <4>1. ASSUME NEW j \in 1 .. MsgLen, i = L + j PROVE FALSE
        <5>1. r[i] = <<s, k + j>>
          BY <1>1, <1>2, <4>1
        <5>2. QED
          BY <3>1, <5>1
      <4>2. QED
        BY <1>1, <1>2, <3>1, <4>1
    <3>2. QED
      BY <1>1, <3>1
  <2>2. QED
    BY <1>8, <2>1 DEF Has
<1>9. QED
  BY <1>6, <1>7, <1>8 DEF r, d

\* The closure i of q sends the message of s after its first k bytes.
SendOf(q, i, s, k) == i \in DOMAIN q /\ q[i].fn = "sendInLoop" /\ q[i].data = Block(s, k)

\* The closures of s in q send its bytes from lo to hi, in order.
Pending(q, s, lo, hi) ==
  /\ lo = hi \/ \E i, k \in Nat : SendOf(q, i, s, k) /\ k + MsgLen = hi
  /\ \A i, k \in Nat : SendOf(q, i, s, k) =>
       /\ lo <= k /\ k + MsgLen <= hi
       /\ k = lo \/ \E j \in 1 .. i - 1, m \in Nat : SendOf(q, j, s, m) /\ m + MsgLen = k
       /\ \A j \in 1 .. i - 1, m \in Nat : SendOf(q, j, s, m) => m + MsgLen <= k

LEMMA SameSends ==
  ASSUME NEW q, NEW r, NEW s, NEW lo \in Nat, NEW hi \in Nat, Pending(q, s, lo, hi),
         \A i, k \in Nat : SendOf(r, i, s, k) <=> SendOf(q, i, s, k)
  PROVE  Pending(r, s, lo, hi)
<1>1. \A i \in Nat : \A j \in 1 .. i - 1 : j \in Nat
  OBVIOUS
<1>2. lo = hi \/ \E i, k \in Nat : SendOf(r, i, s, k) /\ k + MsgLen = hi
  BY DEF Pending
<1>3. ASSUME NEW i \in Nat, NEW k \in Nat, SendOf(r, i, s, k)
      PROVE  /\ lo <= k /\ k + MsgLen <= hi
             /\ k = lo \/ \E j \in 1 .. i - 1, m \in Nat : SendOf(r, j, s, m) /\ m + MsgLen = k
             /\ \A j \in 1 .. i - 1, m \in Nat : SendOf(r, j, s, m) => m + MsgLen <= k
  <2>1. SendOf(q, i, s, k)
    BY <1>3
  <2>2. /\ lo <= k /\ k + MsgLen <= hi
        /\ k = lo \/ \E j \in 1 .. i - 1, m \in Nat : SendOf(q, j, s, m) /\ m + MsgLen = k
        /\ \A j \in 1 .. i - 1, m \in Nat : SendOf(q, j, s, m) => m + MsgLen <= k
    BY <2>1 DEF Pending
  <2>3. QED
    BY <1>1, <2>2
<1>4. QED
  BY <1>2, <1>3 DEF Pending

LEMMA TailSends ==
  ASSUME NEW q \in Seq(Task), q # <<>>, NEW s, NEW k, NEW i \in Nat
  PROVE  /\ SendOf(Tail(q), i, s, k) => i >= 1 /\ SendOf(q, i + 1, s, k)
         /\ SendOf(q, i, s, k) => i = 1 \/ (i - 1 \in Nat /\ i - 1 >= 1 /\ SendOf(Tail(q), i - 1, s, k))
<1>1. /\ Len(q) \in Nat /\ DOMAIN q = 1 .. Len(q)
      /\ DOMAIN Tail(q) = 1 .. Len(q) - 1
      /\ \A j \in 1 .. Len(q) - 1 : Tail(q)[j] = q[j + 1]
  BY LenProperties, HeadTailProperties, EmptySeq
<1>2. i \in DOMAIN Tail(q) => i >= 1 /\ i + 1 \in DOMAIN q /\ Tail(q)[i] = q[i + 1]
  BY <1>1
<1>3. i \in DOMAIN q /\ i # 1 =>
        i - 1 \in Nat /\ i - 1 >= 1 /\ i - 1 \in DOMAIN Tail(q) /\ Tail(q)[i - 1] = q[i]
  BY <1>1
<1>4. QED
  BY <1>2, <1>3 DEF SendOf

\* The first closure of the queue is taken: it sends the next message of s, or
\* no bytes of s.
LEMMA TakenSend ==
  ASSUME NEW q \in Seq(Task), q # <<>>, NEW s \in Sender, NEW lo \in Nat, NEW hi \in Nat,
         Pending(q, s, lo, hi), NEW k \in Nat, SendOf(q, 1, s, k)
  PROVE  k = lo /\ Pending(Tail(q), s, lo + MsgLen, hi)
<1> DEFINE r == Tail(q)
<1>1. \A i, m \in Nat : SendOf(r, i, s, m) => i >= 1 /\ SendOf(q, i + 1, s, m)
  BY TailSends
<1>2. \A i, m \in Nat : SendOf(q, i, s, m) =>
        i = 1 \/ (i - 1 \in Nat /\ i - 1 >= 1 /\ SendOf(r, i - 1, s, m))
  BY TailSends
<1>3. MsgLen \in Nat /\ MsgLen > 0
  BY ConnectionAssumption
<1>4. \A m \in Nat : SendOf(q, 1, s, m) => m = k
  BY BlockFacts DEF SendOf
<1> HIDE DEF r
<1>5. k = lo /\ k + MsgLen <= hi
  <2>1. ~ \E j \in 1 .. 1 - 1 : TRUE
    OBVIOUS
  <2>2. QED
    BY <2>1 DEF Pending
<1>6. lo + MsgLen = hi \/ \E i, m \in Nat : SendOf(r, i, s, m) /\ m + MsgLen = hi
  <2>1. PICK i \in Nat, m \in Nat : SendOf(q, i, s, m) /\ m + MsgLen = hi
    BY <1>3, <1>5 DEF Pending
  <2>2. CASE i = 1
    BY <1>4, <1>5, <2>1, <2>2
  <2>3. CASE i # 1
    BY <1>2, <2>1, <2>3
  <2>4. QED
    BY <2>2, <2>3
<1>7. ASSUME NEW i \in Nat, NEW m \in Nat, SendOf(r, i, s, m)
      PROVE  /\ lo + MsgLen <= m /\ m + MsgLen <= hi
             /\ \/ m = lo + MsgLen
                \/ \E j \in 1 .. i - 1, l \in Nat : SendOf(r, j, s, l) /\ l + MsgLen = m
             /\ \A j \in 1 .. i - 1, l \in Nat : SendOf(r, j, s, l) => l + MsgLen <= m
  <2>1. i >= 1 /\ SendOf(q, i + 1, s, m) /\ i + 1 \in Nat /\ 1 .. (i + 1) - 1 = 1 .. i
    BY <1>1, <1>7
  <2>2. /\ m + MsgLen <= hi
        /\ m = lo \/ \E j \in 1 .. i, l \in Nat : SendOf(q, j, s, l) /\ l + MsgLen = m
        /\ \A j \in 1 .. i, l \in Nat : SendOf(q, j, s, l) => l + MsgLen <= m
    BY <2>1 DEF Pending
  <2>3. lo + MsgLen <= m
    <3>1. 1 \in 1 .. i
      BY <2>1
    <3>2. QED
      BY <1>5, <2>2, <3>1
  <2>4. \/ m = lo + MsgLen
        \/ \E j \in 1 .. i - 1, l \in Nat : SendOf(r, j, s, l) /\ l + MsgLen = m
    <3>1. PICK j \in 1 .. i, l \in Nat : SendOf(q, j, s, l) /\ l + MsgLen = m
      BY <1>3, <2>2, <2>3
    <3>2. CASE j = 1
      BY <1>4, <1>5, <3>1, <3>2
    <3>3. CASE j # 1
      <4>1. j - 1 \in 1 .. i - 1 /\ j \in Nat
        BY <3>3
      <4>2. QED
        BY <1>2, <3>1, <3>3, <4>1
    <3>4. QED
      BY <3>2, <3>3
  <2>5. ASSUME NEW j \in 1 .. i - 1, NEW l \in Nat, SendOf(r, j, s, l)
        PROVE  l + MsgLen <= m
    <3>1. j \in Nat /\ j + 1 \in 1 .. i
      OBVIOUS
    <3>2. QED
      BY <1>1, <2>2, <2>5, <3>1
  <2>6. QED
    BY <2>2, <2>3, <2>4, <2>5
<1>8. Pending(r, s, lo + MsgLen, hi)
  BY <1>6, <1>7 DEF Pending
<1>9. QED
  BY <1>5, <1>8 DEF r

LEMMA TakenOther ==
  ASSUME NEW q \in Seq(Task), q # <<>>, NEW s \in Sender, NEW lo \in Nat, NEW hi \in Nat,
         Pending(q, s, lo, hi), \A k \in Nat : ~SendOf(q, 1, s, k)
  PROVE  Pending(Tail(q), s, lo, hi)
<1> DEFINE r == Tail(q)
<1>1. \A i, m \in Nat : SendOf(r, i, s, m) => i >= 1 /\ SendOf(q, i + 1, s, m)
  BY TailSends
<1>2. \A i, m \in Nat : SendOf(q, i, s, m) =>
        i # 1 /\ i - 1 \in Nat /\ i - 1 >= 1 /\ SendOf(r, i - 1, s, m)
  BY TailSends
<1> HIDE DEF r
<1>3. lo = hi \/ \E i, m \in Nat : SendOf(r, i, s, m) /\ m + MsgLen = hi
  BY <1>2 DEF Pending
<1>4. ASSUME NEW i \in Nat, NEW m \in Nat, SendOf(r, i, s, m)
      PROVE  /\ lo <= m /\ m + MsgLen <= hi
             /\ m = lo \/ \E j \in 1 .. i - 1, l \in Nat : SendOf(r, j, s, l) /\ l + MsgLen = m
             /\ \A j \in 1 .. i - 1, l \in Nat : SendOf(r, j, s, l) => l + MsgLen <= m
  <2>1. i >= 1 /\ SendOf(q, i + 1, s, m) /\ i + 1 \in Nat /\ 1 .. (i + 1) - 1 = 1 .. i
    BY <1>1, <1>4
  <2>2. /\ lo <= m /\ m + MsgLen <= hi
        /\ m = lo \/ \E j \in 1 .. i, l \in Nat : SendOf(q, j, s, l) /\ l + MsgLen = m
        /\ \A j \in 1 .. i, l \in Nat : SendOf(q, j, s, l) => l + MsgLen <= m
    BY <2>1 DEF Pending
  <2>3. m = lo \/ \E j \in 1 .. i - 1, l \in Nat : SendOf(r, j, s, l) /\ l + MsgLen = m
    <3>1. ASSUME NEW j \in 1 .. i, NEW l \in Nat, SendOf(q, j, s, l), l + MsgLen = m
          PROVE  j - 1 \in 1 .. i - 1 /\ SendOf(r, j - 1, s, l)
      <4>1. j \in Nat
        OBVIOUS
      <4>2. QED
        BY <1>2, <3>1, <4>1
    <3>2. QED
      BY <2>2, <3>1
  <2>4. ASSUME NEW j \in 1 .. i - 1, NEW l \in Nat, SendOf(r, j, s, l)
        PROVE  l + MsgLen <= m
    <3>1. j \in Nat /\ j + 1 \in 1 .. i
      OBVIOUS
    <3>2. QED
      BY <1>1, <2>2, <2>4, <3>1
  <2>5. QED
    BY <2>2, <2>3, <2>4
<1>5. QED
  BY <1>3, <1>4 DEF Pending, r

LEMMA AppendSends ==
  ASSUME NEW q \in Seq(Task), NEW t \in Task, NEW s, NEW k, NEW i \in Nat
  PROVE  SendOf(Append(q, t), i, s, k) <=>
           \/ SendOf(q, i, s, k)
           \/ i = Len(q) + 1 /\ t.fn = "sendInLoop" /\ t.data = Block(s, k)
<1>1. /\ Len(q) \in Nat /\ DOMAIN q = 1 .. Len(q)
      /\ DOMAIN Append(q, t) = 1 .. Len(q) + 1
      /\ \A j \in 1 .. Len(q) : Append(q, t)[j] = q[j]
      /\ Append(q, t)[Len(q) + 1] = t
  BY LenProperties, AppendProperties
<1>2. /\ i \in DOMAIN Append(q, t) <=> i \in DOMAIN q \/ i = Len(q) + 1
      /\ i \in DOMAIN q => i # Len(q) + 1
  BY <1>1
<1>3. QED
  BY <1>1, <1>2 DEF SendOf

LEMMA QueuedSend ==
  ASSUME NEW q \in Seq(Task), NEW t \in Task, NEW s \in Sender, NEW lo \in Nat, NEW hi \in Nat,
         Pending(q, s, lo, hi), t.fn = "sendInLoop", t.data = Block(s, hi)
  PROVE  Pending(Append(q, t), s, lo, hi + MsgLen)
<1> DEFINE r == Append(q, t)
           L == Len(q)
<1>1. L \in Nat /\ DOMAIN q = 1 .. L
  BY LenProperties
<1>2. \A i, k \in Nat : SendOf(r, i, s, k) <=> SendOf(q, i, s, k) \/ (i = L + 1 /\ k = hi)
  BY AppendSends, BlockFacts
<1>3. \A i, k : SendOf(q, i, s, k) => i \in 1 .. L
  BY <1>1 DEF SendOf
<1>4. MsgLen \in Nat /\ MsgLen > 0
  BY ConnectionAssumption
<1> HIDE DEF r, L
<1>5. lo <= hi
  BY <1>4 DEF Pending
<1>6. \E i, k \in Nat : SendOf(r, i, s, k) /\ k + MsgLen = hi + MsgLen
  <2>1. L + 1 \in Nat /\ SendOf(r, L + 1, s, hi)
    BY <1>1, <1>2
  <2>2. QED
    BY <2>1
<1>7. ASSUME NEW i \in Nat, NEW k \in Nat, SendOf(r, i, s, k)
      PROVE  /\ lo <= k /\ k + MsgLen <= hi + MsgLen
             /\ k = lo \/ \E j \in 1 .. i - 1, m \in Nat : SendOf(r, j, s, m) /\ m + MsgLen = k
             /\ \A j \in 1 .. i - 1, m \in Nat : SendOf(r, j, s, m) => m + MsgLen <= k
  <2>1. CASE SendOf(q, i, s, k)
    <3>1. /\ lo <= k /\ k + MsgLen <= hi
          /\ k = lo \/ \E j \in 1 .. i - 1, m \in Nat : SendOf(q, j, s, m) /\ m + MsgLen = k
          /\ \A j \in 1 .. i - 1, m \in Nat : SendOf(q, j, s, m) => m + MsgLen <= k
      BY <2>1 DEF Pending
    <3>2. \A j \in 1 .. i - 1 : j \in Nat /\ j # L + 1
      BY <1>1, <1>3, <2>1
    <3>3. k + MsgLen <= hi + MsgLen
      BY <1>4, <3>1
    <3>4. \A j \in 1 .. i - 1 : \A m \in Nat : SendOf(r, j, s, m) <=> SendOf(q, j, s, m)
      BY <1>2, <3>2
    <3>5. QED
      BY <3>1, <3>3, <3>4
  <2>2. CASE i = L + 1 /\ k = hi
    <3>1. k = lo \/ \E j \in 1 .. i - 1, m \in Nat : SendOf(r, j, s, m) /\ m + MsgLen = k
      <4>1. ASSUME NEW j \in Nat, NEW m \in Nat, SendOf(q, j, s, m), m + MsgLen = hi
            PROVE  j \in 1 .. i - 1 /\ SendOf(r, j, s, m)
        BY <1>1, <1>2, <1>3, <2>2, <4>1
      <4>2. QED
        BY <2>2, <4>1 DEF Pending
    <3>2. ASSUME NEW j \in 1 .. i - 1, NEW m \in Nat, SendOf(r, j, s, m)
          PROVE  m + MsgLen <= k
      <4>1. j \in Nat /\ j # L + 1
        BY <1>1, <2>2
      <4>2. SendOf(q, j, s, m)
        BY <1>2, <3>2, <4>1
      <4>3. QED
        BY <2>2, <4>1, <4>2 DEF Pending
    <3>3. QED
      BY <1>4, <1>5, <2>2, <3>1, <3>2
  <2>3. QED
    BY <1>2, <1>7, <2>1, <2>2
<1>8. QED
  BY <1>6, <1>7 DEF Pending, r

\* The stream of a connection that is open: what is written and what is to be.
Stream   == wire \o outBuf
Blocks   == \A i \in DOMAIN queue : queue[i].fn = "sendInLoop" =>
              \E s \in Thread, k \in Nat : queue[i].data = Block(s, k)
Awaited(s) == \E lo \in Nat : Has(Stream, s, lo) /\ Pending(queue, s, lo, sent[s])

\* The stream and then the queue hold what was sent, of each sender in order.
Orderly ==
  /\ InOrder(Stream) /\ Blocks
  /\ Has(Stream, Loop, sent[Loop])
  /\ \A s \in Thread : Awaited(s)

\* Steps by which no byte enters the stream or the queue.
LEMMA NothingSent ==
  ASSUME TypeInv, Orderly, Stream' = Stream, sent' = sent,
         \/ InertAfter(queue, queue')
         \/ queue # <<>> /\ InertAfter(Tail(queue), queue') /\ Head(queue).fn # "sendInLoop"
         \/ LoopForceClose
  PROVE  Orderly'
<1>0. queue \in Seq(Task) /\ LoopOK /\ sent \in [Sender -> Nat] /\ Thread \subseteq Sender
  BY DEF TypeInv, LoopOK, CallsOK, Sender
<1>1. \A fn \in Inert \cup {"forceCloseInLoop"} : fn # "sendInLoop"
  BY DEF Inert
<1>2. Blocks' /\ \A s \in Thread, lo \in Nat :
        Pending(queue, s, lo, sent[s]) => Pending(queue', s, lo, sent[s])
  <2>1. ASSUME NEW q \in Seq(Task), InertAfter(q, queue')
        PROVE  /\ \A i \in DOMAIN queue' : queue'[i].fn = "sendInLoop" =>
                    i \in DOMAIN q /\ queue'[i] = q[i]
               /\ \A s : \A i, k \in Nat : SendOf(queue', i, s, k) <=> SendOf(q, i, s, k)
    <3>1. \A i \in DOMAIN queue' : queue'[i].fn = "sendInLoop" =>
                    i \in DOMAIN q /\ queue'[i] = q[i]
      BY <1>1, <2>1, InertFrom
    <3>2. \A i \in DOMAIN q : i \in DOMAIN queue' /\ queue'[i] = q[i]
      BY <2>1, InertKeeps
    <3>3. QED
      BY <3>1, <3>2 DEF SendOf
  <2>2. CASE InertAfter(queue, queue')
    <3>1. Blocks'
      BY <1>0, <2>1, <2>2 DEF Blocks, Orderly
    <3>2. ASSUME NEW s \in Thread, NEW lo \in Nat, Pending(queue, s, lo, sent[s])
          PROVE  Pending(queue', s, lo, sent[s])
      <4>1. \A i, k \in Nat : SendOf(queue', i, s, k) <=> SendOf(queue, i, s, k)
        BY <1>0, <2>1, <2>2
      <4>2. QED
        BY <1>0, <3>2, <4>1, SameSends
    <3>3. QED
      BY <3>1, <3>2
  <2>3. CASE queue # <<>> /\ InertAfter(Tail(queue), queue') /\ Head(queue).fn # "sendInLoop"
    <3>1. /\ Tail(queue) \in Seq(Task) /\ Head(queue) = queue[1]
          /\ \A i \in DOMAIN Tail(queue) : i + 1 \in DOMAIN queue /\ Tail(queue)[i] = queue[i + 1]
      BY <1>0, <2>3, TakenTask
    <3>2. Blocks'
      <4> SUFFICES ASSUME NEW i \in DOMAIN queue', queue'[i].fn = "sendInLoop"
                   PROVE  \E s \in Thread, k \in Nat : queue'[i].data = Block(s, k)
        BY DEF Blocks
      <4>1. i \in DOMAIN Tail(queue) /\ queue'[i] = Tail(queue)[i]
        BY <2>1, <2>3, <3>1
      <4>2. i + 1 \in DOMAIN queue /\ queue'[i] = queue[i + 1]
        BY <3>1, <4>1
      <4>3. QED
        BY <4>2 DEF Blocks, Orderly
    <3>3. ASSUME NEW s \in Thread, NEW lo \in Nat, Pending(queue, s, lo, sent[s])
          PROVE  Pending(queue', s, lo, sent[s])
      <4>1. \A i, k \in Nat : SendOf(queue', i, s, k) <=> SendOf(Tail(queue), i, s, k)
        BY <2>1, <2>3, <3>1
      <4>2. Pending(Tail(queue), s, lo, sent[s])
        <5>1. \A k \in Nat : ~SendOf(queue, 1, s, k)
          BY <2>3, <3>1 DEF SendOf
        <5>2. QED
          BY <1>0, <2>3, <3>3, <5>1, TakenOther
      <4>3. QED
        BY <1>0, <4>1, <4>2, SameSends
    <3>4. QED
      BY <3>2, <3>3
  <2>4. CASE LoopForceClose
    <3> DEFINE t == Fn("forceCloseInLoop")
    <3>1. t \in Task /\ t.fn # "sendInLoop" /\ queue' = Append(queue, t)
      BY <2>4, EmptySeq DEF LoopForceClose, Fn, Task, Closures
    <3> HIDE DEF t
    <3>2. Blocks'
      <4> SUFFICES ASSUME NEW i \in DOMAIN queue', queue'[i].fn = "sendInLoop"
                   PROVE  \E s \in Thread, k \in Nat : queue'[i].data = Block(s, k)
        BY DEF Blocks
      <4>1. i \in DOMAIN queue /\ queue'[i] = queue[i]
        BY <1>0, <3>1, AppendFrom
      <4>2. QED
        BY <4>1 DEF Blocks, Orderly
    <3>3. ASSUME NEW s \in Thread, NEW lo \in Nat, Pending(queue, s, lo, sent[s])
          PROVE  Pending(queue', s, lo, sent[s])
      <4>1. \A i, k \in Nat : SendOf(queue', i, s, k) <=> SendOf(queue, i, s, k)
        BY <1>0, <3>1, AppendSends
      <4>2. QED
        BY <1>0, <3>3, <4>1, SameSends
    <3>4. QED
      BY <3>2, <3>3
  <2>5. QED
    BY <2>2, <2>3, <2>4
<1>3. \A s \in Thread : Awaited(s)'
  BY <1>2 DEF Orderly, Awaited
<1>4. QED
  BY <1>2, <1>3 DEF Orderly

\* The loop thread sends the message of a closure.
LEMMA ClosureSends ==
  ASSUME TypeInv, Orderly, queue # <<>>, InertAfter(Tail(queue), queue'), sent' = sent,
         Head(queue).fn = "sendInLoop", Stream' = Stream \o Head(queue).data
  PROVE  Orderly'
<1>0. /\ queue \in Seq(Task) /\ LoopOK /\ sent \in [Sender -> Nat] /\ Thread \subseteq Sender
      /\ Loop \in Sender \ Thread /\ MsgLen \in Nat
  BY ConnectionAssumption DEF TypeInv, LoopOK, CallsOK, Sender
<1>1. /\ Tail(queue) \in Seq(Task) /\ Head(queue) = queue[1] /\ 1 \in DOMAIN queue
      /\ Head(queue).data \in Seq(Byte)
      /\ \A i \in DOMAIN Tail(queue) : i + 1 \in DOMAIN queue /\ Tail(queue)[i] = queue[i + 1]
  BY <1>0, TakenTask DEF Task
<1>2. PICK u \in Thread, k \in Nat : Head(queue).data = Block(u, k)
  BY <1>1 DEF Orderly, Blocks
<1>3. SendOf(queue, 1, u, k)
  BY <1>1, <1>2 DEF SendOf
<1>4. \A i \in DOMAIN queue' : queue'[i].fn = "sendInLoop" =>
        i \in DOMAIN Tail(queue) /\ queue'[i] = Tail(queue)[i]
  <2>1. \A fn \in Inert : fn # "sendInLoop"
    BY DEF Inert
  <2>2. QED
    BY <1>1, <2>1, InertFrom
<1>5. \A s : \A i, m \in Nat : SendOf(queue', i, s, m) <=> SendOf(Tail(queue), i, s, m)
  <2>1. \A i \in DOMAIN Tail(queue) : i \in DOMAIN queue' /\ queue'[i] = Tail(queue)[i]
    BY <1>1, InertKeeps
  <2>2. QED
    BY <1>4, <2>1 DEF SendOf
<1>6. PICK low \in Nat : Has(Stream, u, low) /\ Pending(queue, u, low, sent[u])
  BY DEF Orderly, Awaited
<1>7. k = low /\ Pending(Tail(queue), u, low + MsgLen, sent[u])
  BY <1>0, <1>3, <1>6, TakenSend
<1>8. Stream \in Seq(Byte)
  BY ConcatProperties DEF Stream, TypeInv, StreamOK
<1>9. /\ InOrder(Stream') /\ Has(Stream', u, low + MsgLen)
      /\ \A t \in Sender \ {u} : \A m \in Nat : Has(Stream, t, m) => Has(Stream', t, m)
  <2>1. InOrder(Stream) /\ Has(Stream, u, k) /\ Block(u, k) \in Seq(Byte) /\ u \in Sender
    BY <1>0, <1>1, <1>2, <1>6, <1>7 DEF Orderly
  <2>2. /\ InOrder(Stream \o Block(u, k)) /\ Has(Stream \o Block(u, k), u, k + MsgLen)
        /\ \A t \in Sender \ {u} : \A m \in Nat :
             Has(Stream, t, m) => Has(Stream \o Block(u, k), t, m)
    BY <1>8, <2>1, AppendBlock
  <2>3. QED
    BY <1>2, <1>7, <2>2
<1>10. Blocks'
  BY <1>1, <1>4 DEF Orderly, Blocks
<1>11. Has(Stream', Loop, sent[Loop])
  BY <1>0, <1>9 DEF Orderly
<1>12. ASSUME NEW s \in Thread PROVE Awaited(s)'
  <2>1. CASE s = u
    <3>1. low + MsgLen \in Nat /\ sent[u] \in Nat
      BY <1>0
    <3>2. Pending(queue', u, low + MsgLen, sent[u])
      BY <1>5, <1>7, <3>1, SameSends
    <3>3. QED
      BY <1>9, <2>1, <3>1, <3>2 DEF Awaited
  <2>2. CASE s # u
    <3>1. PICK lo \in Nat : Has(Stream, s, lo) /\ Pending(queue, s, lo, sent[s])
      BY DEF Orderly, Awaited
    <3>2. Pending(Tail(queue), s, lo, sent[s])
      <4>1. \A m \in Nat : ~SendOf(queue, 1, s, m)
        BY <1>0, <1>2, <1>1, <2>2, BlockFacts DEF SendOf
      <4>2. QED
        BY <1>0, <3>1, <4>1, TakenOther
    <3>3. Pending(queue', s, lo, sent[s])
      BY <1>0, <1>5, <3>2, SameSends
    <3>4. QED
      BY <1>0, <1>9, <2>2, <3>1, <3>3 DEF Awaited
  <2>3. QED
    BY <2>1, <2>2
<1>13. QED
  BY <1>9, <1>10, <1>11, <1>12 DEF Orderly

\* A callback on the loop thread sends at once.
LEMMA LoopSends ==
  ASSUME TypeInv, Orderly, InertAfter(queue, queue'), Stream' = Stream \o Data(Loop),
         sent[Loop] < MsgLen * MaxMsgs, sent' = [sent EXCEPT ![Loop] = @ + MsgLen]
  PROVE  Orderly'
<1>0. /\ queue \in Seq(Task) /\ sent \in [Sender -> Nat] /\ Thread \subseteq Sender
      /\ Loop \in Sender \ Thread /\ MsgLen \in Nat /\ Data(Loop) \in Seq(Byte)
  BY ConnectionAssumption, DataFacts DEF TypeInv, LoopOK, CallsOK, Sender
<1>1. /\ Data(Loop) = Block(Loop, sent[Loop]) /\ sent[Loop] \in Nat
      /\ sent'[Loop] = sent[Loop] + MsgLen /\ \A s \in Thread : sent'[s] = sent[s]
  BY <1>0 DEF Data, Block
<1>2. Stream \in Seq(Byte)
  BY ConcatProperties DEF Stream, TypeInv, StreamOK
<1>3. /\ InOrder(Stream') /\ Has(Stream', Loop, sent'[Loop])
      /\ \A t \in Sender \ {Loop} : \A m \in Nat : Has(Stream, t, m) => Has(Stream', t, m)
  BY <1>0, <1>1, <1>2, AppendBlock DEF Orderly
<1>4. /\ Blocks'
      /\ \A s : \A i, m \in Nat : SendOf(queue', i, s, m) <=> SendOf(queue, i, s, m)
  <2>1. \A fn \in Inert : fn # "sendInLoop"
    BY DEF Inert
  <2>2. \A i \in DOMAIN queue' : queue'[i].fn = "sendInLoop" =>
          i \in DOMAIN queue /\ queue'[i] = queue[i]
    BY <1>0, <2>1, InertFrom
  <2>3. \A i \in DOMAIN queue : i \in DOMAIN queue' /\ queue'[i] = queue[i]
    BY <1>0, InertKeeps
  <2>4. QED
    BY <2>2, <2>3 DEF SendOf, Blocks, Orderly
<1>5. ASSUME NEW s \in Thread PROVE Awaited(s)'
  <2>1. PICK lo \in Nat : Has(Stream, s, lo) /\ Pending(queue, s, lo, sent[s])
    BY DEF Orderly, Awaited
  <2>2. Pending(queue', s, lo, sent'[s])
    BY <1>0, <1>1, <1>4, <2>1, SameSends
  <2>3. QED
    BY <1>0, <1>3, <2>1, <2>2 DEF Awaited
<1>6. QED
  BY <1>3, <1>4, <1>5 DEF Orderly

\* Another thread queues a closure, of a message or not.
LEMMA ThreadSends ==
  ASSUME TypeInv, Orderly, NEW th \in Thread, Push(th)
  PROVE  Orderly'
<1>0. /\ queue \in Seq(Task) /\ sent \in [Sender -> Nat] /\ Thread \subseteq Sender
      /\ Loop \in Sender \ Thread /\ MsgLen \in Nat
  BY ConnectionAssumption DEF TypeInv, LoopOK, CallsOK, Sender
<1>1. PICK t \in Task : /\ queue' = Append(queue, t) /\ t.fn = call[th]
                        /\ call[th] = "sendInLoop" => t.data = Data(th)
  BY PushTask
<1>2. Stream' = Stream
  BY DEF Push, Stream
<1>3. Data(th) = Block(th, sent[th]) /\ sent[th] \in Nat
  BY <1>0 DEF Data, Block
<1>4. Blocks'
  BY <1>0, <1>1, <1>3, AppendFrom DEF Orderly, Blocks
<1>5. /\ sent'[Loop] = sent[Loop] /\ \A s \in Thread \ {th} : sent'[s] = sent[s]
      /\ call[th] = "sendInLoop" => sent'[th] = sent[th] + MsgLen
      /\ call[th] # "sendInLoop" => sent'[th] = sent[th]
  <2>1. CASE call[th] = "sendInLoop"
    <3>1. sent' = [sent EXCEPT ![th] = @ + Len(Data(th))]
      BY <2>1 DEF Push
    <3>2. Len(Data(th)) = MsgLen
      BY <1>0, <2>1, DataFacts DEF TypeInv, CallsOK
    <3>3. QED
      BY <1>0, <2>1, <3>1, <3>2
  <2>2. CASE call[th] # "sendInLoop"
    <3>1. sent' = [sent EXCEPT ![th] = @ + 0]
      BY <2>2 DEF Push
    <3>2. sent[th] + 0 = sent[th]
      BY <1>3
    <3>3. QED
      BY <1>0, <2>2, <3>1, <3>2
  <2>3. QED
    BY <2>1, <2>2
<1>6. ASSUME NEW s \in Thread PROVE Awaited(s)'
  <2>1. PICK lo \in Nat : Has(Stream, s, lo) /\ Pending(queue, s, lo, sent[s])
    BY DEF Orderly, Awaited
  <2>2. Pending(queue', s, lo, sent'[s])
    <3>1. CASE s = th /\ call[th] = "sendInLoop"
      BY <1>0, <1>1, <1>3, <1>5, <2>1, <3>1, QueuedSend
    <3>2. CASE ~(s = th /\ call[th] = "sendInLoop")
      <4>1. \A i, k \in Nat : SendOf(queue', i, s, k) <=> SendOf(queue, i, s, k)
        <5>1. ASSUME NEW k \in Nat, t.fn = "sendInLoop", t.data = Block(s, k) PROVE FALSE
          <6>1. Block(th, sent[th]) = Block(s, k)
            BY <1>1, <1>3, <5>1
          <6>2. QED
            BY <1>0, <1>1, <1>3, <3>2, <5>1, <6>1, BlockFacts
        <5>2. QED
          BY <1>0, <1>1, <5>1, AppendSends
      <4>2. sent'[s] = sent[s]
        BY <1>5, <3>2
      <4>3. QED
        BY <1>0, <2>1, <4>1, <4>2, SameSends
    <3>3. QED
      BY <3>1, <3>2
  <2>3. QED
    BY <1>2, <2>1, <2>2 DEF Awaited
<1>7. QED
  BY <1>2, <1>4, <1>5, <1>6 DEF Orderly

\* The order of sends is right as long as the connection is open and not broken.
OrderInv == Running /\ ~Broken /\ state # "kDisconnected" => Orderly

LEMMA OrderlyStep ==
  ASSUME TypeInv, WritingInv, DownInv, Orderly, [Next]_vars,
         Running, ~Broken, state # "kDisconnected"
  PROVE  Orderly'
<1>0. /\ StreamOK /\ LoopOK /\ CallsOK /\ queue \in Seq(Task)
      /\ IsWriting(chan) \/ outBuf = <<>>
  BY DEF TypeInv, LoopOK, DownInv, WritingInv
<1>1. ASSUME NEW data \in Seq(Byte), NEW q \in Seq(Task), SendInLoop(data, q)
      PROVE  Stream' = Stream \o data /\ InertAfter(q, queue')
  BY <1>0, <1>1, SendFacts DEF Stream
<1>2. CASE RunClosure
  <2>1. /\ queue # <<>> /\ sent' = sent
        /\ Head(queue).data \in Seq(Byte) /\ Tail(queue) \in Seq(Task)
    BY <1>0, <1>2, TakenTask DEF RunClosure, Task
  <2>2. CASE Head(queue).fn = "sendInLoop"
    <3>1. SendInLoop(Head(queue).data, Tail(queue))
      BY <1>2, <2>2 DEF RunClosure, Reading, Inert
    <3>2. QED
      BY <1>1, <2>1, <2>2, <3>1, ClosureSends
  <2>3. CASE Head(queue).fn # "sendInLoop"
    <3>1. Stream' = Stream /\ queue' = Tail(queue)
      BY <1>2, <2>3 DEF RunClosure, Stream
    <3>2. QED
      BY <2>1, <2>3, <3>1, InertEmpty, NothingSent
  <2>4. QED
    BY <2>2, <2>3
<1>3. CASE LoopSend
  <2>1. Data(Loop) \in Seq(Byte)
    BY <1>0, <1>3, DataFacts DEF LoopSend, CanSend, CallsOK, Sender
  <2>2. QED
    BY <1>0, <1>1, <1>3, <2>1, LoopSends DEF LoopSend, CanSend
<1>4. ASSUME NEW th \in Thread, Push(th) PROVE Orderly'
  BY <1>4, ThreadSends
<1>5. ASSUME Stream' = Stream, sent' = sent, queue' = queue PROVE Orderly'
  BY <1>0, <1>5, InertEmpty, NothingSent
<1>6. CASE HandleWrite
  BY <1>0, <1>6, WriteFacts, NothingSent DEF Stream, appVars
<1>7. CASE LoopForceClose
  BY <1>7, NothingSent DEF LoopForceClose, Stream, appVars
<1>8. CASE UNCHANGED vars
  BY <1>5, <1>8 DEF vars, appVars, Stream
<1>9. CASE Poll \/ HandleError \/ HandleInput \/ HandleReadError \/ HandleEnd
  BY <1>5, <1>9 DEF Poll, HandleError, HandleInput, HandleReadError, HandleEnd, appVars, Stream
<1>10. CASE LoopShutdown \/ LoopReading \/ Destroy
  BY <1>5, <1>10 DEF LoopShutdown, LoopReading, Destroy, appVars, Stream
<1>11. CASE Peer
  BY <1>5, <1>11 DEF Peer, PeerSends, PeerReads, PeerCloses, PeerResets, Kernel, appVars, Stream
<1>12. ASSUME NEW th \in Thread, Begin(th) \/ Exchange(th) PROVE Orderly'
  BY <1>5, <1>12 DEF Begin, BeginSend, BeginForceClose, BeginReading, BeginShutdown, Enter,
                     Exchange, Stream
<1>13. ASSUME NEW h \in Sender, Release(h) PROVE Orderly'
  BY <1>5, <1>13 DEF Release, Stream
<1>14. QED
  BY <1>2, <1>3, <1>4, <1>6, <1>7, <1>8, <1>9, <1>10, <1>11, <1>12, <1>13
     DEF Next, HandleEvent, LoopCall

\* ::write goes on failing once it has failed for good, and writes nothing.
LEMMA BrokenStep ==
  ASSUME TypeInv, [Next]_vars, Broken
  PROVE  Broken' /\ wire' = wire
<1>0. StreamOK /\ LoopOK /\ CallsOK /\ sock \in SockType
  BY DEF TypeInv, StreamOK
<1>1. sock' = sock => Broken'
  BY DEF Broken
<1>2. ASSUME NEW data \in Seq(Byte), NEW q \in Seq(Task), SendInLoop(data, q)
      PROVE  Broken' /\ wire' = wire
  <2>1. CASE state = "kDisconnected"
    BY <1>1, <1>2, <2>1 DEF SendInLoop, WritesDirectly
  <2>2. CASE state # "kDisconnected"
    BY <1>0, <1>2, <2>2, SendFacts DEF Broken
  <2>3. QED
    BY <2>1, <2>2
<1>3. CASE RunClosure
  <2>1. Head(queue).data \in Seq(Byte) /\ Tail(queue) \in Seq(Task)
    BY <1>0, <1>3, TakenTask DEF RunClosure, Task
  <2>2. CASE SendInLoop(Head(queue).data, Tail(queue))
    BY <1>2, <2>1, <2>2
  <2>3. CASE sock' = ShutdownInLoop(state, chan, sock) /\ wire' = wire
    BY <1>0, <2>3, ShutdownFacts DEF Broken
  <2>4. CASE sock' = sock /\ wire' = wire
    BY <1>1, <2>4
  <2>5. QED
    BY <1>3, <2>2, <2>3, <2>4 DEF RunClosure
<1>4. CASE LoopSend
  <2>1. Data(Loop) \in Seq(Byte)
    BY <1>0, <1>4, DataFacts DEF LoopSend, CanSend, CallsOK, Sender
  <2>2. QED
    BY <1>0, <1>2, <1>4, <2>1 DEF LoopSend, LoopOK
<1>5. CASE HandleWrite
  <2>1. CASE state = "kDisconnected"
    BY <1>1, <1>5, <2>1 DEF HandleWrite
  <2>2. CASE state # "kDisconnected"
    BY <1>0, <1>5, <2>2, WriteFacts DEF LoopOK, Broken
  <2>3. QED
    BY <2>1, <2>2
<1>6. CASE HandleError \/ HandleInput \/ HandleReadError \/ Destroy
  <2>1. \/ sock' = [sock EXCEPT !.err = FALSE]
        \/ sock' = [sock EXCEPT !.input = FALSE]
        \/ sock' = [sock EXCEPT !.open = FALSE]
    BY <1>6 DEF HandleError, HandleInput, HandleReadError, Destroy
  <2>2. sock'.rst = sock.rst /\ sock'.finSent = sock.finSent
    BY <1>0, <2>1 DEF SockType
  <2>3. QED
    BY <1>6, <2>2 DEF Broken, HandleError, HandleInput, HandleReadError, Destroy
<1>7. CASE LoopShutdown
  BY <1>0, <1>1, <1>7, ShutdownFacts DEF LoopShutdown, Broken
<1>8. CASE Peer
  BY <1>0, <1>8, PeerFacts DEF Broken
<1>9. CASE UNCHANGED vars
  BY <1>1, <1>9 DEF vars
<1>10. CASE Poll \/ HandleEnd \/ LoopForceClose \/ LoopReading
  BY <1>1, <1>10 DEF Poll, HandleEnd, LoopForceClose, LoopReading
<1>11. ASSUME NEW th \in Thread, Begin(th) \/ Exchange(th) \/ Push(th)
       PROVE  UNCHANGED <<sock, wire>>
  BY <1>11 DEF Begin, BeginSend, BeginForceClose, BeginReading, BeginShutdown, Enter, Exchange, Push
<1>12. ASSUME NEW h \in Sender, Release(h) PROVE UNCHANGED <<sock, wire>>
  BY <1>12 DEF Release
<1>13. QED
  BY <1>1, <1>3, <1>4, <1>5, <1>6, <1>7, <1>8, <1>9, <1>10, <1>11, <1>12
     DEF Next, HandleEvent, LoopCall

\* What reaches the wire of one sender is a prefix of what it sent, if the other
\* threads leave m_state alone.  (One that exchanges it after the close makes
\* a closed connection look open, and sendInLoop() write around the buffer.)
THEOREM WireHasPrefixes ==
  ASSUME ThreadOps \cap Steps = {}
  PROVE  Safety => []WirePrefix
<1>1. Init => OrderInv /\ WirePrefix
  <2> SUFFICES ASSUME Init PROVE Orderly /\ WirePrefix
    BY DEF OrderInv
  <2>1. Stream = <<>> /\ wire = <<>> /\ DOMAIN <<>> = {} /\ queue = <<>>
    BY ConcatEmptySeq, EmptySeq DEF Init, Stream
  <2>2. InOrder(<<>>)
    BY <2>1 DEF InOrder
  <2>3. \A s \in Sender : Has(Stream, s, 0) /\ sent[s] = 0
    BY <2>1 DEF Has, Init
  <2>4. \A s : Pending(queue, s, 0, 0)
    BY <2>1 DEF Pending, SendOf
  <2>5. QED
    BY <2>1, <2>2, <2>3, <2>4 DEF Orderly, Blocks, Awaited, Sender, WirePrefix
<1>2. ASSUME TypeInv, NotAsked, WritingInv, DownInv, OrderInv, WirePrefix, [Next]_vars,
             TypeInv'
      PROVE  OrderInv' /\ WirePrefix'
  <2>1. CASE Running /\ ~Broken /\ state # "kDisconnected"
    <3>1. Orderly'
      BY <1>2, <2>1, OrderlyStep DEF OrderInv
    <3>2. wire' \in Seq(Byte) /\ outBuf' \in Seq(Byte) /\ InOrder(wire' \o outBuf')
      BY <1>2, <3>1 DEF Orderly, Stream, TypeInv, StreamOK
    <3>3. InOrder(wire')
      BY <3>2, PrefixInOrder
    <3>4. QED
      BY <3>1, <3>3 DEF OrderInv, WirePrefix
  <2>2. CASE Broken
    BY <1>2, <2>2, BrokenStep DEF OrderInv, WirePrefix
  <2>3. CASE state = "kDisconnected"
    BY <1>2, <2>3, DownStep DEF OrderInv, WirePrefix
  <2>4. CASE ~Running
    <3>1. ~Running'
      BY <1>2, <2>4, StillRunning
    <3>2. UNCHANGED vars \/ Next
      BY <1>2
    <3>3. ~Next
      BY <2>4 DEF Next, Running, Poll, HandleEvent, HandleError, HandleInput, HandleReadError,
         HandleEnd, HandleWrite, Calls, RunClosure, LoopCall, LoopSend, LoopShutdown,
         LoopForceClose, LoopReading, Destroy, Peer, PeerSends, PeerReads, PeerCloses,
         PeerResets, Kernel, Begin, BeginSend, BeginForceClose, BeginReading, BeginShutdown,
         Enter, Exchange, Push, Release
    <3>4. QED
      BY <1>2, <3>1, <3>2, <3>3 DEF OrderInv, WirePrefix, vars
  <2>5. QED
    BY <2>1, <2>2, <2>3, <2>4
<1>3. TypeInv /\ NotAsked /\ WritingInv /\ DownInv /\ OrderInv /\ WirePrefix /\ [Next]_vars /\ TypeInv'
        => OrderInv' /\ WirePrefix'
  BY <1>2
<1>4. Safety => []DownInv
  BY DownInvInductive
<1>5. QED
  BY <1>1, <1>3, <1>4, TypeInvInductive, NotAskedInductive, WritingInvInductive, PTL DEF Safety
==============================================================================
