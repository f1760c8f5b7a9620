---------------------------- MODULE BufferProofs ----------------------------
(***************************************************************************)
(* Theorems about Buffer, for any reserved and initial size, any bytes and *)
(* any buffers: the indices stay in order, the readable bytes are a queue, *)
(* the vector stays within its bound, and integers are read back as they   *)
(* were written.  Each operation is dealt with by one lemma on records,    *)
(* which the steps then cite.                                              *)
(***************************************************************************)
EXTENDS Buffer, SetInduction, SequenceTheorems, TLAPS

\* A buffer in order: what every operation may assume and must leave.
InOrder(b) ==
  /\ b \in [cells : Seq(Byte), reader : Nat, writer : Nat]
  /\ CheapPrepend <= b.reader /\ b.reader <= b.writer /\ b.writer <= Len(b.cells)

\* std::copy inside the vector changes the cells it is told to and no other.
LEMMA OverwriteCells ==
  ASSUME NEW cells \in Seq(Byte), NEW data \in Seq(Byte), NEW at \in Nat
  PROVE  /\ Overwrite(cells, at, data) \in Seq(Byte)
         /\ Len(Overwrite(cells, at, data)) = Len(cells)
         /\ \A i \in 1 .. Len(cells) :
              Overwrite(cells, at, data)[i] =
                IF i > at /\ i <= at + Len(data) THEN data[i - at] ELSE cells[i]
<1> DEFINE w(i) == IF i > at /\ i <= at + Len(data) THEN data[i - at] ELSE cells[i]
<1>1. Overwrite(cells, at, data) = [i \in 1 .. Len(cells) |-> w(i)]
  BY DEF Overwrite
<1>2. ASSUME NEW i \in 1 .. Len(cells) PROVE w(i) \in Byte
  <2>1. CASE i > at /\ i <= at + Len(data)
    <3>1. i - at \in 1 .. Len(data)
      BY <2>1
    <3>2. data[i - at] \in Byte
      BY <3>1, ElementOfSeq
    <3>3. QED
      BY <2>1, <3>2
  <2>2. CASE ~(i > at /\ i <= at + Len(data))
    BY <2>2, ElementOfSeq
  <2>3. QED
    BY <2>1, <2>2
<1> HIDE DEF w
<1>3. [i \in 1 .. Len(cells) |-> w(i)] \in Seq(Byte)
  BY <1>2
<1>4. Len([i \in 1 .. Len(cells) |-> w(i)]) = Len(cells)
  OBVIOUS
<1>5. QED
  BY <1>1, <1>3, <1>4 DEF w

\* Bytes put behind bytes.
LEMMA BytesBehindBytes ==
  ASSUME NEW s \in Seq(Byte), NEW t \in Seq(Byte)
  PROVE  /\ s \o t \in Seq(Byte)
         /\ Len(s \o t) = Len(s) + Len(t)
         /\ \A i \in 1 .. Len(s) : (s \o t)[i] = s[i]
         /\ \A i \in 1 .. Len(t) : (s \o t)[Len(s) + i] = t[i]
<1>1. /\ s \o t \in Seq(Byte)
      /\ Len(s \o t) = Len(s) + Len(t)
      /\ \A i \in 1 .. Len(s) + Len(t) :
           (s \o t)[i] = IF i <= Len(s) THEN s[i] ELSE t[i - Len(s)]
  BY ConcatProperties, Zenon
<1> DEFINE u == s \o t
<1>2. Len(s) \in Nat /\ Len(t) \in Nat
  OBVIOUS
<1> HIDE DEF u
<1>3. ASSUME NEW i \in 1 .. Len(t) PROVE u[Len(s) + i] = t[i]
  <2>1. Len(s) + i \in 1 .. Len(s) + Len(t) /\ ~(Len(s) + i <= Len(s)) /\ (Len(s) + i) - Len(s) = i
    BY <1>2
  <2>2. QED
    BY <1>1, <2>1 DEF u
<1>4. \A i \in 1 .. Len(s) : i \in 1 .. Len(s) + Len(t) /\ i <= Len(s)
  BY <1>2
<1>5. QED
  BY <1>1, <1>3, <1>4, Zenon DEF u

\* The readable bytes of a buffer in order are a sequence.
LEMMA ContentsType ==
  ASSUME NEW b, InOrder(b)
  PROVE  /\ Contents(b) \in Seq(Byte)
         /\ Len(Contents(b)) = ReadableBytes(b)
         /\ ReadableBytes(b) \in Nat
         /\ \A i \in 1 .. ReadableBytes(b) : Contents(b)[i] = b.cells[b.reader + i]
<1>1. ReadableBytes(b) \in Nat
  BY DEF InOrder, ReadableBytes
<1>2. ASSUME NEW i \in 1 .. ReadableBytes(b) PROVE b.cells[b.reader + i] \in Byte
  BY ElementOfSeq DEF InOrder, ReadableBytes
<1>3. QED
  BY <1>1, <1>2 DEF Contents

\* A new buffer is in order and holds nothing.
LEMMA NewInOrder ==
  /\ InOrder(NewBuffer)
  /\ Contents(NewBuffer) = <<>>
  /\ Len(NewBuffer.cells) = CheapPrepend + InitialSize
<1>1. CheapPrepend + InitialSize \in Nat /\ 0 \in Byte
  BY BufferAssumption DEF Byte
<1>2. Zeros(CheapPrepend + InitialSize) \in Seq(Byte)
  BY <1>1 DEF Zeros
<1>3. Len(Zeros(CheapPrepend + InitialSize)) = CheapPrepend + InitialSize
  BY <1>1 DEF Zeros
<1>4. InOrder(NewBuffer)
  BY <1>2, <1>3, BufferAssumption DEF InOrder, NewBuffer, BufferOf
<1>5. ReadableBytes(NewBuffer) = 0
  BY BufferAssumption DEF ReadableBytes, NewBuffer, BufferOf
<1>6. Contents(NewBuffer) = <<>>
  BY <1>4, <1>5, ContentsType, EmptySeq
<1>7. QED
  BY <1>3, <1>4, <1>6 DEF NewBuffer, BufferOf

\* retrieve() takes bytes from the front.
LEMMA RetrieveTakesFront ==
  ASSUME NEW b, InOrder(b), NEW len \in 0 .. ReadableBytes(b)
  PROVE  /\ InOrder(Retrieve(b, len))
         /\ Contents(Retrieve(b, len)) = SubSeq(Contents(b), len + 1, Len(Contents(b)))
         /\ Retrieve(b, len).cells = b.cells
<1> DEFINE r == Retrieve(b, len)
           c == SubSeq(Contents(b), len + 1, Len(Contents(b)))
<1>1. InOrder(r) /\ r.cells = b.cells
  BY BufferAssumption DEF InOrder, Retrieve, RetrieveAll, BufferOf, ReadableBytes
<1>2. /\ c \in Seq(Byte) /\ Len(c) = ReadableBytes(b) - len
      /\ \A i \in 1 .. Len(c) : c[i] = b.cells[b.reader + len + i]
  <2> DEFINE s == Contents(b)
             k == ReadableBytes(b)
  <2>1. /\ s \in Seq(Byte) /\ Len(s) = k /\ k \in Nat
        /\ \A i \in 1 .. k : s[i] = b.cells[b.reader + i]
    BY ContentsType
  <2>2. len \in 0 .. k /\ c = SubSeq(s, len + 1, Len(s)) /\ b.reader \in Nat
    BY DEF InOrder
  <2> HIDE DEF s, k, c
  <2>3. /\ c \in Seq(Byte) /\ Len(c) = k - len
        /\ \A i \in 1 .. Len(c) : c[i] = s[len + i] /\ len + i \in 1 .. k
    BY <2>1, <2>2
  <2>4. \A i \in 1 .. Len(c) : b.reader + (len + i) = b.reader + len + i
    BY <2>2, <2>3
  <2>5. QED
    BY <2>1, <2>2, <2>3, <2>4 DEF k
<1>3. ReadableBytes(r) = ReadableBytes(b) - len
  BY BufferAssumption DEF InOrder, Retrieve, RetrieveAll, BufferOf, ReadableBytes
<1>4. ReadableBytes(r) > 0 => r.reader = b.reader + len
  BY BufferAssumption DEF InOrder, Retrieve, RetrieveAll, BufferOf, ReadableBytes
<1> HIDE DEF r, c
<1>5. /\ Contents(r) \in Seq(Byte) /\ Len(Contents(r)) = ReadableBytes(r)
      /\ \A i \in 1 .. ReadableBytes(r) : Contents(r)[i] = r.cells[r.reader + i]
  BY <1>1, ContentsType
<1>6. \A i \in 1 .. Len(c) : Contents(r)[i] = c[i]
  BY <1>1, <1>2, <1>3, <1>4, <1>5, ContentsType DEF InOrder
<1>7. Contents(r) = c
  BY <1>2, <1>3, <1>5, <1>6, SeqEqual
<1>8. QED
  BY <1>1, <1>7 DEF r, c

\* makeSpace() leaves the readable bytes, and room for what is to come; the
\* vector grows only if moving them would not do.
LEMMA EnsureMakesRoom ==
  ASSUME NEW b, InOrder(b), NEW len \in Nat
  PROVE  LET e == EnsureWriteableBytes(b, len) IN
         /\ InOrder(e)
         /\ Contents(e) = Contents(b)
         /\ WriteableBytes(e) >= len
         /\ CanAppend(b, len)
         /\ \/ Len(e.cells) = Len(b.cells)
            \/ MustGrow(b, len) /\ Len(e.cells) = b.writer + len
<1> DEFINE e == EnsureWriteableBytes(b, len)
<1>1. CASE WriteableBytes(b) >= len
  <2>1. e = b
    BY <1>1 DEF EnsureWriteableBytes, WriteableBytes, InOrder
  <2>2. QED
    BY <1>1, <2>1 DEF CanAppend, WriteableBytes, InOrder
<1>2. CASE WriteableBytes(b) < len /\ MustGrow(b, len)
  <2> DEFINE z == Zeros(b.writer + len - Len(b.cells))
  <2>1. b.writer + len - Len(b.cells) \in Nat /\ 0 \in Byte
    BY <1>2, BufferAssumption DEF InOrder, WriteableBytes, Byte
  <2>2. z \in Seq(Byte) /\ Len(z) = b.writer + len - Len(b.cells)
    BY <2>1 DEF Zeros
  <2>3. e = [cells |-> b.cells \o z, reader |-> b.reader, writer |-> b.writer]
    BY <1>2 DEF EnsureWriteableBytes, MakeSpace, Grow, BufferOf
  <2> HIDE DEF e, z
  <2>4. /\ b.cells \o z \in Seq(Byte) /\ Len(b.cells \o z) = b.writer + len
        /\ \A i \in 1 .. Len(b.cells) : (b.cells \o z)[i] = b.cells[i]
    <3>1. b.cells \in Seq(Byte) /\ b.writer \in Nat /\ Len(b.cells) \in Nat
      BY DEF InOrder
    <3>2. /\ b.cells \o z \in Seq(Byte) /\ Len(b.cells \o z) = Len(b.cells) + Len(z)
          /\ \A i \in 1 .. Len(b.cells) : (b.cells \o z)[i] = b.cells[i]
      BY <2>2, <3>1, BytesBehindBytes, Zenon
    <3>3. Len(b.cells) + Len(z) = b.writer + len
      BY <2>1, <2>2, <3>1
    <3>4. QED
      BY <3>2, <3>3, Zenon
  <2>5. e.cells = b.cells \o z /\ e.reader = b.reader /\ e.writer = b.writer
    BY <2>3
  <2>6. InOrder(e)
    BY <1>2, <2>3, <2>4, <2>5 DEF InOrder, WriteableBytes
  <2>7. /\ ReadableBytes(e) = ReadableBytes(b)
        /\ \A i \in 1 .. ReadableBytes(b) : Contents(e)[i] = Contents(b)[i]
    <3>1. ReadableBytes(e) = ReadableBytes(b)
      BY <2>5 DEF ReadableBytes
    <3>2. ASSUME NEW i \in 1 .. ReadableBytes(b) PROVE Contents(e)[i] = Contents(b)[i]
      <4>1. b.reader + i \in 1 .. Len(b.cells)
        BY DEF InOrder, ReadableBytes
      <4>2. e.cells[e.reader + i] = b.cells[b.reader + i]
        BY <2>4, <2>5, <4>1
      <4>3. QED
        BY <2>6, <3>1, <4>2, ContentsType
    <3>3. QED
      BY <3>1, <3>2
  <2>8. Contents(e) = Contents(b)
    BY <2>6, <2>7, ContentsType, SeqEqual
  <2>9. WriteableBytes(e) >= len
    BY <2>4, <2>5 DEF WriteableBytes, InOrder
  <2>10. QED
    BY <1>2, <2>4, <2>5, <2>6, <2>8, <2>9 DEF CanAppend, e
<1>3. CASE WriteableBytes(b) < len /\ ~MustGrow(b, len)
  <2> DEFINE c == Overwrite(b.cells, CheapPrepend, Contents(b))
  <2>1. e = [cells |-> c, reader |-> CheapPrepend, writer |-> CheapPrepend + ReadableBytes(b)]
    BY <1>3 DEF EnsureWriteableBytes, MakeSpace, Move, BufferOf
  <2>2. /\ CheapPrepend \in Nat
        /\ c \in Seq(Byte) /\ Len(c) = Len(b.cells)
        /\ \A i \in 1 .. ReadableBytes(b) : c[CheapPrepend + i] = Contents(b)[i]
    <3>1. /\ Contents(b) \in Seq(Byte) /\ Len(Contents(b)) = ReadableBytes(b)
          /\ ReadableBytes(b) \in Nat /\ CheapPrepend \in Nat
      BY ContentsType, BufferAssumption
    <3>2. CheapPrepend + ReadableBytes(b) <= Len(b.cells)
      BY <3>1 DEF InOrder, ReadableBytes
    <3>3. /\ c \in Seq(Byte) /\ Len(c) = Len(b.cells)
          /\ \A i \in 1 .. Len(b.cells) :
               c[i] = IF i > CheapPrepend /\ i <= CheapPrepend + Len(Contents(b))
                      THEN Contents(b)[i - CheapPrepend] ELSE b.cells[i]
      BY <3>1, OverwriteCells DEF InOrder
    <3> HIDE DEF c
    <3>4. ASSUME NEW i \in 1 .. ReadableBytes(b) PROVE c[CheapPrepend + i] = Contents(b)[i]
      <4>1. CheapPrepend + i \in 1 .. Len(b.cells) /\ (CheapPrepend + i) - CheapPrepend = i
        BY <3>1, <3>2 DEF InOrder
      <4>2. QED
        BY <3>1, <3>3, <4>1
    <3>5. QED
      BY <3>1, <3>3, <3>4
  <2> HIDE DEF e, c
  <2>3. e.cells = c /\ e.reader = CheapPrepend /\ e.writer = CheapPrepend + ReadableBytes(b)
    BY <2>1
  <2>4. InOrder(e)
    BY <2>1, <2>2 DEF InOrder, ReadableBytes
  <2>5. /\ ReadableBytes(e) = ReadableBytes(b)
        /\ \A i \in 1 .. ReadableBytes(b) : Contents(e)[i] = Contents(b)[i]
    <3>1. ReadableBytes(b) \in Nat
      BY ContentsType
    <3>2. ReadableBytes(e) = ReadableBytes(b)
      BY <2>2, <2>3, <3>1 DEF ReadableBytes
    <3>3. \A i \in 1 .. ReadableBytes(e) : Contents(e)[i] = e.cells[e.reader + i]
      BY <2>4, ContentsType, Zenon
    <3>4. QED
      BY <2>2, <2>3, <3>2, <3>3, Zenon
  <2>6. Contents(e) = Contents(b)
    BY <2>4, <2>5, ContentsType, SeqEqual
  <2>7. WriteableBytes(e) >= len /\ CheapPrepend < b.reader
    BY <1>3, <2>2, <2>3 DEF WriteableBytes, ReadableBytes, PrependableBytes, MustGrow, InOrder
  <2>8. QED
    BY <1>3, <2>2, <2>3, <2>4, <2>6, <2>7 DEF CanAppend, e
<1>4. WriteableBytes(b) \in Int
  BY DEF WriteableBytes, InOrder
<1>5. QED
  BY <1>1, <1>2, <1>3, <1>4

\* The index of byte j of the l bytes put behind w cells of n.
LEMMA IndexInside ==
  ASSUME NEW w \in Nat, NEW l \in Nat, NEW n \in Nat, w + l <= n, NEW j \in 1 .. l
  PROVE  w + j \in 1 .. n /\ w + j > w /\ w + j <= w + l /\ (w + j) - w = j
OBVIOUS

\* Bytes put into the room behind the writer follow those that are readable.
LEMMA PutBehindAdds ==
  ASSUME NEW b, InOrder(b), NEW data \in Seq(Byte), Len(data) <= WriteableBytes(b)
  PROVE  /\ InOrder(PutBehind(b, data))
         /\ Contents(PutBehind(b, data)) = Contents(b) \o data
         /\ Len(PutBehind(b, data).cells) = Len(b.cells)
<1> DEFINE r == PutBehind(b, data)
           c == Overwrite(b.cells, b.writer, data)
           s == Contents(b)
           k == ReadableBytes(b)
<1>1. /\ r = [cells |-> c, reader |-> b.reader, writer |-> b.writer + Len(data)]
      /\ r.cells = c /\ r.reader = b.reader /\ r.writer = b.writer + Len(data)
  BY DEF PutBehind, BufferOf
<1>2. /\ b.cells \in Seq(Byte) /\ b.writer \in Nat /\ b.reader \in Nat /\ Len(data) \in Nat
      /\ CheapPrepend <= b.reader /\ b.reader <= b.writer
      /\ b.writer + Len(data) <= Len(b.cells) /\ k = b.writer - b.reader
  BY DEF InOrder, WriteableBytes, ReadableBytes
<1>3. /\ c \in Seq(Byte) /\ Len(c) = Len(b.cells)
      /\ \A i \in 1 .. Len(b.cells) :
           c[i] = IF i > b.writer /\ i <= b.writer + Len(data)
                  THEN data[i - b.writer] ELSE b.cells[i]
  BY <1>2, OverwriteCells, Zenon
<1>4. /\ s \in Seq(Byte) /\ Len(s) = k /\ k \in Nat
      /\ \A i \in 1 .. k : s[i] = b.cells[b.reader + i]
  BY ContentsType
<1> HIDE DEF r, c, s, k
<1>nat. /\ k \in Nat /\ Len(data) \in Nat /\ b.reader \in Nat /\ b.writer = b.reader + k
        /\ b.writer + Len(data) <= Len(b.cells) /\ Len(b.cells) \in Nat
  BY <1>2, <1>4
<1>5. InOrder(r)
  BY <1>1, <1>2, <1>3 DEF InOrder
<1>6. ReadableBytes(r) = k + Len(data)
  BY <1>1, <1>2 DEF ReadableBytes
<1>7. /\ Contents(r) \in Seq(Byte) /\ Len(Contents(r)) = k + Len(data)
      /\ \A i \in 1 .. k + Len(data) : Contents(r)[i] = c[b.reader + i]
  BY <1>1, <1>5, <1>6, ContentsType
<1>8. /\ s \o data \in Seq(Byte) /\ Len(s \o data) = k + Len(data)
      /\ \A i \in 1 .. k : (s \o data)[i] = s[i]
      /\ \A i \in 1 .. Len(data) : (s \o data)[k + i] = data[i]
  BY <1>4, BytesBehindBytes
<1>9. ASSUME NEW i \in 1 .. k + Len(data) PROVE Contents(r)[i] = (s \o data)[i]
  <2>1. CASE i <= k
    <3>1. i \in 1 .. k /\ b.reader + i \in 1 .. Len(b.cells) /\ ~(b.reader + i > b.writer)
      BY <1>nat, <2>1
    <3>2. c[b.reader + i] = b.cells[b.reader + i]
      BY <1>3, <3>1
    <3>3. QED
      BY <1>4, <1>7, <1>8, <3>1, <3>2
  <2>2. CASE i > k
    <3>1. PICK j \in 1 .. Len(data) : i = k + j
      <4>1. i - k \in 1 .. Len(data) /\ i = k + (i - k)
        BY <1>nat, <2>2
      <4>2. QED
        BY <4>1
    <3>2. b.reader + i = b.writer + j
      BY <1>nat, <3>1
    <3>3. c[b.writer + j] = data[j]
      <4>1. b.writer \in Nat
        BY <1>nat
      <4>2. /\ b.writer + j \in 1 .. Len(b.cells) /\ b.writer + j > b.writer
            /\ b.writer + j <= b.writer + Len(data) /\ (b.writer + j) - b.writer = j
        BY <1>nat, <4>1, IndexInside, Zenon
      <4>3. QED
        BY <1>3, <4>2
    <3>4. QED
      BY <1>7, <1>8, <3>1, <3>2, <3>3
  <2>3. QED
    BY <1>4, <2>1, <2>2
<1>10. Contents(r) = s \o data
  BY <1>7, <1>8, <1>9, SeqEqual
<1>11. QED
  BY <1>1, <1>3, <1>5, <1>10 DEF r, s

\* The vector grows only for bytes that take half of it, or nearly.
SmallGrowth(b, r) ==
  \/ Len(r.cells) = Len(b.cells)
  \/ Len(r.cells) < CheapPrepend + 2 * ReadableBytes(r)

\* append() adds behind the readable bytes, whatever room there is.
LEMMA AppendAddsBehind ==
  ASSUME NEW b, InOrder(b), NEW data \in Seq(Byte)
  PROVE  /\ InOrder(AppendTo(b, data))
         /\ Contents(AppendTo(b, data)) = Contents(b) \o data
         /\ CanAppend(b, Len(data))
         /\ SmallGrowth(b, AppendTo(b, data))
<1> DEFINE e == EnsureWriteableBytes(b, Len(data))
<1>1. Len(data) \in Nat
  OBVIOUS
<1>2. /\ InOrder(e) /\ Contents(e) = Contents(b) /\ CanAppend(b, Len(data))
      /\ WriteableBytes(e) >= Len(data)
      /\ \/ Len(e.cells) = Len(b.cells)
         \/ MustGrow(b, Len(data)) /\ Len(e.cells) = b.writer + Len(data)
  BY <1>1, EnsureMakesRoom, Zenon
<1> HIDE DEF e
<1>3. Len(data) <= WriteableBytes(e)
  BY <1>1, <1>2 DEF InOrder, WriteableBytes
<1>4. /\ InOrder(PutBehind(e, data))
      /\ Contents(PutBehind(e, data)) = Contents(e) \o data
      /\ Len(PutBehind(e, data).cells) = Len(e.cells)
  BY <1>2, <1>3, PutBehindAdds, Zenon
<1>5. AppendTo(b, data) = PutBehind(e, data)
  BY DEF AppendTo, e
<1> DEFINE r == AppendTo(b, data)
<1> HIDE DEF r
<1>6. InOrder(r) /\ Contents(r) = Contents(b) \o data /\ Len(r.cells) = Len(e.cells)
  BY <1>2, <1>4, <1>5, Zenon DEF r
<1>7. /\ ReadableBytes(b) \in Nat
      /\ ReadableBytes(r) = ReadableBytes(b) + Len(data)
  <2>1. /\ Contents(b) \in Seq(Byte) /\ Len(Contents(b)) = ReadableBytes(b)
        /\ Len(Contents(r)) = ReadableBytes(r) /\ ReadableBytes(b) \in Nat
    BY <1>6, ContentsType
  <2>2. Len(Contents(b) \o data) = Len(Contents(b)) + Len(data)
    BY <2>1, BytesBehindBytes, Zenon
  <2>3. QED
    BY <1>6, <2>1, <2>2, Zenon
<1>8. SmallGrowth(b, r)
  <2>1. CASE Len(e.cells) = Len(b.cells)
    BY <1>6, <2>1 DEF SmallGrowth
  <2>2. CASE MustGrow(b, Len(data)) /\ Len(e.cells) = b.writer + Len(data)
    <3>1. b.reader < CheapPrepend + Len(data) /\ b.writer = b.reader + ReadableBytes(b)
      BY <1>1, <2>2, BufferAssumption
         DEF InOrder, MustGrow, WriteableBytes, PrependableBytes, ReadableBytes
    <3>2. b.reader \in Nat /\ CheapPrepend \in Nat
      BY BufferAssumption DEF InOrder
    <3>3. b.writer + Len(data) < CheapPrepend + 2 * ReadableBytes(r)
      BY <1>1, <1>7, <3>1, <3>2
    <3>4. QED
      BY <1>6, <2>2, <3>3 DEF SmallGrowth
  <2>3. QED
    BY <1>2, <2>1, <2>2
<1>9. QED
  BY <1>2, <1>6, <1>8 DEF r

\* prepend(), where its assertion holds, adds in front of the readable bytes.
LEMMA PrependAddsInFront ==
  ASSUME NEW b, InOrder(b), NEW data \in Seq(Byte), CanPrepend(b, Len(data))
  PROVE  /\ InOrder(PrependTo(b, data))
         /\ Contents(PrependTo(b, data)) = data \o Contents(b)
         /\ Len(PrependTo(b, data).cells) = Len(b.cells)
<1> DEFINE at == b.reader - Len(data)
           r == PrependTo(b, data)
           c == Overwrite(b.cells, at, data)
           s == Contents(b)
           k == ReadableBytes(b)
           l == Len(data)
<1>1. r.cells = c /\ r.reader = at /\ r.writer = b.writer
      /\ r = [cells |-> c, reader |-> at, writer |-> b.writer]
  BY DEF PrependTo, BufferOf
<1>2. /\ b.cells \in Seq(Byte) /\ b.writer \in Nat /\ b.reader \in Nat /\ Len(b.cells) \in Nat
      /\ l \in Nat /\ k \in Nat /\ at \in Nat /\ CheapPrepend <= at
      /\ b.reader = at + l /\ b.writer = at + l + k /\ b.writer <= Len(b.cells)
  <2>1. /\ b.cells \in Seq(Byte) /\ b.writer \in Nat /\ b.reader \in Nat
        /\ CheapPrepend \in Nat /\ b.reader <= b.writer /\ b.writer <= Len(b.cells)
    BY BufferAssumption DEF InOrder
  <2>2. Len(b.cells) \in Nat /\ l \in Nat
    BY <2>1
  <2>3. l <= b.reader - CheapPrepend /\ k = b.writer - b.reader /\ at = b.reader - l
    BY DEF CanPrepend, PrependableBytes, ReadableBytes
  <2> HIDE DEF l, k, at, r, c, s
  <2>nat. /\ b.writer \in Nat /\ b.reader \in Nat /\ CheapPrepend \in Nat
          /\ l \in Nat /\ b.reader <= b.writer
    BY <2>1, <2>2, Zenon
  <2>4. at \in Nat /\ CheapPrepend <= at /\ b.reader = at + l
    <3>1. b.reader - l \in Nat /\ CheapPrepend <= b.reader - l /\ b.reader = (b.reader - l) + l
      BY <2>nat, <2>3
    <3>2. QED
      BY <2>3, <3>1, Zenon
  <2>5. k \in Nat /\ b.writer = at + l + k
    <3>1. k \in Nat /\ b.writer = b.reader + k
      BY <2>nat, <2>3
    <3>2. QED
      BY <2>4, <3>1
  <2>6. QED
    BY <2>1, <2>2, <2>4, <2>5, Zenon
<1>3. /\ c \in Seq(Byte) /\ Len(c) = Len(b.cells)
      /\ \A i \in 1 .. Len(b.cells) :
           c[i] = IF i > at /\ i <= at + l THEN data[i - at] ELSE b.cells[i]
  <2>1. b.cells \in Seq(Byte) /\ at \in Nat
    BY <1>2
  <2>2. QED
    BY <2>1, OverwriteCells, Zenon
<1>4. /\ s \in Seq(Byte) /\ Len(s) = k
      /\ \A i \in 1 .. k : s[i] = b.cells[b.reader + i]
  BY ContentsType
<1>5. /\ data \o s \in Seq(Byte) /\ Len(data \o s) = l + Len(s)
      /\ \A i \in 1 .. l : (data \o s)[i] = data[i]
      /\ \A i \in 1 .. Len(s) : (data \o s)[l + i] = s[i]
  BY <1>4, BytesBehindBytes, Zenon
<1> HIDE DEF at, r, c, s, k, l
<1>nat. /\ l \in Nat /\ k \in Nat /\ at \in Nat /\ b.reader = at + l
        /\ b.writer = at + l + k /\ b.writer <= Len(b.cells) /\ Len(b.cells) \in Nat
  BY <1>2
<1>6. InOrder(r)
  BY <1>1, <1>2, <1>3 DEF InOrder
<1>7. ReadableBytes(r) = l + k
  BY <1>1, <1>nat DEF ReadableBytes
<1>8. /\ Contents(r) \in Seq(Byte) /\ Len(Contents(r)) = l + k
      /\ \A i \in 1 .. l + k : Contents(r)[i] = c[at + i]
  BY <1>1, <1>6, <1>7, ContentsType
<1>9. ASSUME NEW i \in 1 .. l + k PROVE Contents(r)[i] = (data \o s)[i]
  <2>1. CASE i <= l
    <3>1. /\ i \in 1 .. l /\ at + i \in 1 .. Len(b.cells) /\ at + i > at
          /\ at + i <= at + l /\ (at + i) - at = i
      BY <1>nat, <2>1
    <3>2. c[at + i] = data[i]
      BY <1>3, <3>1
    <3>3. QED
      BY <1>5, <1>8, <3>1, <3>2
  <2>2. CASE ~(i <= l)
    <3>1. PICK j \in 1 .. k : i = l + j
      <4>1. i - l \in 1 .. k /\ i = l + (i - l)
        BY <1>nat, <2>2
      <4>2. QED
        BY <4>1
    <3>2. /\ at + i = b.reader + j /\ b.reader + j \in 1 .. Len(b.cells)
          /\ ~(b.reader + j <= at + l)
      BY <1>nat, <3>1
    <3>3. c[b.reader + j] = b.cells[b.reader + j]
      BY <1>3, <3>2
    <3>4. QED
      BY <1>4, <1>5, <1>8, <3>1, <3>2, <3>3
  <2>3. QED
    BY <2>1, <2>2
<1>10. Contents(r) = data \o s
  BY <1>4, <1>5, <1>8, <1>9, <1>nat, SeqEqual
<1>11. QED
  BY <1>1, <1>3, <1>6, <1>10 DEF r, s

\* readFd() adds behind the readable bytes what readv() read, whether it
\* fitted into the vector or went through extrabuf.
LEMMA ReadAddsBehind ==
  ASSUME NEW b, InOrder(b), NEW data \in Seq(Byte)
  PROVE  /\ InOrder(ReadInto(b, data))
         /\ Contents(ReadInto(b, data)) = Contents(b) \o data
         /\ Len(data) > WriteableBytes(b) => CanAppend(Filled(b, data), Len(Extra(b, data)))
         /\ SmallGrowth(b, ReadInto(b, data))
<1> DEFINE w == WriteableBytes(b)
           f == Filled(b, data)
           x == Extra(b, data)
<1>1. w \in Nat /\ Len(data) \in Nat
  BY DEF InOrder, WriteableBytes
<1>2. CASE Len(data) <= w
  <2>1. ReadInto(b, data) = PutBehind(b, data)
    BY <1>2 DEF ReadInto, Filled
  <2>2. QED
    BY <1>1, <1>2, <2>1, PutBehindAdds DEF SmallGrowth
<1>3. CASE ~(Len(data) <= w)
  <2> DEFINE d == SubSeq(data, 1, w)
  <2>1. f = PutBehind(b, d) /\ ReadInto(b, data) = AppendTo(f, x)
    BY <1>3 DEF ReadInto, Filled
  <2>2. x = SubSeq(data, w + 1, Len(data))
    BY DEF Extra
  <2> HIDE DEF w, f, x, d
  <2>3. /\ d \in Seq(Byte) /\ Len(d) = w
        /\ \A i \in 1 .. w : d[i] = data[i]
    BY <1>1, <1>3 DEF d
  <2>4. /\ x \in Seq(Byte) /\ Len(x) = Len(data) - w
        /\ \A i \in 1 .. Len(data) - w : x[i] = data[w + i]
    BY <1>1, <1>3, <2>2
  <2>5. d \o x = data
    <3>1. /\ 1 \in 1 .. Len(data) + 1 /\ w \in 1 - 1 .. Len(data)
          /\ Len(data) \in w .. Len(data)
      BY <1>1, <1>3
    <3>2. d \o x = SubSeq(data, 1, Len(data))
      BY <3>1, <2>2, ConcatAdjacentSubSeq, Zenon DEF d
    <3>3. QED
      BY <3>2, SubSeqFull
  <2>6. InOrder(f) /\ Contents(f) = Contents(b) \o d /\ Len(f.cells) = Len(b.cells)
    BY <2>1, <2>3, <1>1, PutBehindAdds DEF w
  <2>7. /\ InOrder(AppendTo(f, x)) /\ Contents(AppendTo(f, x)) = Contents(f) \o x
        /\ CanAppend(f, Len(x)) /\ SmallGrowth(f, AppendTo(f, x))
    BY <2>4, <2>6, AppendAddsBehind, Zenon
  <2>8. (Contents(b) \o d) \o x = Contents(b) \o data
    <3>1. Contents(b) \in Seq(Byte) /\ d \in Seq(Byte) /\ x \in Seq(Byte)
      BY <2>3, <2>4, ContentsType
    <3>2. (Contents(b) \o d) \o x = Contents(b) \o (d \o x)
      BY <3>1, ConcatAssociative
    <3>3. QED
      BY <2>5, <3>2
  <2>9. SmallGrowth(b, AppendTo(f, x))
    BY <2>6, <2>7 DEF SmallGrowth
  <2>10. QED
    BY <2>1, <2>6, <2>7, <2>8, <2>9 DEF f, x
<1>4. QED
  BY <1>2, <1>3

------------------------------------------------------------------------------
(* Integers: htobe and betoh for any number of values of a byte and any size *)

\* Base to the power of n, by its equations.
LEMMA PowerEquations ==
  /\ \A n \in Nat : Power[n] \in Nat \ {0}
  /\ Power[0] = 1
  /\ \A n \in Nat : Power[n + 1] = Base * Power[n]
<1> DEFINE step == [p \in Nat \X (Nat \ {0}) |-> Base * p[2]]
           F(g) == [n \in Nat |-> IF n = 0 THEN 1 ELSE Base * g[n - 1]]
<1>1. \A b, p \in Nat \ {0} : b * p \in Nat \ {0}
  OBVIOUS
<1>2. step \in [Nat \X (Nat \ {0}) -> Nat \ {0}]
  BY <1>1, BufferAssumption
<1>3. \A n \in Nat, q \in Nat \ {0} : step[<<n, q>>] = Base * q
  OBVIOUS
<1> HIDE DEF step
<1>4. PICK f \in [Nat -> Nat \ {0}] : f[0] = 1 /\ \A n \in Nat : f[n + 1] = step[<<n, f[n]>>]
  <2> DEFINE T == Nat \ {0}
  <2>1. 1 \in T /\ step \in [Nat \X T -> T]
    BY <1>2
  <2> HIDE DEF T
  <2>2. \E f \in [Nat -> T] : Recurs(f, 1, step)
    BY <2>1, RecursiveFunction
  <2>3. QED
    BY <2>2 DEF T, Recurs
<1>5. f = F(f)
  <2>1. ASSUME NEW n \in Nat \ {0} PROVE f[n] = Base * f[n - 1]
    <3>1. n - 1 \in Nat /\ (n - 1) + 1 = n
      OBVIOUS
    <3>2. f[(n - 1) + 1] = step[<<n - 1, f[n - 1]>>]
      BY <1>4, <3>1
    <3>3. QED
      BY <1>3, <3>1, <3>2
  <2>2. \A n \in Nat : f[n] = IF n = 0 THEN 1 ELSE Base * f[n - 1]
    BY <1>4, <2>1
  <2>3. QED
    BY <2>2
<1>6. Power = F(Power)
  <2>1. Power = CHOOSE g : g = F(g)
    BY DEF Power
  <2> HIDE DEF F
  <2>2. QED
    BY <1>5, <2>1
<1>7. \A n \in Nat : Power[n] = IF n = 0 THEN 1 ELSE Base * Power[n - 1]
  BY <1>6
<1>8. Power[0] = 1
  BY <1>7
<1>9. ASSUME NEW n \in Nat PROVE Power[n + 1] = Base * Power[n]
  <2>1. n + 1 \in Nat /\ n + 1 # 0 /\ (n + 1) - 1 = n
    OBVIOUS
  <2>2. QED
    BY <1>7, <2>1
<1>10. \A n \in Nat : Power[n] \in Nat \ {0}
  <2> DEFINE S == {n \in Nat : Power[n] \in Nat \ {0}}
  <2>1. 0 \in S
    BY <1>8
  <2>2. ASSUME NEW n \in Nat, n \in S PROVE n + 1 \in S
    <3>1. Base \in Nat \ {0} /\ Power[n] \in Nat \ {0} /\ Power[n + 1] = Base * Power[n]
      BY <1>9, <2>2, BufferAssumption
    <3>2. Power[n + 1] \in Nat \ {0}
      BY <1>1, <3>1
    <3>3. QED
      BY <3>2
  <2> HIDE DEF S
  <2>3. \A n \in Nat : n \in S
    BY <2>1, <2>2, NatInSet
  <2>4. QED
    BY <2>3 DEF S
<1>11. QED
  BY <1>8, <1>9, <1>10

\* Quotient and remainder, and that nothing else is.
LEMMA Division ==
  ASSUME NEW a \in Int, NEW b \in Nat \ {0}
  PROVE  /\ a \div b \in Int /\ a % b \in 0 .. b - 1
         /\ a = (b * (a \div b)) + (a % b)
         /\ a \in Nat => a \div b \in Nat
OBVIOUS

LEMMA DivisionUnique ==
  ASSUME NEW b \in Nat \ {0}, NEW q \in Int, NEW r \in 0 .. b - 1
  PROVE  /\ ((b * q) + r) \div b = q
         /\ ((b * q) + r) % b = r
<1> DEFINE a == (b * q) + r
           p == a \div b
           s == a % b
<1>0. a \in Int
  OBVIOUS
<1>1. p \in Int /\ s \in 0 .. b - 1 /\ a = (b * p) + s
  <2> HIDE DEF a
  <2>1. QED
    BY <1>0, Division
<1>2. (b * p) + s = (b * q) + r
  BY <1>1
<1> HIDE DEF a, p, s
<1>3. p = q
  <2>1. CASE p > q
    <3>1. b * p >= (b * q) + b
      <4>1. p >= q + 1
        BY <1>1, <2>1
      <4>2. PICK d \in Nat : p = (q + 1) + d
        <5>1. p - (q + 1) \in Nat /\ p = (q + 1) + (p - (q + 1))
          BY <1>1, <4>1
        <5>2. QED
          BY <5>1
      <4>3. b * p = (b * q) + b + (b * d) /\ b * d >= 0
        BY <4>2
      <4>4. QED
        BY <4>3
    <3>2. QED
      BY <1>1, <1>2, <3>1
  <2>2. CASE p < q
    <3>1. b * q >= (b * p) + b
      <4>2. PICK d \in Nat : q = (p + 1) + d
        <5>1. q - (p + 1) \in Nat /\ q = (p + 1) + (q - (p + 1))
          BY <1>1, <2>2
        <5>2. QED
          BY <5>1
      <4>3. b * q = (b * p) + b + (b * d) /\ b * d >= 0
        BY <4>2, <1>1
      <4>4. QED
        BY <4>3, <1>1
    <3>2. QED
      BY <1>1, <1>2, <3>1
  <2>3. QED
    BY <1>1, <2>1, <2>2
<1>4. s = r
  BY <1>1, <1>2, <1>3
<1>5. QED
  BY <1>3, <1>4 DEF a, p, s

\* A division by a product is two divisions.
LEMMA DivisionTwice ==
  ASSUME NEW y \in Nat, NEW b \in Nat \ {0}, NEW p \in Nat \ {0}
  PROVE  y \div (b * p) = (y \div p) \div b
<1> DEFINE q == y \div p
           r == y % p
           d == q \div b
           s == q % b
<1>1. q \in Nat /\ r \in 0 .. p - 1 /\ y = (p * q) + r
  OBVIOUS
<1> HIDE DEF q, r
<1>2. d \in Nat /\ s \in 0 .. b - 1 /\ q = (b * d) + s
  BY <1>1
<1> HIDE DEF d, s
<1>3. y = ((b * p) * d) + ((p * s) + r)
  <2>1. p * ((b * d) + s) = ((b * p) * d) + (p * s)
    BY <1>2
  <2>2. (p * s) \in Nat /\ (b * p) * d \in Nat
    BY <1>2
  <2>3. QED
    BY <1>1, <1>2, <2>1, <2>2
<1>4. (p * s) + r \in 0 .. (b * p) - 1
  <2>1. PICK e \in Nat : b = (s + 1) + e
    <3>1. b - (s + 1) \in Nat /\ b = (s + 1) + (b - (s + 1))
      BY <1>2
    <3>2. QED
      BY <3>1
  <2>2. b * p = (p * s) + p + (p * e) /\ p * e \in Nat /\ p * s \in Nat
    BY <1>2, <2>1
  <2>3. QED
    BY <1>1, <2>2
<1>5. b * p \in Nat \ {0}
  OBVIOUS
<1> DEFINE m == b * p
           t == (p * s) + r
<1>6. m \in Nat \ {0} /\ t \in 0 .. m - 1 /\ y = (m * d) + t
  BY <1>3, <1>4, <1>5
<1> HIDE DEF m, t
<1>7. y \div m = d
  BY <1>2, <1>6, DivisionUnique
<1>8. QED
  BY <1>7 DEF m, d, q

\* The function that readInt() computes: peekInt() is its last value.
LEMMA PeekedNumber ==
  ASSUME NEW b, NEW n \in Nat, \A i \in 1 .. n : Contents(b)[i] \in Byte
  PROVE  \E v : /\ v[0] = 0
                /\ \A i \in 1 .. n : v[i] = (v[i - 1] * Base) + Contents(b)[i]
                /\ PeekInt(b, n) = IF v[n] \in Ints(n) THEN v[n] ELSE v[n] - Power[n]
<1> DEFINE q == Contents(b)
           F(g) == [i \in 0 .. n |-> IF i = 0 THEN 0 ELSE (g[i - 1] * Base) + q[i]]
           step == [p \in Nat \X Nat |-> IF p[1] < n THEN (p[2] * Base) + q[p[1] + 1] ELSE 0]
<1>1. \A i \in 1 .. n : q[i] \in Nat
  BY BufferAssumption DEF Byte
<1>2. Base \in Nat
  BY BufferAssumption
<1> HIDE DEF q
<1>3. step \in [Nat \X Nat -> Nat]
  <2> SUFFICES ASSUME NEW p \in Nat \X Nat
               PROVE  (IF p[1] < n THEN (p[2] * Base) + q[p[1] + 1] ELSE 0) \in Nat
    OBVIOUS
  <2>1. CASE p[1] < n
    <3>1. p[1] \in Nat /\ p[2] \in Nat /\ p[1] + 1 \in 1 .. n
      BY <2>1
    <3>2. q[p[1] + 1] \in Nat /\ p[2] * Base \in Nat
      BY <1>1, <1>2, <3>1
    <3>3. QED
      BY <2>1, <3>2
  <2>2. QED
    BY <2>1
<1>4. \A i \in Nat, k \in Nat : i < n => step[<<i, k>>] = (k * Base) + q[i + 1]
  OBVIOUS
<1> HIDE DEF step
<1>5. PICK f \in [Nat -> Nat] : Recurs(f, 0, step)
  BY <1>3, RecursiveFunction
<1> DEFINE g == [i \in 0 .. n |-> f[i]]
<1>6. g = F(g)
  <2> SUFFICES ASSUME NEW i \in 0 .. n
               PROVE  f[i] = IF i = 0 THEN 0 ELSE (g[i - 1] * Base) + q[i]
    OBVIOUS
  <2>1. CASE i = 0
    BY <1>5, <2>1 DEF Recurs
  <2>2. CASE i # 0
    <3>1. i - 1 \in Nat /\ i - 1 < n /\ (i - 1) + 1 = i /\ i - 1 \in 0 .. n
      BY <2>2
    <3>2. f[(i - 1) + 1] = step[<<i - 1, f[i - 1]>>]
      BY <1>5, <3>1 DEF Recurs
    <3>3. f[i - 1] \in Nat
      BY <3>1
    <3>4. step[<<i - 1, f[i - 1]>>] = (f[i - 1] * Base) + q[(i - 1) + 1]
      BY <1>4, <3>1, <3>3
    <3>5. QED
      BY <2>2, <3>1, <3>2, <3>4
  <2>3. QED
    BY <2>1, <2>2
<1> HIDE DEF g
<1> DEFINE v == CHOOSE h : h = F(h)
<1>7. v = F(v)
  <2> HIDE DEF F
  <2>1. QED
    BY <1>6
<1>8. PeekInt(b, n) = IF v[n] \in Ints(n) THEN v[n] ELSE v[n] - Power[n]
  BY DEF PeekInt, q
<1> HIDE DEF v
<1>9. \A i \in 0 .. n : v[i] = IF i = 0 THEN 0 ELSE (v[i - 1] * Base) + q[i]
  BY <1>7
<1>10. v[0] = 0 /\ \A i \in 1 .. n : v[i] = (v[i - 1] * Base) + q[i]
  BY <1>9
<1>11. QED
  BY <1>8, <1>10 DEF q

\* The remainder of an integer of n bytes: the integer, or, when it is
\* negative, its two's complement, which is not an integer of n bytes.
LEMMA TwosComplement ==
  ASSUME NEW n \in Nat, NEW x \in Ints(n)
  PROVE  /\ x \in Int /\ x % Power[n] \in 0 .. Power[n] - 1
         /\ x = IF x % Power[n] \in Ints(n) THEN x % Power[n] ELSE (x % Power[n]) - Power[n]
<1> DEFINE m == Power[n]
           h == m \div 2
           k == (m + 1) \div 2
           y == x % m
<1>1. m \in Nat \ {0}
  BY PowerEquations
<1> HIDE DEF m
<1>2. h \in Nat /\ k \in Nat /\ h + k = m
  BY <1>1
<1> HIDE DEF h, k
<1>3. Ints(n) = -h .. k - 1
  BY DEF Ints, m, h, k
<1>4. x \in Int /\ -h <= x /\ x <= k - 1
  BY <1>2, <1>3
<1>5. CASE x >= 0
  <2>1. x \in 0 .. m - 1 /\ x = (m * 0) + x
    BY <1>1, <1>2, <1>4, <1>5
  <2>2. y = x
    BY <1>1, <2>1, DivisionUnique
  <2>3. QED
    BY <1>4, <2>1, <2>2 DEF m
<1>6. CASE x < 0
  <2> DEFINE r == x + m
  <2>1. r \in 0 .. m - 1 /\ x = (m * (-1)) + r /\ r \notin Ints(n) /\ x = r - m
    BY <1>1, <1>2, <1>3, <1>4, <1>6
  <2> HIDE DEF r
  <2>2. y = r
    BY <1>1, <2>1, DivisionUnique
  <2>3. QED
    BY <1>4, <2>1, <2>2 DEF m
<1>7. QED
  BY <1>4, <1>5, <1>6

\* The bytes of an integer are bytes.
LEMMA ToBytesType ==
  ASSUME NEW n \in Nat, NEW x \in Ints(n)
  PROVE  ToBytes(x, n) \in Seq(Byte) /\ Len(ToBytes(x, n)) = n
<1>1. ASSUME NEW i \in 1 .. n
      PROVE  ((x % Power[n]) \div Power[n - i]) % Base \in Byte
  <2>1. x % Power[n] \in Int /\ n - i \in Nat
    BY TwosComplement
  <2>2. Power[n - i] \in Nat \ {0} /\ Base \in Nat \ {0}
    BY <2>1, PowerEquations, BufferAssumption
  <2>3. (x % Power[n]) \div Power[n - i] \in Int
    BY <2>1, <2>2
  <2>4. QED
    BY <2>2, <2>3 DEF Byte
<1>2. QED
  BY <1>1 DEF ToBytes

\* readInt() is the inverse of htobe: after i bytes it has the i first digits.
LEMMA BytesAreNumber ==
  ASSUME NEW b, NEW n \in Nat, NEW x \in Ints(n),
         \A i \in 1 .. n : Contents(b)[i] = ToBytes(x, n)[i]
  PROVE  PeekInt(b, n) = x
<1> DEFINE y == x % Power[n]
<1>1. y \in Nat /\ y < Power[n] /\ x = IF y \in Ints(n) THEN y ELSE y - Power[n]
  BY TwosComplement, PowerEquations
<1>2. \A i \in 1 .. n : /\ ToBytes(x, n)[i] = (y \div Power[n - i]) % Base
                        /\ Contents(b)[i] \in Byte
  <2>1. \A i \in 1 .. n : ToBytes(x, n)[i] = (y \div Power[n - i]) % Base
    BY DEF ToBytes
  <2>2. \A i \in 1 .. n : ToBytes(x, n)[i] \in Byte
    BY ToBytesType, ElementOfSeq
  <2>3. QED
    BY <2>1, <2>2
<1>3. PICK v : /\ v[0] = 0
               /\ \A i \in 1 .. n : v[i] = (v[i - 1] * Base) + Contents(b)[i]
               /\ PeekInt(b, n) = IF v[n] \in Ints(n) THEN v[n] ELSE v[n] - Power[n]
  BY <1>2, PeekedNumber
<1> HIDE DEF y
<1> DEFINE S == {i \in Nat : i <= n => v[i] = y \div Power[n - i]}
<1>4. 0 \in S
  <2>1. Power[n] \in Nat \ {0} /\ n - 0 = n
    BY PowerEquations
  <2>2. y = (Power[n] * 0) + y /\ y \in 0 .. Power[n] - 1
    BY <1>1, <2>1
  <2>3. y \div Power[n] = 0
    BY <2>1, <2>2, DivisionUnique
  <2>4. QED
    BY <1>3, <2>1, <2>3
<1>5. ASSUME NEW i \in Nat, i \in S
      PROVE  i + 1 \in S
  <2> SUFFICES ASSUME i + 1 <= n
               PROVE  v[i + 1] = y \div Power[n - (i + 1)]
    OBVIOUS
  <2> DEFINE p == Power[n - (i + 1)]
             q == y \div p
  <2>1. n - (i + 1) \in Nat /\ (n - (i + 1)) + 1 = n - i /\ i <= n /\ i + 1 \in 1 .. n /\ (i + 1) - 1 = i
    OBVIOUS
  <2>2. p \in Nat \ {0} /\ Power[n - i] = Base * p /\ Base \in Nat \ {0}
    BY <2>1, PowerEquations, BufferAssumption
  <2> HIDE DEF p
  <2>3. q \in Nat
    BY <1>1, <2>2
  <2>4. y \div (Base * p) = q \div Base
    BY <1>1, <2>2, DivisionTwice
  <2>5. v[i] = q \div Base
    BY <1>5, <2>1, <2>2, <2>4
  <2>6. v[i + 1] = (v[i] * Base) + (q % Base)
    BY <1>2, <1>3, <2>1 DEF p
  <2> HIDE DEF q
  <2>7. q = (Base * (q \div Base)) + (q % Base) /\ q \div Base \in Int /\ q % Base \in Int
    BY <2>2, <2>3
  <2>8. (q \div Base) * Base = Base * (q \div Base)
    BY <2>2, <2>7
  <2>9. v[i + 1] = q
    BY <2>5, <2>6, <2>7, <2>8
  <2>10. QED
    BY <2>9 DEF p, q
<1>6. n \in S
  <2> HIDE DEF S
  <2>1. QED
    BY <1>4, <1>5, NatInSet
<1>7. v[n] = y
  <2>1. v[n] = y \div Power[n - n] /\ n - n = 0
    BY <1>6
  <2>2. Power[0] = 1 /\ y \div 1 = y
    BY <1>1, PowerEquations
  <2>3. QED
    BY <2>1, <2>2
<1>8. QED
  BY <1>1, <1>3, <1>7

\* An integer of k bytes put in front of the readable bytes, or appended to
\* none, is read back, and retrieveInt() takes what it has added.
LEMMA IntReadsBack ==
  ASSUME NEW b, InOrder(b), NEW k \in Nat, NEW x \in Ints(k)
  PROVE  /\ CanPrepend(b, k) =>
              /\ PeekInt(PrependInt(b, x, k), k) = x
              /\ Contents(RetrieveInt(PrependInt(b, x, k), k)) = Contents(b)
         /\ ReadableBytes(b) = 0 => PeekInt(AppendInt(b, x, k), k) = x
<1> DEFINE d == ToBytes(x, k)
           c == Contents(b)
<1>1. d \in Seq(Byte) /\ Len(d) = k
  BY ToBytesType
<1>2. c \in Seq(Byte) /\ Len(c) = ReadableBytes(b)
  BY ContentsType
<1> HIDE DEF d, c
<1>3. ASSUME CanPrepend(b, k)
      PROVE  /\ PeekInt(PrependInt(b, x, k), k) = x
             /\ Contents(RetrieveInt(PrependInt(b, x, k), k)) = c
  <2> DEFINE r == PrependTo(b, d)
             s == d \o c
  <2>1. InOrder(r) /\ Contents(r) = s
    BY <1>1, <1>3, PrependAddsInFront DEF c
  <2>2. /\ s \in Seq(Byte) /\ Len(s) = k + Len(c)
        /\ \A i \in 1 .. k : s[i] = d[i]
        /\ \A i \in 1 .. Len(c) : s[k + i] = c[i]
    BY <1>1, <1>2, BytesBehindBytes
  <2>3. r = PrependInt(b, x, k)
    BY DEF PrependInt, d
  <2> HIDE DEF r, s
  <2>4. PeekInt(r, k) = x
    BY <2>1, <2>2, BytesAreNumber DEF d
  <2>5. k \in 0 .. ReadableBytes(r) /\ ReadableBytes(r) = Len(s)
    <3>1. ReadableBytes(r) = Len(s)
      BY <2>1, ContentsType
    <3>2. QED
      BY <1>2, <2>2, <3>1
  <2>6. Contents(Retrieve(r, k)) = SubSeq(s, k + 1, Len(s))
    BY <2>1, <2>5, RetrieveTakesFront
  <2>7. SubSeq(s, k + 1, Len(s)) = c
    <3> DEFINE t == SubSeq(s, k + 1, Len(s))
    <3>1. /\ t \in Seq(Byte) /\ Len(t) = Len(c)
          /\ \A i \in 1 .. Len(t) : t[i] = s[k + i]
      BY <1>2, <2>2
    <3> HIDE DEF t
    <3>2. \A i \in 1 .. Len(t) : t[i] = c[i]
      BY <2>2, <3>1
    <3>3. QED
      BY <1>2, <3>1, <3>2, SeqEqual DEF t
  <2>8. QED
    BY <2>3, <2>4, <2>6, <2>7 DEF RetrieveInt
<1>4. ASSUME ReadableBytes(b) = 0
      PROVE  PeekInt(AppendInt(b, x, k), k) = x
  <2> DEFINE r == AppendTo(b, d)
             s == c \o d
  <2>1. Contents(r) = s
    BY <1>1, AppendAddsBehind DEF c
  <2>2. Len(c) = 0 /\ \A i \in 1 .. k : s[Len(c) + i] = d[i]
    BY <1>1, <1>2, <1>4, BytesBehindBytes
  <2>3. r = AppendInt(b, x, k)
    BY DEF AppendInt, d
  <2> HIDE DEF r, s
  <2>4. \A i \in 1 .. k : s[i] = d[i]
    BY <2>2
  <2>5. QED
    BY <2>1, <2>3, <2>4, BytesAreNumber DEF d
<1>5. QED
  BY <1>3, <1>4 DEF c

------------------------------------------------------------------------------
(* The steps *)

\* The vector of a buffer is no larger than MemoryBounded allows.
Fits(b) ==
  \/ Len(b.cells) <= CheapPrepend + InitialSize
  \/ Len(b.cells) < CheapPrepend + 2 * MaxBytes

Good(b) == InOrder(b) /\ ReadableBytes(b) <= MaxBytes /\ Fits(b)

\* The inductive invariant: each buffer is in order and within its bounds, and
\* no assertion but that of prepend() has failed.
IInv ==
  /\ buf \in [Name -> [cells : Seq(Byte), reader : Nat, writer : Nat]]
  /\ \A n \in Name : Good(buf[n])
  /\ failed \in {"none", "prepend"}

\* What the buffers hold, as ByteQueue sees it.
Held == [n \in Name |-> Contents(buf[n])]

\* An operation that leaves a good buffer keeps the invariant, and shows in
\* ByteQueue as a change of that buffer's bytes.
LEMMA OneBufferChanges ==
  ASSUME IInv, NEW n \in Name, NEW r, Good(r), buf' = [buf EXCEPT ![n] = r], UNCHANGED failed
  PROVE  IInv' /\ Held' = [Held EXCEPT ![n] = Contents(r)]
<1>1. r \in [cells : Seq(Byte), reader : Nat, writer : Nat]
  BY DEF Good, InOrder
<1>2. /\ buf' \in [Name -> [cells : Seq(Byte), reader : Nat, writer : Nat]]
      /\ \A m \in Name : buf'[m] = IF m = n THEN r ELSE buf[m]
  BY <1>1, Zenon DEF IInv
<1>3. IInv'
  BY <1>2, Zenon DEF IInv
<1>4. Held' = [m \in Name |-> Contents(buf'[m])]
  BY DEF Held
<1>5. \A m \in Name : Contents(buf'[m]) = IF m = n THEN Contents(r) ELSE Contents(buf[m])
  BY <1>2, Zenon
<1>6. QED
  BY <1>3, <1>4, <1>5, Zenon DEF Held

\* Adding bytes within the bound, by an operation that grows the vector only as
\* SmallGrowth says, leaves a good buffer.
LEMMA AddingIsGood ==
  ASSUME NEW b, Good(b), NEW r, InOrder(r), NEW data \in Seq(Byte),
         \/ Contents(r) = Contents(b) \o data
         \/ Contents(r) = data \o Contents(b),
         SmallGrowth(b, r), ReadableBytes(b) + Len(data) <= MaxBytes
  PROVE  Good(r)
<1>1. /\ Contents(b) \in Seq(Byte) /\ Len(Contents(b)) = ReadableBytes(b)
      /\ Len(Contents(r)) = ReadableBytes(r)
      /\ ReadableBytes(b) \in Nat /\ ReadableBytes(r) \in Nat
  BY ContentsType DEF Good
<1>2. /\ Len(Contents(b) \o data) = Len(Contents(b)) + Len(data)
      /\ Len(data \o Contents(b)) = Len(data) + Len(Contents(b))
  BY <1>1, BytesBehindBytes, Zenon
<1>3. ReadableBytes(r) <= MaxBytes
  <2>1. Len(data) \in Nat
    OBVIOUS
  <2>2. \/ ReadableBytes(r) = ReadableBytes(b) + Len(data)
        \/ ReadableBytes(r) = Len(data) + ReadableBytes(b)
    BY <1>1, <1>2, Zenon
  <2>3. QED
    BY <1>1, <2>1, <2>2
<1>4. Fits(r)
  <2>1. CASE Len(r.cells) = Len(b.cells)
    BY <2>1 DEF Good, Fits
  <2>2. CASE Len(r.cells) < CheapPrepend + 2 * ReadableBytes(r)
    <3>1. Len(r.cells) \in Nat
      BY DEF InOrder
    <3>2. CheapPrepend + 2 * ReadableBytes(r) <= CheapPrepend + 2 * MaxBytes
      BY <1>1, <1>3, BufferAssumption
    <3>3. QED
      BY <1>1, <2>2, <3>1, <3>2, BufferAssumption DEF Fits
  <2>3. QED
    BY <2>1, <2>2 DEF SmallGrowth
<1>5. QED
  BY <1>3, <1>4 DEF Good

\* A call that adds bytes keeps the invariant and is a step of ByteQueue.
LEMMA AddingStep ==
  ASSUME IInv, NEW n \in Name, NEW data \in Data,
         AppendData(n, data) \/ PrependData(n, data) \/ ReadFd(n, data)
  PROVE  IInv' /\ (Queue!AddBehind(n, data) \/ Queue!AddInFront(n, data) \/ UNCHANGED Held)
<1> DEFINE b == buf[n]
<1>1. /\ data \in Seq(Byte) /\ Good(b) /\ InOrder(b) /\ Held[n] = Contents(b)
      /\ failed \in {"none", "prepend"}
  BY BufferAssumption DEF IInv, Good, Held
<1>2. ASSUME NEW r, InOrder(r), SmallGrowth(b, r),
             \/ Contents(r) = Contents(b) \o data
             \/ Contents(r) = data \o Contents(b),
             ReadableBytes(b) + Len(data) <= MaxBytes,
             buf' = [buf EXCEPT ![n] = r], UNCHANGED failed
      PROVE  IInv' /\ (Queue!AddBehind(n, data) \/ Queue!AddInFront(n, data))
  <2>1. Good(r)
    BY <1>1, <1>2, AddingIsGood
  <2>2. IInv' /\ Held' = [Held EXCEPT ![n] = Contents(r)]
    BY <1>2, <2>1, OneBufferChanges
  <2>3. \/ Held' = [Held EXCEPT ![n] = Held[n] \o data]
        \/ Held' = [Held EXCEPT ![n] = data \o Held[n]]
    BY <1>1, <1>2, <2>2, Zenon
  <2>4. QED
    BY <2>2, <2>3 DEF Held, Queue!AddBehind, Queue!AddInFront
<1>3. CASE AppendData(n, data)
  <2>1. /\ InOrder(AppendTo(b, data)) /\ SmallGrowth(b, AppendTo(b, data))
        /\ Contents(AppendTo(b, data)) = Contents(b) \o data /\ CanAppend(b, Len(data))
    BY <1>1, AppendAddsBehind
  <2>2. /\ buf' = [buf EXCEPT ![n] = AppendTo(b, data)] /\ UNCHANGED failed
        /\ ReadableBytes(b) + Len(data) <= MaxBytes
    BY <1>3, <2>1 DEF AppendData, Calls
  <2>3. QED
    BY <1>2, <2>1, <2>2
<1>4. CASE ReadFd(n, data)
  <2>1. /\ InOrder(ReadInto(b, data)) /\ SmallGrowth(b, ReadInto(b, data))
        /\ Contents(ReadInto(b, data)) = Contents(b) \o data
        /\ Len(data) > WriteableBytes(b) => CanAppend(Filled(b, data), Len(Extra(b, data)))
    BY <1>1, ReadAddsBehind
  <2>2. /\ buf' = [buf EXCEPT ![n] = ReadInto(b, data)] /\ UNCHANGED failed
        /\ ReadableBytes(b) + Len(data) <= MaxBytes
    BY <1>4, <2>1 DEF ReadFd, Calls
  <2>3. QED
    BY <1>2, <2>1, <2>2
<1>5. CASE PrependData(n, data)
  <2>1. CASE CanPrepend(b, Len(data))
    <3>1. /\ InOrder(PrependTo(b, data)) /\ SmallGrowth(b, PrependTo(b, data))
          /\ Contents(PrependTo(b, data)) = data \o Contents(b)
      BY <1>1, <2>1, PrependAddsInFront DEF SmallGrowth
    <3>2. /\ buf' = [buf EXCEPT ![n] = PrependTo(b, data)] /\ UNCHANGED failed
          /\ ReadableBytes(b) + Len(data) <= MaxBytes
      BY <1>5, <2>1 DEF PrependData, Calls
    <3>3. QED
      BY <1>2, <3>1, <3>2
  <2>2. CASE ~CanPrepend(b, Len(data))
    <3>1. UNCHANGED buf /\ failed' = "prepend"
      BY <1>5, <2>2 DEF PrependData, Calls
    <3>2. QED
      BY <3>1 DEF IInv, Held
  <2>3. QED
    BY <2>1, <2>2
<1>6. QED
  BY <1>3, <1>4, <1>5

\* So does a call that retrieves some.
LEMMA RetrieveStep ==
  ASSUME IInv, NEW n \in Name, RetrieveSome(n)
  PROVE  IInv' /\ Queue!Retrieve(n)
<1> DEFINE b == buf[n]
<1>1. /\ Good(b) /\ InOrder(b) /\ Held[n] = Contents(b)
      /\ ReadableBytes(b) \in Nat /\ Contents(b) \in Seq(Byte) /\ Len(Contents(b)) = ReadableBytes(b)
  BY ContentsType DEF IInv, Good, Held
<1>2. PICK len \in 0 .. ReadableBytes(b) : buf' = [buf EXCEPT ![n] = Retrieve(b, len)]
  BY DEF RetrieveSome
<1> DEFINE r == Retrieve(b, len)
<1>3. /\ InOrder(r) /\ r.cells = b.cells
      /\ Contents(r) = SubSeq(Contents(b), len + 1, Len(Contents(b)))
  BY <1>1, RetrieveTakesFront
<1> HIDE DEF r
<1>4. ReadableBytes(r) <= ReadableBytes(b) /\ ReadableBytes(r) \in Nat
  <2> DEFINE c == Contents(b)
  <2>1. c \in Seq(Byte) /\ Len(c) = ReadableBytes(b) /\ len \in 0 .. Len(c)
    BY <1>1
  <2> HIDE DEF c
  <2>2. Len(SubSeq(c, len + 1, Len(c))) = Len(c) - len
    BY <2>1
  <2>3. Len(Contents(r)) = ReadableBytes(r) /\ ReadableBytes(r) \in Nat
    BY <1>3, ContentsType
  <2>4. ReadableBytes(r) = Len(c) - len
    BY <1>3, <2>2, <2>3 DEF c
  <2>5. QED
    BY <1>1, <2>1, <2>3, <2>4
<1>5. Good(r)
  BY <1>1, <1>3, <1>4, BufferAssumption DEF Good, Fits
<1>6. IInv' /\ Held' = [Held EXCEPT ![n] = Contents(r)]
  BY <1>2, <1>5, OneBufferChanges DEF RetrieveSome, r
<1>7. /\ len \in 0 .. Len(Held[n])
      /\ Held' = [Held EXCEPT ![n] = SubSeq(Held[n], len + 1, Len(Held[n]))]
  BY <1>1, <1>2, <1>3, <1>6
<1>8. QED
  BY <1>6, <1>7 DEF Held, Queue!Retrieve

\* So does swap().
LEMMA SwapStep ==
  ASSUME IInv, NEW n \in Name, NEW m \in Name, Swap(m, n)
  PROVE  IInv' /\ Queue!Swap(m, n)
<1>1. buf' = [buf EXCEPT ![m] = buf[n], ![n] = buf[m]] /\ UNCHANGED failed
  BY DEF Swap
<1>2. /\ buf' \in [Name -> [cells : Seq(Byte), reader : Nat, writer : Nat]]
      /\ \A k \in Name : buf'[k] = IF k = n THEN buf[m] ELSE IF k = m THEN buf[n] ELSE buf[k]
  BY <1>1, Zenon DEF IInv
<1>3. IInv'
  BY <1>1, <1>2, Zenon DEF IInv
<1>4. /\ Held' = [k \in Name |-> Contents(buf'[k])]
      /\ \A k \in Name : Held[k] = Contents(buf[k])
  BY DEF Held
<1>5. \A k \in Name : Contents(buf'[k]) = IF k = n THEN Held[m] ELSE IF k = m THEN Held[n] ELSE Held[k]
  BY <1>2, <1>4, Zenon
<1>6. Held' = [Held EXCEPT ![m] = Held[n], ![n] = Held[m]]
  BY <1>4, <1>5, Zenon DEF Held
<1>7. QED
  BY <1>3, <1>6 DEF Held, Queue!Swap
------------------------------------------------------------------------------
(* The theorems *)

LEMMA InitGood == Init => IInv /\ Queue!Init
<1> SUFFICES ASSUME Init PROVE IInv /\ Queue!Init
  OBVIOUS
<1>1. InOrder(NewBuffer) /\ Contents(NewBuffer) = <<>>
  BY NewInOrder
<1>2. Good(NewBuffer)
  <2>1. ReadableBytes(NewBuffer) = 0
    BY <1>1, ContentsType
  <2>2. Fits(NewBuffer)
    BY NewInOrder, BufferAssumption DEF Fits
  <2>3. QED
    BY <1>1, <2>1, <2>2, BufferAssumption DEF Good
<1>3. IInv
  BY <1>1, <1>2 DEF Init, IInv, InOrder
<1>4. Held = [n \in Name |-> <<>>]
  BY <1>1 DEF Init, Held
<1>5. QED
  BY <1>3, <1>4 DEF Held, Queue!Init

LEMMA StepGood == IInv /\ [Next]_vars => IInv' /\ [Queue!Next]_Held
<1> SUFFICES ASSUME IInv, [Next]_vars PROVE IInv' /\ (Queue!Next \/ UNCHANGED Held)
  OBVIOUS
<1>1. CASE UNCHANGED vars
  BY <1>1 DEF vars, IInv, Held
<1>2. ASSUME NEW n \in Name, NEW data \in Data,
             AppendData(n, data) \/ PrependData(n, data) \/ ReadFd(n, data)
      PROVE  IInv' /\ (Queue!Next \/ UNCHANGED Held)
  <2>1. IInv' /\ (Queue!AddBehind(n, data) \/ Queue!AddInFront(n, data) \/ UNCHANGED Held)
    BY <1>2, AddingStep
  <2>2. QED
    BY <2>1, Zenon DEF Queue!Next
<1>3. ASSUME NEW n \in Name, RetrieveSome(n)
      PROVE  IInv' /\ (Queue!Next \/ UNCHANGED Held)
  <2>1. IInv' /\ Queue!Retrieve(n)
    BY <1>3, RetrieveStep
  <2>2. QED
    BY <2>1, Zenon DEF Queue!Next
<1>4. ASSUME NEW n \in Name, NEW m \in Name, Swap(m, n)
      PROVE  IInv' /\ (Queue!Next \/ UNCHANGED Held)
  <2>1. IInv' /\ Queue!Swap(m, n)
    BY <1>4, SwapStep
  <2>2. QED
    BY <2>1, Zenon DEF Queue!Next
<1>5. QED
  BY <1>1, <1>2, <1>3, <1>4, Zenon DEF Next

\* The invariant of every buffer, whatever calls were made.
LEMMA IInvInductive == Spec => []IInv
<1>1. Init => IInv
  BY InitGood
<1>2. IInv /\ [Next]_vars => IInv'
  BY StepGood
<1>3. QED
  BY <1>1, <1>2, PTL DEF Spec

\* Every buffer is a vector of bytes with two indices into it.
THEOREM TypeCorrect == Spec => []TypeOK
<1>1. IInv => TypeOK
  BY DEF IInv, Good, InOrder, TypeOK
<1>2. QED
  BY <1>1, IInvInductive, PTL

\* No index passes another or enters the reserved bytes, and no assertion of
\* makeSpace(), ensureWriteableBytes() or hasWritten() ever fails.
THEOREM StaysInOrder == Spec => []IndicesInOrder
<1>1. IInv => IndicesInOrder
  BY DEF IInv, Good, InOrder, IndicesInOrder
<1>2. QED
  BY <1>1, IInvInductive, PTL

\* The vector stays within its initial size, or twice the most bytes that are
\* ever readable at once and the reserved ones.
THEOREM StaysSmall == Spec => []MemoryBounded
<1>1. IInv => MemoryBounded
  BY DEF IInv, Good, Fits, MemoryBounded
<1>2. QED
  BY <1>1, IInvInductive, PTL

\* The readable bytes are a queue: append() and readFd() add behind them,
\* prepend() in front, retrieve() takes from the front, and makeSpace() does
\* not show.
THEOREM ImplementsByteQueue == Spec => KeepsBytes
<1>1. Init => Queue!Init
  BY InitGood
<1>2. IInv /\ [Next]_vars => [Queue!Next]_([n \in Name |-> Contents(buf[n])])
  BY StepGood DEF Held
<1>3. QED
  BY <1>1, <1>2, IInvInductive, PTL DEF Spec, KeepsBytes, Queue!Spec

\* Integers of any size are read back as they were written, whatever the buffer
\* has been through: prependInt() and appendInt() against peekInt() and
\* retrieveInt(), negative integers too.
THEOREM IntsAreReadBack == Spec => []IntsReadBack
<1>1. IInv => IntsReadBack
  <2> SUFFICES ASSUME IInv, NEW n \in Name, NEW k \in IntSize, NEW x \in Ints(k)
               PROVE  LET b == buf[n] IN
                      /\ CanPrepend(b, k) =>
                           /\ PeekInt(PrependInt(b, x, k), k) = x
                           /\ Contents(RetrieveInt(PrependInt(b, x, k), k)) = Contents(b)
                      /\ ReadableBytes(b) = 0 => PeekInt(AppendInt(b, x, k), k) = x
    BY DEF IntsReadBack
  <2>1. InOrder(buf[n]) /\ k \in Nat
    BY BufferAssumption DEF IInv, Good
  <2>2. QED
    BY <2>1, IntReadsBack
<1>2. QED
  BY <1>1, IInvInductive, PTL
=============================================================================
