------------------------------- MODULE Buffer -------------------------------
(***************************************************************************)
(* Buffer: a vector of bytes and two indices into it.  The bytes between   *)
(* m_readerIndex and m_writerIndex are readable; append() writes behind    *)
(* them, prepend() in front, and makeSpace() moves them to the front or    *)
(* grows the vector.  A buffer is a record, its operations are operators   *)
(* on it, and the actions apply them to named buffers.                     *)
(***************************************************************************)
EXTENDS Integers, Sequences

CONSTANTS
  Name,          \* the buffers
  Base,          \* values of a byte: 256
  CheapPrepend,  \* kCheapPrepend
  InitialSize,   \* the argument of the constructor
  ExtraBuf,      \* sizeof extrabuf in readFd()
  Data,          \* sequences of bytes that one call adds
  IntSize,       \* sizes of the integers that are appended and read
  MaxBytes       \* bound: bytes readable at once

Byte == 0 .. Base - 1

ASSUME BufferAssumption ==
  /\ Base \in Nat \ {0}
  /\ CheapPrepend \in Nat /\ InitialSize \in Nat /\ ExtraBuf \in Nat
  /\ Data \subseteq Seq(Byte)
  /\ IntSize \subseteq Nat \ {0}
  /\ MaxBytes \in Nat

VARIABLES
  buf,      \* per buffer: its cells, and the indices reader and writer
  failed    \* the assertion that ended the process

vars == <<buf, failed>>

TypeOK ==
  /\ buf \in [Name -> [cells : Seq(Byte), reader : Nat, writer : Nat]]
  /\ \A n \in Name : {buf[n].reader, buf[n].writer} \subseteq 0 .. Len(buf[n].cells)
  /\ failed \in {"none", "append", "prepend"}
------------------------------------------------------------------------------
(* The operations; cell i of the vector is cells[i + 1] *)

BufferOf(cells, reader, writer) ==
  [cells |-> cells, reader |-> reader, writer |-> writer]

Zeros(n)  == [i \in 1 .. n |-> 0]
NewBuffer == BufferOf(Zeros(CheapPrepend + InitialSize), CheapPrepend, CheapPrepend)

ReadableBytes(b)    == b.writer - b.reader
WriteableBytes(b)   == Len(b.cells) - b.writer
PrependableBytes(b) == b.reader

\* The readable bytes, from peek() on.
Contents(b) == [i \in 1 .. ReadableBytes(b) |-> b.cells[b.reader + i]]

\* std::copy of data to the cells behind index at.
Overwrite(cells, at, data) ==
  [i \in DOMAIN cells |-> IF i > at /\ i <= at + Len(data) THEN data[i - at] ELSE cells[i]]

\* Seeded fault: the reserved bytes are forgotten.
RetrieveAllToZero(b) == BufferOf(b.cells, 0, 0)

RetrieveAll(b) == BufferOf(b.cells, CheapPrepend, CheapPrepend)

Retrieve(b, len) ==
  IF len < ReadableBytes(b) THEN BufferOf(b.cells, b.reader + len, b.writer)
  ELSE RetrieveAll(b)

\* Seeded fault: the indices are reset before the bytes are copied.
MoveToNothing(b) ==
  BufferOf(b.cells, CheapPrepend, CheapPrepend + ReadableBytes(b))

\* The bytes move to the front.
Move(b) ==
  BufferOf(Overwrite(b.cells, CheapPrepend, Contents(b)),
           CheapPrepend, CheapPrepend + ReadableBytes(b))

\* m_buffer.resize(m_writerIndex + len)
Grow(b, len) ==
  BufferOf(b.cells \o Zeros(b.writer + len - Len(b.cells)), b.reader, b.writer)

\* Seeded fault: bytes that were retrieved are never reused.
NeverMoves(b, len) == WriteableBytes(b) < len

MustGrow(b, len) == WriteableBytes(b) + PrependableBytes(b) - CheapPrepend < len

MakeSpace(b, len) == IF MustGrow(b, len) THEN Grow(b, len) ELSE Move(b)

EnsureWriteableBytes(b, len) == IF WriteableBytes(b) < len THEN MakeSpace(b, len) ELSE b

\* The assertions of makeSpace(), ensureWriteableBytes() and hasWritten().
CanAppend(b, len) ==
  /\ WriteableBytes(b) < len /\ ~MustGrow(b, len) => CheapPrepend < b.reader
  /\ WriteableBytes(EnsureWriteableBytes(b, len)) >= len

\* std::copy and hasWritten(), into the room there is.
PutBehind(b, data) ==
  BufferOf(Overwrite(b.cells, b.writer, data), b.reader, b.writer + Len(data))

AppendTo(b, data) == PutBehind(EnsureWriteableBytes(b, Len(data)), data)

\* The assertion of prepend(), which subtracts from what is prependable.
CanPrepend(b, len) == len <= PrependableBytes(b) - CheapPrepend

PrependTo(b, data) ==
  BufferOf(Overwrite(b.cells, b.reader - Len(data), data), b.reader - Len(data), b.writer)

\* readFd(): what readv stores of data behind the writer, and what is left of
\* it in extrabuf.
Filled(b, data) ==
  PutBehind(b, IF Len(data) <= WriteableBytes(b) THEN data ELSE SubSeq(data, 1, WriteableBytes(b)))
Extra(b, data) == SubSeq(data, WriteableBytes(b) + 1, Len(data))

ReadInto(b, data) ==
  IF Len(data) <= WriteableBytes(b) THEN Filled(b, data)
  ELSE AppendTo(Filled(b, data), Extra(b, data))

\* The most bytes one readFd() asks readv for.
ReadLimit(b) ==
  WriteableBytes(b) + (IF WriteableBytes(b) < ExtraBuf THEN ExtraBuf ELSE 0)
------------------------------------------------------------------------------
(* Integers, stored with their most significant byte first (htobe, betoh) *)

\* How many values n bytes have.
Power[n \in Nat] == IF n = 0 THEN 1 ELSE Base * Power[n - 1]

Ints(n) == -(Power[n] \div 2) .. ((Power[n] + 1) \div 2) - 1

ToBytes(x, n) == [i \in 1 .. n |-> ((x % Power[n]) \div Power[n - i]) % Base]

\* Seeded fault: the bytes are read in the order of a little-endian host.
PeekIntSwapped(b, n) ==
  LET v[i \in 0 .. n] == IF i = 0 THEN 0 ELSE v[i - 1] + Contents(b)[i] * Power[i - 1]
  IN IF v[n] \in Ints(n) THEN v[n] ELSE v[n] - Power[n]

PeekInt(b, n) ==
  LET v[i \in 0 .. n] == IF i = 0 THEN 0 ELSE v[i - 1] * Base + Contents(b)[i]
  IN IF v[n] \in Ints(n) THEN v[n] ELSE v[n] - Power[n]

AppendInt(b, x, n)  == AppendTo(b, ToBytes(x, n))
PrependInt(b, x, n) == PrependTo(b, ToBytes(x, n))
RetrieveInt(b, n)   == Retrieve(b, n)
------------------------------------------------------------------------------
(* The calls *)

Init ==
  /\ buf = [n \in Name |-> NewBuffer]
  /\ failed = "none"

Calls(n, assertion, what, b) ==
  /\ failed = "none"
  /\ IF assertion THEN buf' = [buf EXCEPT ![n] = b] /\ UNCHANGED failed
     ELSE UNCHANGED buf /\ failed' = what

AppendData(n, data) ==
  /\ ReadableBytes(buf[n]) + Len(data) <= MaxBytes
  /\ Calls(n, CanAppend(buf[n], Len(data)), "append", AppendTo(buf[n], data))

\* The caller sees no more bytes in front than prependableBytes() tells.
PrependData(n, data) ==
  /\ ReadableBytes(buf[n]) + Len(data) <= MaxBytes
  /\ Len(data) <= PrependableBytes(buf[n])
  /\ Calls(n, CanPrepend(buf[n], Len(data)), "prepend", PrependTo(buf[n], data))

\* retrieve(), retrieveAsString(), retrieveInt(), of what is readable.
RetrieveSome(n) ==
  /\ failed = "none"
  /\ \E len \in 0 .. ReadableBytes(buf[n]) : buf' = [buf EXCEPT ![n] = Retrieve(@, len)]
  /\ UNCHANGED failed

\* readFd() of a socket that has data; it fails, or has none, without effect.
ReadFd(n, data) ==
  LET b == buf[n] IN
  /\ ReadableBytes(b) + Len(data) <= MaxBytes
  /\ Len(data) <= ReadLimit(b)
  /\ Calls(n, Len(data) > WriteableBytes(b)
                => CanAppend(Filled(b, data), Len(Extra(b, data))),
           "append", ReadInto(b, data))

Swap(m, n) ==
  /\ failed = "none"
  /\ buf' = [buf EXCEPT ![m] = buf[n], ![n] = buf[m]]
  /\ UNCHANGED failed

Next ==
  \E n \in Name :
    \/ \E data \in Data : AppendData(n, data) \/ PrependData(n, data) \/ ReadFd(n, data)
    \/ RetrieveSome(n)
    \/ \E m \in Name : Swap(m, n)

Spec == Init /\ [][Next]_vars
------------------------------------------------------------------------------
(* Properties *)

\* The indices stay in order and behind the reserved bytes, so that no
\* subtraction of two of them wraps around and no copy leaves the vector; the
\* assertions on them hold, but for the one in prepend().
IndicesInOrder ==
  /\ \A n \in Name : LET b == buf[n] IN
       CheapPrepend <= b.reader /\ b.reader <= b.writer /\ b.writer <= Len(b.cells)
  /\ failed \in {"none", "prepend"}

\* Refinement: the readable bytes are the queue.
Queue == INSTANCE ByteQueue WITH bytes <- [n \in Name |-> Contents(buf[n])]

\* Wherever the bytes are moved, nothing is lost, added or reordered.
KeepsBytes == Queue!Spec

\* The vector does not grow with the bytes that pass through it: its size is
\* bounded by twice the most bytes that were ever readable at once.
MemoryBounded ==
  \A n \in Name :
    \/ Len(buf[n].cells) <= CheapPrepend + InitialSize
    \/ Len(buf[n].cells) < CheapPrepend + 2 * MaxBytes

\* Whatever the buffer has been through, an integer put in front of its bytes,
\* or into it when it is empty, is read back, negative ones too, and what was
\* there before is there again.
IntsReadBack ==
  \A n \in Name, k \in IntSize : \A x \in Ints(k) :
    LET b == buf[n] IN
    /\ CanPrepend(b, k) =>
         /\ PeekInt(PrependInt(b, x, k), k) = x
         /\ Contents(RetrieveInt(PrependInt(b, x, k), k)) = Contents(b)
    /\ ReadableBytes(b) = 0 => PeekInt(AppendInt(b, x, k), k) = x
==============================================================================
