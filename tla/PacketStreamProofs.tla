------------------------- MODULE PacketStreamProofs -------------------------
(***************************************************************************)
(* Proofs about PacketStream.tla, for every buffer, every header, every    *)
(* longest body, and any number of packets, writes and connections: first  *)
(* about the buffer of IoBuffer.tla, a queue of bytes whatever its length. *)
(***************************************************************************)
EXTENDS PacketStream, OrderedIdsProofs, SequenceTheorems, TLAPS

-----------------------------------------------------------------------------
(* The buffer.                                                             *)

LEMMA BufferType ==
    ASSUME NEW b, BufferOK(b)
    PROVE  /\ b = [cells |-> b.cells, head |-> b.head, tail |-> b.tail]
           /\ b.cells \in [Cells -> Byte]
           /\ b.head \in Int /\ b.tail \in Int
           /\ 0 <= b.head /\ b.head <= b.tail /\ b.tail <= BufferLength
           /\ Size(b) \in Nat /\ Size(b) <= BufferLength
           /\ Cells = 0..(BufferLength - 1) /\ BufferLength \in Nat \ {0}
  BY BufferAssumption DEF BufferOK, Buffers, Cells, Size

LEMMA ContentsType ==
    ASSUME NEW b, BufferOK(b)
    PROVE  /\ Contents(b) \in Seq(Byte)
           /\ Len(Contents(b)) = Size(b)
           /\ \A i \in 1..Size(b) : Contents(b)[i] = b.cells[b.head + i - 1]
<1>1. \A i \in 1..Size(b) : b.cells[b.head + i - 1] \in Byte
  <2> TAKE i \in 1..Size(b)
  <2>1. b.head + i - 1 \in Cells
    BY BufferType DEF Size
  <2> QED  BY <2>1, BufferType
<1>2. Contents(b) \in [1..Size(b) -> Byte]
  BY <1>1 DEF Contents
<1>3. Size(b) \in Nat
  BY BufferType
<1> QED  BY <1>2, <1>3 DEF Contents

(* A buffer that is moved to the front holds what it held.                 *)
LEMMA CompactedKeeps ==
    ASSUME NEW b, BufferOK(b)
    PROVE  /\ BufferOK(Compacted(b))
           /\ Contents(Compacted(b)) = Contents(b)
           /\ FreeSize(Compacted(b)) = Capacity(b)
           /\ Size(Compacted(b)) = Size(b)
<1> DEFINE moved == [c \in Cells |-> IF c < Size(b) THEN b.cells[b.head + c]
                                                    ELSE b.cells[c]]
<1>1. moved \in [Cells -> Byte]
  <2> SUFFICES ASSUME NEW c \in Cells
               PROVE  (IF c < Size(b) THEN b.cells[b.head + c] ELSE b.cells[c])
                        \in Byte
    OBVIOUS
  <2> c < Size(b) => b.head + c \in Cells
    BY BufferType DEF Size
  <2> QED  BY BufferType
<1> DEFINE a == [cells |-> moved, head |-> 0, tail |-> Size(b)]
<1>2. Compacted(b) = a
  BY DEF Compacted
<1>3. a.cells = moved /\ a.head = 0 /\ a.tail = Size(b)
  OBVIOUS
<1>4. Size(a) = Size(b)
  BY <1>3, BufferType DEF Size
<1>5. BufferOK(a)
  <2>1. Size(b) \in 0..BufferLength /\ 0 \in 0..BufferLength /\ 0 <= Size(b)
    BY BufferType
  <2>2. a \in Buffers
    BY <1>1, <2>1 DEF Buffers
  <2> QED  BY <2>1, <2>2, <1>3 DEF BufferOK
<1>6. Contents(a) = Contents(b)
  <2> SUFFICES ASSUME NEW i \in 1..Size(b)
               PROVE  moved[0 + i - 1] = b.cells[b.head + i - 1]
    BY <1>3, <1>4, Zenon DEF Contents
  <2>1. 0 + i - 1 \in Cells /\ 0 + i - 1 < Size(b)
    BY BufferType
  <2>2. b.head + (0 + i - 1) = b.head + i - 1
    BY BufferType
  <2> QED  BY <2>1, <2>2
<1>7. FreeSize(a) = Capacity(b)
  BY <1>3 DEF FreeSize, Capacity
<1> HIDE DEF a
<1> QED  BY <1>2, <1>4, <1>5, <1>6, <1>7

(* prepare() keeps what the buffer holds, and the slab it offers is inside *)
(* the buffer and as large as the free space allows.                       *)
THEOREM PreparedKeeps ==
    ASSUME NEW b, BufferOK(b), NEW n \in Nat
    PROVE  /\ BufferOK(Prepared(b, n))
           /\ Contents(Prepared(b, n)) = Contents(b)
           /\ Prepared(b, n).tail + SlabSize(b, n) <= BufferLength
           /\ SlabSize(b, n) = n \/ SlabSize(b, n) = Capacity(b)
<1>1. CASE n > FreeSize(b)
  <2>1. Prepared(b, n) = Compacted(b)
    BY <1>1 DEF Prepared
  <2>2. Compacted(b).tail = Size(b)
    BY DEF Compacted
  <2>3. SlabSize(b, n) <= Capacity(b) /\ SlabSize(b, n) \in {n, Capacity(b)}
    BY BufferType DEF SlabSize, Capacity
  <2>4. Size(b) + SlabSize(b, n) <= BufferLength
    BY <2>3, BufferType DEF Capacity
  <2> QED  BY <2>1, <2>2, <2>3, <2>4, CompactedKeeps
<1>2. CASE ~(n > FreeSize(b))
  <2>1. Prepared(b, n) = b
    BY <1>2 DEF Prepared
  <2>2. FreeSize(b) <= Capacity(b) /\ FreeSize(b) \in Int /\ Capacity(b) \in Int
    BY BufferType DEF FreeSize, Capacity, Size
  <2>3. SlabSize(b, n) = n
    BY <1>2, <2>2 DEF SlabSize
  <2>4. b.tail + n <= BufferLength
    BY <1>2, BufferType DEF FreeSize
  <2> QED  BY <2>1, <2>3, <2>4
<1> QED  BY <1>1, <1>2

(* The cells of the contents that a filled slab extends.                   *)
LEMMA FilledCells ==
    ASSUME NEW b, BufferOK(b),
           NEW bytes \in Seq(Byte), Len(bytes) <= FreeSize(b),
           NEW cells,
           cells = [c \in Cells |-> IF c \in b.tail..(b.tail + Len(bytes) - 1)
                                    THEN bytes[c - b.tail + 1]
                                    ELSE b.cells[c]]
    PROVE  \A i \in 1..(Size(b) + Len(bytes)) :
             cells[b.head + i - 1]
               = IF i <= Size(b) THEN b.cells[b.head + i - 1]
                                 ELSE bytes[i - Size(b)]
<1> TAKE i \in 1..(Size(b) + Len(bytes))
<1> DEFINE n == Len(bytes)
<1>1. n \in Nat /\ b.tail + n <= BufferLength
  BY BufferType DEF FreeSize
<1>2. b.head + i - 1 \in Cells
  BY <1>1, BufferType DEF Size
<1>3. CASE i <= Size(b)
  <2>1. ~(b.head + i - 1 \in b.tail..(b.tail + n - 1))
    BY <1>1, <1>3, BufferType DEF Size
  <2> QED  BY <1>2, <1>3, <2>1
<1>4. CASE ~(i <= Size(b))
  <2>1. PICK c \in Cells : c = b.head + i - 1
    BY <1>2
  <2>2. c \in b.tail..(b.tail + n - 1)
    BY <1>1, <1>4, <2>1, BufferType DEF Size
  <2>3. c - b.tail + 1 = i - Size(b)
    BY <1>1, <2>1, BufferType DEF Size
  <2>4. cells[c] = bytes[c - b.tail + 1]
    BY <2>2, Zenon
  <2>5. cells[c] = bytes[i - Size(b)]
    BY <2>3, <2>4
  <2> QED  BY <1>4, <2>1, <2>5
<1> QED  BY <1>3, <1>4

(* What is filled into the slab and committed is added at the end.         *)
THEOREM CommittedAppends ==
    ASSUME NEW b, BufferOK(b),
           NEW bytes \in Seq(Byte), Len(bytes) <= FreeSize(b)
    PROVE  LET full == Committed(Filled(b, b.tail, bytes), Len(bytes)) IN
           BufferOK(full) /\ Contents(full) = Contents(b) \o bytes
<1> DEFINE n == Len(bytes)
           cells == [c \in Cells |-> IF c \in b.tail..(b.tail + n - 1)
                                     THEN bytes[c - b.tail + 1]
                                     ELSE b.cells[c]]
           full == [cells |-> cells, head |-> b.head, tail |-> b.tail + n]
<1>1. n \in Nat /\ b.tail + n <= BufferLength
  BY BufferType DEF FreeSize
<1>2. Committed(Filled(b, b.tail, bytes), n) = full
  <2>1. Filled(b, b.tail, bytes)
          = [cells |-> cells, head |-> b.head, tail |-> b.tail]
    <3>1. [b EXCEPT !.cells = cells]
            = [cells |-> cells, head |-> b.head, tail |-> b.tail]
      <4> HIDE DEF cells
      <4> QED  BY DEF BufferOK, Buffers
    <3>2. Filled(b, b.tail, bytes) = [b EXCEPT !.cells = cells]
      BY Zenon DEF Filled
    <3> HIDE DEF cells
    <3> QED  BY <3>1, <3>2
  <2> HIDE DEF cells
  <2> QED  BY <2>1 DEF Committed
<1>3. cells \in [Cells -> Byte]
  <2> SUFFICES ASSUME NEW c \in Cells
               PROVE  (IF c \in b.tail..(b.tail + n - 1)
                       THEN bytes[c - b.tail + 1] ELSE b.cells[c]) \in Byte
    OBVIOUS
  <2>1. ASSUME c \in b.tail..(b.tail + n - 1)
        PROVE  bytes[c - b.tail + 1] \in Byte
    <3>1. c - b.tail + 1 \in 1..n
      BY <1>1, <2>1, BufferType
    <3> QED  BY <3>1
  <2> QED  BY <2>1, BufferType
<1>4. BufferOK(full)
  <2>1. b.head \in 0..BufferLength /\ b.tail + n \in 0..BufferLength
    BY <1>1, BufferType
  <2>2. full \in Buffers
    BY <1>3, <2>1 DEF Buffers
  <2> QED  BY <1>1, <2>2, BufferType DEF BufferOK
<1>5. Size(full) = Size(b) + n
  BY <1>1, BufferType DEF Size
<1>6. Contents(full) = Contents(b) \o bytes
  <2>1. \A i \in 1..(Size(b) + n) :
          cells[b.head + i - 1]
            = IF i <= Size(b) THEN b.cells[b.head + i - 1] ELSE bytes[i - Size(b)]
    BY FilledCells
  <2>2. /\ Contents(full) \in Seq(Byte) /\ Len(Contents(full)) = Size(b) + n
        /\ \A i \in 1..(Size(b) + n) : Contents(full)[i] = cells[b.head + i - 1]
    BY <1>4, <1>5, ContentsType
  <2>3. /\ Contents(b) \in Seq(Byte) /\ Len(Contents(b)) = Size(b)
        /\ \A i \in 1..Size(b) : Contents(b)[i] = b.cells[b.head + i - 1]
    BY ContentsType
  <2>4. /\ Contents(b) \o bytes \in Seq(Byte)
        /\ Len(Contents(b) \o bytes) = Size(b) + n
        /\ \A i \in 1..(Size(b) + n) :
             (Contents(b) \o bytes)[i]
               = IF i <= Size(b) THEN Contents(b)[i] ELSE bytes[i - Size(b)]
    <3> DEFINE old == Contents(b)
    <3>1. old \in Seq(Byte) /\ Len(old) = Size(b)
      BY <2>3
    <3> HIDE DEF old
    <3>2. /\ old \o bytes \in Seq(Byte)
          /\ Len(old \o bytes) = Len(old) + Len(bytes)
          /\ \A i \in 1..(Len(old) + Len(bytes)) :
               (old \o bytes)[i] = IF i <= Len(old) THEN old[i]
                                                   ELSE bytes[i - Len(old)]
      BY <3>1, ConcatProperties
    <3> QED  BY <3>1, <3>2 DEF old
  <2>5. \A i \in 1..(Size(b) + n) : Contents(full)[i] = (Contents(b) \o bytes)[i]
    <3> TAKE i \in 1..(Size(b) + n)
    <3>1. i <= Size(b) => i \in 1..Size(b)
      BY BufferType
    <3> HIDE DEF cells, full
    <3> QED  BY <2>1, <2>2, <2>3, <2>4, <3>1
  <2> HIDE DEF full
  <2> QED  BY <2>2, <2>4, <2>5, SeqEqual
<1> HIDE DEF full
<1> QED  BY <1>2, <1>4, <1>6

(* consume() takes from the front.                                         *)
THEOREM ConsumedDrops ==
    ASSUME NEW b, BufferOK(b), NEW n \in 0..Size(b)
    PROVE  /\ BufferOK(Consumed(b, n))
           /\ Contents(Consumed(b, n))
                = [i \in 1..(Size(b) - n) |-> Contents(b)[n + i]]
<1> n \in Nat
  BY BufferType
<1>1. CASE b.head + n >= b.tail
  <2> DEFINE empty == [cells |-> b.cells, head |-> 0, tail |-> 0]
  <2>1. Consumed(b, n) = empty
    BY <1>1 DEF Consumed, BufferOK, Buffers
  <2>2. BufferOK(empty)
    BY BufferType DEF BufferOK, Buffers
  <2>3. Size(b) - n = 0 /\ Size(empty) = 0
    BY <1>1, BufferType DEF Size
  <2>4. Contents(empty) = [i \in 1..(Size(b) - n) |-> Contents(b)[n + i]]
    BY <2>3 DEF Contents
  <2> HIDE DEF empty
  <2> QED  BY <2>1, <2>2, <2>4
<1>2. CASE ~(b.head + n >= b.tail)
  <2> DEFINE rest == [cells |-> b.cells, head |-> b.head + n, tail |-> b.tail]
  <2>1. Consumed(b, n) = rest
    BY <1>2 DEF Consumed, BufferOK, Buffers
  <2>2. BufferOK(rest)
    BY <1>2, BufferType DEF BufferOK, Buffers
  <2>3. Size(rest) = Size(b) - n
    BY BufferType DEF Size
  <2>4. Contents(rest) = [i \in 1..(Size(b) - n) |-> b.cells[b.head + n + i - 1]]
    BY <2>3 DEF Contents
  <2>5. \A i \in 1..(Size(b) - n) : Contents(b)[n + i] = b.cells[b.head + n + i - 1]
    <3> TAKE i \in 1..(Size(b) - n)
    <3>1. n + i \in 1..Size(b) /\ b.head + (n + i) - 1 = b.head + n + i - 1
      BY BufferType
    <3> QED  BY <3>1 DEF Contents
  <2> HIDE DEF rest
  <2> QED  BY <2>1, <2>2, <2>4, <2>5
<1> QED  BY <1>1, <1>2

-----------------------------------------------------------------------------
(* The stream.                                                             *)

LEMMA Constants ==
  /\ HeaderLength \in Nat \ {0, 1} /\ MaxBodyLength \in Nat
  /\ BufferLength \in Nat \ {0} /\ HeaderLength + MaxBodyLength <= BufferLength
  /\ MaxPackets \in Nat /\ MaxWrites \in Nat /\ MaxConnections \in Nat
  /\ Byte = (0..MaxPackets) \X (0..(HeaderLength + MaxBodyLength))
  /\ Cells = 0..(BufferLength - 1)
  /\ \A body \in Bodies : /\ body \in Seq(Values)
                          /\ HeaderLength + Len(body) <= MaxBodyLength
  BY StreamAssumption, BufferAssumption DEF Cells

-----------------------------------------------------------------------------
(* The parser.                                                             *)

\* What one turn of process_packet makes of the bytes from p on, where from
\* is what it makes of those that follow.
ParseStep(bytes, from, p) ==
    IF p = Len(bytes) THEN Nothing(p)
    ELSE IF ~IsFlag(bytes, p) THEN from[p + 1]
    ELSE IF Len(bytes) - p < HeaderLength THEN Nothing(p)
    ELSE IF ~CrcMatches(bytes, p) THEN from[p + 1]
    ELSE LET id == HeaderEnd(bytes, p)[2]
             len == HeaderEnd(bytes, p)[3]
             end == p + HeaderLength + len
         IN  IF TooLong(len) THEN from[p + HeaderLength]
             ELSE IF ~Complete(bytes, p, len) THEN Nothing(p)
             ELSE [from[end] EXCEPT
                     !.packets =
                        <<[id |-> id,
                           body |-> SubSeq(bytes, p + HeaderLength + 1, end)]>> \o @]

Valued(bytes) ==
    /\ bytes \in Seq(Byte)
    /\ \A i \in 1..Len(bytes) : Value(bytes[i]) \in Values

\* Where a turn may go on.
LEMMA HeaderFields ==
  ASSUME NEW bytes, Valued(bytes), NEW p \in 0..Len(bytes),
         Len(bytes) - p >= HeaderLength
  PROVE  /\ HeaderEnd(bytes, p)[2] \in Nat /\ HeaderEnd(bytes, p)[3] \in Nat
         /\ p + HeaderLength \in (p + 1)..Len(bytes)
<1>1. Len(bytes) \in Nat /\ p \in Nat /\ HeaderLength \in Nat \ {0, 1}
  BY Constants DEF Valued
<1>2. p + HeaderLength \in 1..Len(bytes) /\ p + HeaderLength \in (p + 1)..Len(bytes)
  BY <1>1
<1>3. HeaderEnd(bytes, p) \in Values
  BY <1>2 DEF HeaderEnd, Valued
<1>4. QED BY <1>2, <1>3 DEF Values

\* A turn goes on with what follows.
LEMMA StepLocal ==
  ASSUME NEW bytes, Valued(bytes), NEW p \in 0..Len(bytes), NEW f, NEW g,
         \A q \in (p + 1)..Len(bytes) : f[q] = g[q]
  PROVE  ParseStep(bytes, f, p) = ParseStep(bytes, g, p)
<1>1. Len(bytes) \in Nat /\ p \in Nat /\ HeaderLength \in Nat \ {0, 1}
  BY Constants DEF Valued
<1>2. CASE p = Len(bytes)
  BY <1>2 DEF ParseStep
<1>3. CASE p # Len(bytes)
  <2>1. p + 1 \in (p + 1)..Len(bytes)
    BY <1>1, <1>3
  <2>2. CASE Len(bytes) - p < HeaderLength
    BY <1>3, <2>1, <2>2 DEF ParseStep
  <2>3. CASE ~(Len(bytes) - p < HeaderLength)
    <3>1. p + HeaderLength \in (p + 1)..Len(bytes) /\ HeaderEnd(bytes, p)[3] \in Nat
      BY <1>1, <2>3, HeaderFields
    <3>2. PICK len \in Nat : len = HeaderEnd(bytes, p)[3]
      BY <3>1
    <3>3. Complete(bytes, p, len) => p + HeaderLength + len \in (p + 1)..Len(bytes)
      BY <1>1, <3>2 DEF Complete
    <3>4. f[p + 1] = g[p + 1] /\ f[p + HeaderLength] = g[p + HeaderLength]
      BY <2>1, <3>1
    <3>5. Complete(bytes, p, len) =>
            f[p + HeaderLength + len] = g[p + HeaderLength + len]
      BY <3>3
    <3>6. QED BY <1>3, <2>3, <3>2, <3>4, <3>5 DEF ParseStep
  <2>4. QED BY <2>2, <2>3
<1>4. QED BY <1>2, <1>3

LEMMA ParserExists ==
  ASSUME NEW bytes, Valued(bytes)
  PROVE  \E f : f = [p \in 0..Len(bytes) |-> ParseStep(bytes, f, p)]
<1>1. PICK l \in Nat : l = Len(bytes)
  BY DEF Valued
<1> DEFINE S == { m \in Nat : m <= l =>
                    \E f : f = [p \in (l - m)..l |-> ParseStep(bytes, f, p)] }
<1>2. 0 \in S
  <2> DEFINE f == [p \in (l - 0)..l |-> Nothing(l)]
  <2>1. \A p \in (l - 0)..l : p = l
    OBVIOUS
  <2>2. \A p \in (l - 0)..l : ParseStep(bytes, f, p) = Nothing(l)
    BY <1>1, <2>1 DEF ParseStep
  <2>3. f = [p \in (l - 0)..l |-> ParseStep(bytes, f, p)]
    <3>1. [p \in (l - 0)..l |-> ParseStep(bytes, f, p)] = [p \in (l - 0)..l |-> Nothing(l)]
      BY <2>2
    <3>2. QED BY <3>1
  <2>4. QED BY <2>3
<1>3. ASSUME NEW m \in Nat, m \in S PROVE m + 1 \in S
  <2> SUFFICES ASSUME m + 1 <= l
               PROVE  \E f : f = [p \in (l - (m + 1))..l |-> ParseStep(bytes, f, p)]
    OBVIOUS
  <2>1. m <= l
    BY <1>1
  <2>2. PICK f : f = [p \in (l - m)..l |-> ParseStep(bytes, f, p)]
    BY <1>3, <2>1
  <2>3. PICK k \in Nat : k = l - (m + 1) /\ k < l /\ l - m = k + 1
    BY <1>1
  <2> DEFINE g == [p \in k..l |-> IF p = k THEN ParseStep(bytes, f, k) ELSE f[p]]
  <2>4. \A q \in (k + 1)..l : g[q] = f[q]
    BY <2>3
  <2>5. g[k] = ParseStep(bytes, f, k) /\ DOMAIN g = k..l
    BY <2>3
  <2>6. g = [p \in k..l |-> g[p]]
    OBVIOUS
  <2> HIDE DEF g
  <2>7. ASSUME NEW p \in k..l PROVE g[p] = ParseStep(bytes, g, p)
    <3>1. p \in 0..l /\ \A q \in (p + 1)..l : q \in (k + 1)..l
      BY <2>3
    <3>2. \A q \in (p + 1)..Len(bytes) : f[q] = g[q]
      BY <1>1, <2>4, <3>1
    <3>3. ParseStep(bytes, f, p) = ParseStep(bytes, g, p)
      BY <1>1, <3>1, <3>2, StepLocal
    <3>4. CASE p = k
      BY <2>5, <3>3, <3>4
    <3>5. CASE p # k
      <4>1. p \in (k + 1)..l
        BY <2>3, <3>5
      <4>2. f[p] = ParseStep(bytes, f, p)
        BY <2>2, <2>3, <4>1
      <4>3. QED BY <2>4, <3>3, <4>1, <4>2
    <3>6. QED BY <3>4, <3>5
  <2>8. g = [p \in k..l |-> ParseStep(bytes, g, p)]
    BY <2>6, <2>7
  <2>9. QED BY <2>3, <2>8
<1> HIDE DEF S
<1>4. Nat \subseteq S
  BY <1>2, <1>3, Induction
<1>5. l \in S
  BY <1>4
<1>6. PICK f : f = [p \in (l - l)..l |-> ParseStep(bytes, f, p)]
  BY <1>5 DEF S
<1>7. (l - l)..l = 0..l
  BY <1>1
<1>8. QED BY <1>1, <1>6, <1>7

Parser(bytes, f) == \A p \in 0..Len(bytes) : f[p] = ParseStep(bytes, f, p)

LEMMA ParsedIs ==
  ASSUME NEW bytes, Valued(bytes)
  PROVE  \E f : Parser(bytes, f) /\ Parsed(bytes) = f[0]
<1> DEFINE f == CHOOSE g : g = [p \in 0..Len(bytes) |-> ParseStep(bytes, g, p)]
<1>1. f = [p \in 0..Len(bytes) |-> ParseStep(bytes, f, p)]
  BY ParserExists
<1>2. Parsed(bytes) = f[0]
  BY DEF Parsed, ParseStep
<1> HIDE DEF f
<1>3. Parser(bytes, f)
  BY <1>1 DEF Parser
<1>4. QED BY <1>2, <1>3

Packets == [id : Nat, body : Seq(Byte)]

\* What parsing from p on may give: what remains is less than a packet.
Rests(l, p) ==
    { r \in [consumed : Nat, packets : Seq(Packets)] :
        p <= r.consumed /\ r.consumed <= l
          /\ l - r.consumed < HeaderLength + MaxBodyLength }

LEMMA StepRests ==
  ASSUME NEW bytes, Valued(bytes), NEW f, NEW p \in 0..Len(bytes),
         \A q \in (p + 1)..Len(bytes) : f[q] \in Rests(Len(bytes), q)
  PROVE  ParseStep(bytes, f, p) \in Rests(Len(bytes), p)
<1>1. PICK l \in Nat : l = Len(bytes)
  BY DEF Valued
<1>2. p \in Nat /\ p <= l
  BY <1>1
<1>3. HeaderLength \in Nat \ {0, 1} /\ MaxBodyLength \in Nat
  BY Constants
<1>4. ASSUME NEW q \in (p + 1)..l PROVE f[q] \in Rests(l, p)
  <2>1. f[q] \in Rests(l, q)
    BY <1>1
  <2>2. q \in Nat /\ p <= q
    BY <1>2
  <2>3. \A c \in Nat : q <= c => p <= c
    BY <1>2, <2>2
  <2>4. QED BY <2>1, <2>3 DEF Rests
<1>5. ASSUME l - p < HeaderLength + MaxBodyLength PROVE Nothing(p) \in Rests(l, p)
  <2>1. <<>> \in Seq(Packets)
    OBVIOUS
  <2>2. Nothing(p) \in [consumed : Nat, packets : Seq(Packets)]
    BY <1>2, <2>1 DEF Nothing
  <2>3. Nothing(p).consumed = p
    BY DEF Nothing
  <2>4. QED BY <1>2, <1>5, <2>2, <2>3 DEF Rests
<1>6. CASE p = l
  <2>1. l - p < HeaderLength + MaxBodyLength
    BY <1>3, <1>6
  <2>2. QED BY <1>1, <1>5, <1>6, <2>1 DEF ParseStep
<1>7. CASE p # l
  <2>1. p + 1 \in (p + 1)..l
    BY <1>2, <1>7
  <2>2. f[p + 1] \in Rests(l, p)
    BY <1>4, <2>1
  <2>3. CASE l - p < HeaderLength
    <3>1. l - p < HeaderLength + MaxBodyLength
      BY <1>2, <1>3, <2>3
    <3>2. QED BY <1>1, <1>5, <1>7, <2>2, <2>3, <3>1 DEF ParseStep
  <2>4. CASE ~(l - p < HeaderLength)
    <3>1. /\ p + HeaderLength \in (p + 1)..l
          /\ HeaderEnd(bytes, p)[2] \in Nat /\ HeaderEnd(bytes, p)[3] \in Nat
      <4>1. Len(bytes) - p >= HeaderLength
        BY <1>1, <1>2, <1>3, <2>4
      <4>2. QED BY <1>1, <4>1, HeaderFields
    <3>2. PICK len \in Nat : len = HeaderEnd(bytes, p)[3]
      BY <3>1
    <3>3. PICK id \in Nat : id = HeaderEnd(bytes, p)[2]
      BY <3>1
    <3>4. f[p + HeaderLength] \in Rests(l, p)
      BY <1>4, <3>1
    <3>5. CASE ~Complete(bytes, p, len) /\ ~TooLong(len)
      <4>1. l - p < HeaderLength + MaxBodyLength
        BY <1>1, <1>2, <1>3, <3>2, <3>5 DEF Complete, TooLong
      <4>2. Nothing(p) \in Rests(l, p)
        BY <1>5, <4>1
      <4>3. QED BY <1>1, <1>7, <2>2, <2>4, <3>2, <3>5, <4>2 DEF ParseStep
    <3>6. CASE Complete(bytes, p, len) /\ ~TooLong(len)
      <4>1. PICK end \in Nat : end = p + HeaderLength + len
        BY <1>2, <1>3, <3>2
      <4>2. end \in (p + 1)..l
        BY <1>1, <1>2, <1>3, <3>2, <3>6, <4>1 DEF Complete
      <4>3. PICK r \in Rests(l, p) : r = f[end]
        BY <1>4, <4>2
      <4>4. PICK packet : packet = [id |-> id, body |-> SubSeq(bytes, p + HeaderLength + 1, end)]
        OBVIOUS
      <4>5. packet \in Packets
        <5>1. SubSeq(bytes, p + HeaderLength + 1, end) \in Seq(Byte)
          <6>1. bytes \in Seq(Byte) /\ p + HeaderLength + 1 \in Nat \ {0}
            BY <1>2, <1>3 DEF Valued
          <6>2. end <= Len(bytes)
            BY <1>1, <4>2
          <6>3. \A i \in (p + HeaderLength + 1)..end : bytes[i] \in Byte
            <7>1. \A i \in (p + HeaderLength + 1)..end : i \in 1..Len(bytes)
              BY <6>1, <6>2, <4>1
            <7>2. QED BY <6>1, <7>1
          <6>4. QED BY <4>1, <6>1, <6>2, <6>3
        <5>2. QED BY <4>4, <5>1 DEF Packets
      <4>6. r.packets \in Seq(Packets)
        BY DEF Rests
      <4>7. <<packet>> \o r.packets \in Seq(Packets)
        BY <4>5, <4>6
      <4>8. [r EXCEPT !.packets = <<packet>> \o r.packets] \in Rests(l, p)
        <5>1. PICK q \in Seq(Packets) : q = <<packet>> \o r.packets
          BY <4>7
        <5>2. [r EXCEPT !.packets = q] \in [consumed : Nat, packets : Seq(Packets)]
          BY DEF Rests
        <5>3. [r EXCEPT !.packets = q].consumed = r.consumed
          BY DEF Rests
        <5>4. QED BY <5>1, <5>2, <5>3 DEF Rests
      <4>9. ParseStep(bytes, f, p)
              \in {f[p + 1], [r EXCEPT !.packets = <<packet>> \o r.packets]}
        BY <1>1, <1>7, <2>4, <3>2, <3>3, <3>6, <4>1, <4>3, <4>4 DEF ParseStep
      <4>10. QED BY <1>1, <2>2, <4>8, <4>9
    <3>7. CASE TooLong(len)
      BY <1>1, <1>7, <2>2, <2>4, <3>2, <3>4, <3>7 DEF ParseStep
    <3>8. QED BY <3>5, <3>6, <3>7
  <2>5. QED BY <2>3, <2>4
<1>8. QED BY <1>6, <1>7

(* Whatever bytes the buffer holds, the loop of process_packet consumes    *)
(* none beyond them, and what it leaves is less than a header and the      *)
(* longest body that parse_packet accepts.                                 *)
THEOREM ParsedRests ==
  ASSUME NEW bytes, Valued(bytes)
  PROVE  /\ Parsed(bytes).consumed \in 0..Len(bytes)
         /\ Len(bytes) - Parsed(bytes).consumed < HeaderLength + MaxBodyLength
         /\ Parsed(bytes).packets \in Seq(Packets)
<1>1. PICK l \in Nat : l = Len(bytes)
  BY DEF Valued
<1>2. PICK f : Parser(bytes, f) /\ Parsed(bytes) = f[0]
  BY ParsedIs
<1> DEFINE S == { m \in Nat : \A q \in 0..l : l - q <= m => f[q] \in Rests(l, q) }
<1>3. ASSUME NEW p \in 0..l, \A q \in (p + 1)..l : f[q] \in Rests(l, q)
      PROVE  f[p] \in Rests(l, p)
  <2>1. ParseStep(bytes, f, p) \in Rests(l, p)
    BY <1>1, <1>3, StepRests
  <2>2. QED BY <1>1, <1>2, <2>1 DEF Parser
<1>4. 0 \in S
  <2>1. ASSUME NEW p \in 0..l, l - p <= 0 PROVE f[p] \in Rests(l, p)
    <3>1. (p + 1)..l = {}
      BY <2>1
    <3>2. QED BY <1>3, <3>1
  <2>2. QED BY <2>1
<1>5. ASSUME NEW m \in Nat, m \in S PROVE m + 1 \in S
  <2>1. ASSUME NEW p \in 0..l, l - p <= m + 1 PROVE f[p] \in Rests(l, p)
    <3>1. \A q \in (p + 1)..l : q \in 0..l /\ l - q <= m
      BY <2>1
    <3>2. \A q \in (p + 1)..l : f[q] \in Rests(l, q)
      BY <1>5, <3>1
    <3>3. QED BY <1>3, <3>2
  <2>2. QED BY <2>1
<1> HIDE DEF S
<1>6. l \in S
  BY <1>4, <1>5, Induction
<1>7. 0 \in 0..l /\ l - 0 <= l
  BY <1>1
<1>8. f[0] \in Rests(l, 0)
  BY <1>6, <1>7 DEF S
<1>9. QED BY <1>1, <1>2, <1>8 DEF Rests

-----------------------------------------------------------------------------
(* The inductive invariant.  Every byte is one of a packet that was        *)
(* written; a completed connect is handled before the next is begun, and   *)
(* the completed read of the last connection before that; so that only one *)
(* read is ever outstanding, and what it brings fits.                      *)
SentOK ==
    /\ sent \in Seq([body : Bodies, connection : 1..MaxConnections])
    /\ Len(sent) <= MaxPackets

FieldsOK ==
    /\ connect_state \in {"disconnected", "connecting", "connected"}
    /\ read_pending \in BOOLEAN
    /\ link \in {"closed", "opening", "up", "down"}
    /\ connection \in 0..MaxConnections
    /\ torn \in BOOLEAN

Written(b) == Of(b) \in 1..Len(sent) /\ Place(b) \in 1..PacketLength(Of(b))
RealByte(b) == b \in Byte /\ (b = NoByte \/ Written(b))
AllReal(b) == \A c \in Cells : RealByte(b.cells[c])

Progress(w) == w.id \in 1..Len(sent) /\ w.next \in 1..PacketLength(w.id)

BytesOK ==
    /\ wire \in Seq(Byte) /\ \A n \in 1..Len(wire) : RealByte(wire[n])
    /\ RealByte(last)
    /\ writes \in Seq([id : Nat, next : Nat])
    /\ \A n \in 1..Len(writes) : Progress(writes[n])

RoomLeft == Size(read_buf) < HeaderLength + MaxBodyLength

BufferReal == BufferOK(read_buf) /\ AllReal(read_buf) /\ RoomLeft

LinkInv ==
    /\ link = "closed" <=> connect_state = "disconnected"
    /\ link = "opening" => /\ connect_state = "connecting"
                           /\ Queued("connected") = {}
                           /\ connection < MaxConnections
    /\ link \in {"up", "down"} => connection > 0
    /\ connect_state = "connected" => link # "opening" /\ Queued("connected") = {}

\* The slab of the outstanding read is the free space behind the tail.
SlabOf(b, size) == {[at |-> b.tail, size |-> size]}

ReadInv ==
    /\ \/ slab = {}
       \/ \E size \in 1..FreeSize(read_buf) : slab = SlabOf(read_buf, size)
    /\ slab # {} => connect_state = "connected" /\ Queued("read") = {}
    /\ read_pending => connect_state = "connected"

Once(op) == \A m, n \in Queued(op) : m = n

QueueInv ==
    /\ ioq \in Seq(Handlers)
    /\ Once("read") /\ Once("connected")
    /\ \A m \in Queued("read"), n \in Queued("connected") : m < n
    /\ \A m \in Queued("read") : ioq[m].length <= FreeSize(read_buf)

StreamInv ==
    /\ SentOK /\ FieldsOK /\ BytesOK /\ BufferReal
    /\ LinkInv /\ ReadInv /\ QueueInv /\ KeepsReading

-----------------------------------------------------------------------------
(* Bytes.                                                                  *)

LEMMA Element ==
  ASSUME NEW S, NEW q \in Seq(S), NEW i \in 1..Len(q)
  PROVE  q[i] \in S
  OBVIOUS

LEMMA PacketFits ==
  ASSUME SentOK, NEW id \in 1..Len(sent)
  PROVE  /\ id \in 1..MaxPackets
         /\ sent[id].body \in Seq(Values) /\ Len(sent[id].body) \in Nat
         /\ sent[id].body \in Bodies
         /\ PacketLength(id) \in HeaderLength..MaxBodyLength
<1>1. sent[id].body \in Bodies /\ id \in 1..MaxPackets
  <2>1. sent[id] \in [body : Bodies, connection : 1..MaxConnections]
    BY Element DEF SentOK
  <2>2. Len(sent) \in Nat /\ Len(sent) <= MaxPackets
    BY DEF SentOK
  <2>3. QED BY <2>1, <2>2, Constants
<1>2. sent[id].body \in Seq(Values) /\ HeaderLength + Len(sent[id].body) <= MaxBodyLength
  BY <1>1, Constants
<1>3. Len(sent[id].body) \in Nat
  BY <1>2
<1>4. QED BY <1>1, <1>2, <1>3, Constants DEF PacketLength

LEMMA WrittenReal ==
  ASSUME SentOK, NEW id \in 1..Len(sent), NEW i \in 1..PacketLength(id)
  PROVE  RealByte(<<id, i>>) /\ Written(<<id, i>>)
<1>1. id \in 0..MaxPackets /\ i \in 0..(HeaderLength + MaxBodyLength)
  BY PacketFits, Constants
<1>2. <<id, i>> \in Byte
  BY <1>1, Constants
<1>3. QED BY <1>2 DEF RealByte, Written, Of, Place

LEMMA NoByteReal == RealByte(NoByte)
<1>1. 0 \in 0..MaxPackets /\ 0 \in 0..(HeaderLength + MaxBodyLength)
  BY Constants
<1>2. QED BY <1>1, Constants DEF RealByte, NoByte

LEMMA RealValue ==
  ASSUME SentOK, NEW b, RealByte(b)
  PROVE  Value(b) \in Values
<1>1. Flag \in Values /\ Plain \in Values
  BY DEF Flag, Plain, Values
<1>2. CASE b = NoByte
  BY <1>1, <1>2 DEF Value
<1>3. CASE b # NoByte
  <2>1. PICK id \in 1..Len(sent) : id = Of(b)
    BY <1>3 DEF RealByte, Written
  <2>2. PICK i \in 1..PacketLength(id) : i = Place(b)
    BY <1>3, <2>1 DEF RealByte, Written
  <2>3. PICK body \in Seq(Values) : body = sent[id].body /\ Len(body) \in Nat
    BY PacketFits
  <2>4. HeaderLength \in Nat \ {0, 1} /\ PacketLength(id) = HeaderLength + Len(body)
    BY Constants, <2>3 DEF PacketLength
  <2>5. Crc(id, Len(body)) \in Values
    <3>1. id \in Nat
      BY PacketFits
    <3>2. QED BY <2>3, <3>1 DEF Crc, Values
  <2>6. CASE i = 1
    BY <1>1, <1>3, <2>2, <2>4, <2>6 DEF Value
  <2>7. CASE i = HeaderLength
    BY <1>3, <2>1, <2>2, <2>3, <2>4, <2>5, <2>7 DEF Value
  <2>8. CASE i \in 2..(HeaderLength - 1)
    BY <1>1, <1>3, <2>2, <2>4, <2>8 DEF Value
  <2>9. CASE i \notin 2..(HeaderLength - 1) /\ i # 1 /\ i # HeaderLength
    <3>1. i - HeaderLength \in 1..Len(body)
      BY <2>2, <2>3, <2>4, <2>9
    <3>2. body[i - HeaderLength] \in Values
      BY <3>1
    <3>3. Value(b) = body[i - HeaderLength]
      BY <1>3, <2>1, <2>2, <2>3, <2>9 DEF Value
    <3>4. QED BY <3>2, <3>3
  <2>10. QED BY <2>6, <2>7, <2>8, <2>9
<1>4. QED BY <1>2, <1>3

\* Another packet is written.
LEMMA SentMore ==
  ASSUME SentOK, NEW packet \in [body : Bodies, connection : 1..MaxConnections],
         Len(sent) < MaxPackets, sent' = Append(sent, packet)
  PROVE  /\ SentOK' /\ Len(sent') = Len(sent) + 1
         /\ \A id \in 1..Len(sent) : id \in 1..Len(sent') /\ PacketLength(id)' = PacketLength(id)
         /\ sent'[Len(sent')] = packet
         /\ \A b : RealByte(b) => RealByte(b)'
         /\ \A w : Progress(w) => Progress(w)'
<1>1. /\ Len(sent) \in Nat /\ Len(sent') = Len(sent) + 1
      /\ sent' \in Seq([body : Bodies, connection : 1..MaxConnections])
      /\ \A id \in 1..Len(sent) : sent'[id] = sent[id]
      /\ sent'[Len(sent) + 1] = packet
  BY DEF SentOK
<1>2. SentOK'
  BY <1>1, Constants DEF SentOK
<1>3. \A id \in 1..Len(sent) : id \in 1..Len(sent') /\ PacketLength(id)' = PacketLength(id)
  BY <1>1 DEF PacketLength
<1>4. QED BY <1>1, <1>2, <1>3 DEF RealByte, Written, Progress

LEMMA SentSame ==
  ASSUME sent' = sent
  PROVE  /\ SentOK' <=> SentOK
         /\ \A b : RealByte(b)' <=> RealByte(b)
         /\ \A w : Progress(w)' <=> Progress(w)
         /\ \A id : PacketLength(id)' = PacketLength(id)
  BY DEF SentOK, RealByte, Written, Progress, PacketLength

-----------------------------------------------------------------------------
(* The queue of handlers.                                                  *)

LEMMA Enqueued ==
  ASSUME QueueInv, NEW h \in Handlers, ioq' = Append(ioq, h)
  PROVE  /\ ioq' \in Seq(Handlers)
         /\ Queued(h.op)' = Queued(h.op) \union {Len(ioq) + 1}
         /\ \A op : op # h.op => Queued(op)' = Queued(op)
         /\ \A n \in 1..Len(ioq) : ioq'[n] = ioq[n]
         /\ ioq'[Len(ioq) + 1] = h /\ Len(ioq) \in Nat
         /\ \A op : Queued(op) \subseteq 1..Len(ioq)
<1>1. /\ ioq' \in Seq(Handlers) /\ Len(ioq) \in Nat /\ Len(ioq') = Len(ioq) + 1
      /\ ioq'[Len(ioq) + 1] = h /\ \A n \in 1..Len(ioq) : ioq'[n] = ioq[n]
  BY DEF QueueInv
<1>2. \A n : n \in 1..Len(ioq') <=> n \in 1..Len(ioq) \/ n = Len(ioq) + 1
  BY <1>1
<1>3. QED BY <1>1, <1>2 DEF Queued

Aborts == {<<>>, <<[op |-> "read_error"]>>}

LEMMA Dequeued ==
  ASSUME QueueInv, NEW o, Runs(o), NEW handlers \in Aborts, Queues(handlers)
  PROVE  /\ ioq' \in Seq(Handlers)
         /\ \A op : op # "read_error" =>
              /\ \A n \in Queued(op)' : n + 1 \in Queued(op) /\ ioq'[n] = ioq[n + 1]
                                        /\ n \in Nat
              /\ \A n \in Queued(op) : n # 1 => n - 1 \in Queued(op)'
              /\ Queued(op) = {} => Queued(op)' = {}
         /\ 1 \in Queued(o) /\ \A op : op # o => 1 \notin Queued(op)
         /\ Head(ioq) = ioq[1] /\ Head(ioq) \in Handlers /\ Head(ioq).op = o
         /\ \A op : Queued(op) \subseteq 1..Len(ioq)
<1>1. [op |-> "read_error"] \in Handlers
  BY DEF Handlers
<1>2. handlers \in Seq(Handlers) /\ Len(handlers) \in Nat
      /\ \A n \in 1..Len(handlers) : handlers[n].op = "read_error"
  <2>1. <<>> \in Seq(Handlers) /\ <<[op |-> "read_error"]>> \in Seq(Handlers)
    BY <1>1
  <2>2. Len(<<>>) = 0 /\ Len(<<[op |-> "read_error"]>>) = 1
        /\ <<[op |-> "read_error"]>>[1].op = "read_error"
    OBVIOUS
  <2>3. CASE handlers = <<>>
    BY <2>1, <2>2, <2>3
  <2>4. CASE handlers = <<[op |-> "read_error"]>>
    <3>1. \A n \in 1..1 : n = 1
      OBVIOUS
    <3>2. QED BY <2>1, <2>2, <2>4, <3>1
  <2>5. QED BY <2>3, <2>4 DEF Aborts
<1>3. ioq \in Seq(Handlers) /\ ioq # <<>> /\ Head(ioq).op = o
  BY DEF QueueInv, Runs
<1>4. /\ ioq' \in Seq(Handlers) /\ Len(ioq) \in Nat \ {0}
      /\ Len(ioq') = Len(ioq) - 1 + Len(handlers)
      /\ \A n \in 1..(Len(ioq) - 1) : ioq'[n] = ioq[n + 1]
      /\ \A k \in 1..Len(handlers) : ioq'[Len(ioq) - 1 + k] = handlers[k]
  BY <1>2, <1>3, TailJoined DEF Queues
<1>5. Head(ioq) = ioq[1] /\ Head(ioq) \in Handlers /\ 1 \in 1..Len(ioq)
  BY <1>3, <1>4
<1>6. ASSUME NEW n \in 1..Len(ioq'), ioq'[n].op # "read_error"
      PROVE  n + 1 \in 1..Len(ioq) /\ ioq'[n] = ioq[n + 1]
  <2>1. CASE n \in 1..(Len(ioq) - 1)
    BY <1>4, <2>1
  <2>2. CASE ~(n \in 1..(Len(ioq) - 1))
    <3>1. PICK k \in 1..Len(handlers) : n = Len(ioq) - 1 + k
      <4>1. n - (Len(ioq) - 1) \in 1..Len(handlers)
            /\ n = Len(ioq) - 1 + (n - (Len(ioq) - 1))
        BY <1>2, <1>4, <2>2
      <4>2. QED BY <4>1
    <3>2. QED BY <1>2, <1>4, <1>6, <3>1
  <2>3. QED BY <2>1, <2>2
<1>7. ASSUME NEW n \in 1..Len(ioq), n # 1
      PROVE  n - 1 \in 1..Len(ioq') /\ ioq'[n - 1] = ioq[n]
  <2>1. n - 1 \in 1..(Len(ioq) - 1) /\ (n - 1) + 1 = n
    BY <1>4, <1>7
  <2>2. n - 1 \in 1..Len(ioq')
    BY <1>2, <1>4, <2>1
  <2>3. QED BY <1>4, <2>1, <2>2
<1>8. ASSUME NEW op, op # "read_error"
      PROVE  /\ \A n \in Queued(op)' : n + 1 \in Queued(op) /\ ioq'[n] = ioq[n + 1]
                                       /\ n \in Nat
             /\ \A n \in Queued(op) : n # 1 => n - 1 \in Queued(op)'
  BY <1>6, <1>7, <1>8 DEF Queued
<1>9. 1 \in Queued(o) /\ \A op : op # o => 1 \notin Queued(op)
  BY <1>3, <1>5 DEF Queued
<1>10. \A op : Queued(op) \subseteq 1..Len(ioq)
  BY DEF Queued
<1>11. \A op : op # "read_error" /\ Queued(op) = {} => Queued(op)' = {}
  BY <1>8
<1>12. QED BY <1>3, <1>4, <1>5, <1>8, <1>9, <1>10, <1>11

\* A handler other than that of a read or of a connect runs.
LEMMA OtherRuns ==
  ASSUME QueueInv, NEW o \in {"stop", "read_error", "write_error"}, Runs(o),
         NEW handlers \in Aborts, Queues(handlers),
         FreeSize(read_buf) \in Nat, FreeSize(read_buf') \in Nat,
         FreeSize(read_buf) <= FreeSize(read_buf')
  PROVE  /\ QueueInv'
         /\ Queued("read") = {} => Queued("read")' = {}
         /\ Queued("connected") = {} => Queued("connected")' = {}
<1>1. /\ ioq' \in Seq(Handlers)
      /\ \A op : op # "read_error" =>
              /\ \A n \in Queued(op)' : n + 1 \in Queued(op) /\ ioq'[n] = ioq[n + 1]
                                        /\ n \in Nat
              /\ Queued(op) = {} => Queued(op)' = {}
  BY Dequeued
<1>2. Once("read")' /\ Once("connected")'
  <2>1. \A op : op # "read_error" /\ Once(op) => Once(op)'
    BY <1>1 DEF Once
  <2>2. QED BY <2>1 DEF QueueInv
<1>3. ASSUME NEW m \in Queued("read")', NEW n \in Queued("connected")' PROVE m < n
  <2>1. m + 1 < n + 1 /\ m \in Nat /\ n \in Nat
    BY <1>1, <1>3 DEF QueueInv
  <2>2. QED BY <2>1
<1>4. ASSUME NEW m \in Queued("read")' PROVE ioq'[m].length <= FreeSize(read_buf')
  <2>1. /\ m + 1 \in Queued("read") /\ ioq'[m] = ioq[m + 1]
        /\ ioq[m + 1].length <= FreeSize(read_buf)
    BY <1>1, <1>4 DEF QueueInv
  <2>2. ioq[m + 1] \in Handlers /\ ioq[m + 1].op = "read"
    BY <2>1 DEF Queued, QueueInv
  <2>3. ioq[m + 1].length \in 1..BufferLength
    BY <2>2 DEF Handlers
  <2>4. QED BY <2>1, <2>3, Constants
<1>5. QED BY <1>1, <1>2, <1>3, <1>4 DEF QueueInv

-----------------------------------------------------------------------------
(* The buffer.                                                             *)

LEMMA BufferFields ==
  ASSUME NEW b, BufferOK(b)
  PROVE  /\ b.head \in Nat /\ b.tail \in 0..BufferLength /\ b.head <= b.tail
         /\ Size(b) \in Nat /\ Size(b) = b.tail - b.head
         /\ FreeSize(b) \in Nat /\ FreeSize(b) = BufferLength - b.tail
         /\ Capacity(b) \in Nat /\ Capacity(b) = BufferLength - Size(b)
         /\ b.cells \in [Cells -> Byte]
<1>1. /\ b.cells \in [Cells -> Byte] /\ b.head \in Int /\ b.tail \in Int
      /\ 0 <= b.head /\ b.head <= b.tail /\ b.tail <= BufferLength
  BY BufferType
<1>2. b.head \in Nat /\ b.tail \in 0..BufferLength
  BY <1>1, Constants
<1>3. /\ Size(b) \in Nat /\ Size(b) = b.tail - b.head
      /\ FreeSize(b) \in Nat /\ FreeSize(b) = BufferLength - b.tail
  BY <1>1, <1>2, Constants DEF Size, FreeSize
<1>4. Capacity(b) \in Nat /\ Capacity(b) = BufferLength - Size(b)
  <2>1. Capacity(b) = BufferLength - Size(b)
    BY DEF Capacity
  <2>2. Size(b) <= BufferLength
    BY BufferType
  <2>3. QED BY <1>3, <2>1, <2>2, Constants
<1>5. QED BY <1>1, <1>2, <1>3, <1>4

\* The bytes of a buffer are those of its cells.
LEMMA ContentsReal ==
  ASSUME SentOK, NEW b, BufferOK(b), AllReal(b)
  PROVE  /\ Valued(Contents(b)) /\ Len(Contents(b)) = Size(b)
         /\ \A i \in 1..Size(b) : RealByte(Contents(b)[i])
<1>1. /\ Contents(b) \in Seq(Byte) /\ Len(Contents(b)) = Size(b)
      /\ \A i \in 1..Size(b) : Contents(b)[i] = b.cells[b.head + i - 1]
  BY ContentsType
<1>2. \A i \in 1..Size(b) : b.head + i - 1 \in Cells
  BY BufferFields, Constants
<1>3. \A i \in 1..Size(b) : RealByte(Contents(b)[i])
  BY <1>1, <1>2 DEF AllReal
<1>4. QED BY <1>1, <1>3, RealValue DEF Valued

LEMMA PreparedReal ==
  ASSUME NEW b, BufferOK(b), AllReal(b), NEW n
  PROVE  AllReal(Prepared(b, n)) /\ Size(Prepared(b, n)) = Size(b)
<1>1. AllReal(Compacted(b)) /\ Size(Compacted(b)) = Size(b)
  <2>1. \A c \in Cells : c < Size(b) => b.head + c \in Cells
    BY BufferFields, Constants
  <2>2. AllReal(Compacted(b))
    BY <2>1 DEF AllReal, Compacted
  <2>3. QED BY <2>2, CompactedKeeps
<1>2. QED BY <1>1 DEF Prepared

\* do_read_packet.
LEMMA ReadStarts ==
  ASSUME NEW connected \in BOOLEAN, NEW pending \in BOOLEAN,
         NEW b, BufferOK(b), AllReal(b), Size(b) < HeaderLength + MaxBodyLength,
         DoReadPacket(connected, pending, b)
  PROVE  /\ BufferOK(read_buf') /\ AllReal(read_buf') /\ Size(read_buf') = Size(b)
         /\ connected /\ ~pending =>
              \E size \in 1..FreeSize(read_buf') : slab' = SlabOf(read_buf', size)
         /\ ~(connected /\ ~pending) => slab' = slab /\ read_pending' = pending
         /\ read_pending' \in BOOLEAN
         /\ read_pending' => connected \/ pending
<1>1. /\ FreeSize(b) \in Nat /\ Capacity(b) \in Nat /\ Capacity(b) = BufferLength - Size(b)
      /\ Size(b) \in Nat
  BY BufferFields
<1>2. Capacity(b) > 0
  BY <1>1, Constants
<1>3. ReadSize(b) \in Nat /\ ReadSize(b) > 0
  BY <1>1, <1>2 DEF ReadSize
<1>4. CASE connected /\ ~pending
  <2>1. PICK n \in Nat : n = ReadSize(b) /\ n > 0
    BY <1>3
  <2>2. PICK ready : ready = Prepared(b, n)
    OBVIOUS
  <2>3. PICK size : size = SlabSize(b, n)
    OBVIOUS
  <2>4. /\ read_pending' = TRUE /\ read_buf' = ready
        /\ slab' = {[at |-> ready.tail, size |-> size]}
    BY <1>4, <2>1, <2>2, <2>3 DEF DoReadPacket
  <2>5. BufferOK(ready) /\ ready.tail + size <= BufferLength
        /\ (size = n \/ size = Capacity(b))
    BY <2>1, <2>2, <2>3, PreparedKeeps
  <2>6. AllReal(ready) /\ Size(ready) = Size(b)
    BY <2>2, PreparedReal
  <2>7. size \in 1..FreeSize(ready)
    <3>1. size \in Nat /\ size > 0
      BY <1>1, <1>2, <2>1, <2>5
    <3>2. FreeSize(ready) = BufferLength - ready.tail /\ ready.tail \in Nat
      BY <2>5, BufferFields
    <3>3. QED BY <2>5, <3>1, <3>2, Constants
  <2>8. QED BY <1>4, <2>4, <2>5, <2>6, <2>7 DEF SlabOf
<1>5. CASE ~(connected /\ ~pending)
  BY <1>5 DEF DoReadPacket
<1>6. QED BY <1>4, <1>5

\* What AllReal says does not depend on the step.
LEMMA AllRealSame ==
  ASSUME sent' = sent, NEW b
  PROVE  (\A c \in Cells : RealByte(b.cells[c])') <=> AllReal(b)
  BY SentSame DEF AllReal

\* The bytes that a read brings are committed, and the packets consumed.
LEMMA CommittedReal ==
  ASSUME SentOK, NEW b, BufferOK(b), AllReal(b), NEW n \in 1..FreeSize(b)
  PROVE  /\ BufferOK(Committed(b, n)) /\ AllReal(Committed(b, n))
         /\ Size(Committed(b, n)) = Size(b) + n
         /\ RealByte(SubSeq(Contents(Committed(b, n)), Size(b) + 1, Size(b) + n)[n])
<1>1. PICK full : full = Committed(b, n)
  OBVIOUS
<1>2. /\ b = [cells |-> b.cells, head |-> b.head, tail |-> b.tail]
      /\ b.cells \in [Cells -> Byte] /\ b.head \in Nat /\ b.tail \in 0..BufferLength
      /\ b.head <= b.tail /\ Size(b) = b.tail - b.head /\ FreeSize(b) = BufferLength - b.tail
      /\ Size(b) \in Nat
  BY BufferType, BufferFields
<1>3. full = [cells |-> b.cells, head |-> b.head, tail |-> b.tail + n]
  BY <1>1, <1>2 DEF Committed
<1>4. n \in Nat \ {0} /\ b.tail + n \in 0..BufferLength /\ b.head <= b.tail + n
  BY <1>2, Constants
<1>5. BufferOK(full) /\ AllReal(full) /\ Size(full) = Size(b) + n
  <2>1. full.cells = b.cells /\ full.head = b.head /\ full.tail = b.tail + n
    BY <1>3
  <2>2. full \in Buffers
    <3>1. b.head \in 0..BufferLength
      BY <1>2, Constants
    <3>2. QED BY <1>2, <1>3, <1>4, <3>1 DEF Buffers
  <2>3. BufferOK(full)
    BY <1>4, <2>1, <2>2 DEF BufferOK
  <2>4. Size(full) = Size(b) + n
    BY <1>2, <1>4, <2>1 DEF Size
  <2>5. QED BY <2>1, <2>3, <2>4 DEF AllReal
<1>6. RealByte(SubSeq(Contents(full), Size(b) + 1, Size(b) + n)[n])
  <2>1. Contents(full) \in Seq(Byte) /\ Len(Contents(full)) = Size(b) + n
    BY <1>5, ContentsType
  <2>2. SubSeq(Contents(full), Size(b) + 1, Size(b) + n)[n] = Contents(full)[Size(b) + n]
    <3>1. PICK q \in Seq(Byte) : q = Contents(full)
      BY <2>1
    <3>2. PICK k \in Nat : k = Size(b)
      BY <1>2
    <3>3. Len(q) = k + n
      BY <2>1, <3>1, <3>2
    <3>4. SubSeq(q, k + 1, k + n)[n] = q[k + n]
      <4>1. \A i \in (k + 1)..(k + n) : q[i] \in Byte
        <5>1. \A i \in (k + 1)..(k + n) : i \in 1..Len(q)
          BY <1>4, <3>3
        <5>2. QED BY <5>1
      <4>2. k + 1 \in Int /\ k + n \in Int
            /\ n \in 1..(k + n - (k + 1) + 1) /\ k + 1 + n - 1 = k + n
        BY <1>4
      <4>3. \A i \in 1..(k + n - (k + 1) + 1) :
              SubSeq(q, k + 1, k + n)[i] = q[k + 1 + i - 1]
        BY <4>1, <4>2, SubSeqProperties
      <4>4. QED BY <4>2, <4>3
    <3>5. QED BY <3>1, <3>2, <3>4
  <2>3. Size(b) + n \in 1..Size(full)
    BY <1>2, <1>4, <1>5
  <2>4. QED BY <1>5, <2>2, <2>3, ContentsReal
<1>7. QED BY <1>1, <1>5, <1>6

LEMMA ConsumedReal ==
  ASSUME NEW b, BufferOK(b), AllReal(b), NEW k \in 0..Size(b)
  PROVE  /\ BufferOK(Consumed(b, k)) /\ AllReal(Consumed(b, k))
         /\ Size(Consumed(b, k)) = Size(b) - k
<1>1. BufferOK(Consumed(b, k))
  BY ConsumedDrops
<1>2. /\ b = [cells |-> b.cells, head |-> b.head, tail |-> b.tail]
      /\ b.head \in Nat /\ b.tail \in 0..BufferLength
      /\ b.head <= b.tail /\ Size(b) = b.tail - b.head /\ Size(b) \in Nat /\ k \in Nat
      /\ k <= Size(b)
  BY BufferType, BufferFields
<1>3. CASE b.head + k >= b.tail
  <2>1. Consumed(b, k) = [cells |-> b.cells, head |-> 0, tail |-> 0]
    BY <1>2, <1>3 DEF Consumed
  <2>2. Size(b) = k
    BY <1>2, <1>3
  <2>3. QED BY <1>1, <1>2, <2>1, <2>2 DEF AllReal, Size
<1>4. CASE ~(b.head + k >= b.tail)
  <2>1. Consumed(b, k) = [cells |-> b.cells, head |-> b.head + k, tail |-> b.tail]
    BY <1>2, <1>4 DEF Consumed
  <2>2. Size(Consumed(b, k)) = b.tail - (b.head + k)
    BY <2>1 DEF Size
  <2>3. QED BY <1>1, <1>2, <2>1, <2>2 DEF AllReal
<1>5. QED BY <1>3, <1>4

LEMMA ClearedReal ==
  ASSUME NEW b, BufferOK(b), AllReal(b)
  PROVE  /\ BufferOK(Cleared(b)) /\ AllReal(Cleared(b)) /\ Size(Cleared(b)) = 0
         /\ FreeSize(Cleared(b)) = BufferLength
<1>1. /\ b.head \in Nat /\ b.tail \in Nat /\ Size(b) = b.tail - b.head /\ Size(b) \in Nat
  BY BufferFields, Constants
<1>2. Cleared(b) = Consumed(b, Size(b))
  BY <1>1 DEF Cleared, Consumed
<1>3. Size(b) \in 0..Size(b) /\ Size(b) - Size(b) = 0
  BY <1>1
<1>4. BufferOK(Cleared(b)) /\ AllReal(Cleared(b)) /\ Size(Cleared(b)) = 0
  BY <1>2, <1>3, ConsumedReal
<1>5. Cleared(b).tail = 0
  BY BufferType DEF Cleared
<1>6. QED BY <1>4, <1>5, Constants DEF FreeSize

\* A read fills the free cells.
LEMMA FilledReal ==
  ASSUME NEW b, BufferOK(b), AllReal(b), NEW bytes \in Seq(Byte),
         Len(bytes) <= FreeSize(b), \A i \in 1..Len(bytes) : RealByte(bytes[i])
  PROVE  /\ BufferOK(Filled(b, b.tail, bytes)) /\ AllReal(Filled(b, b.tail, bytes))
         /\ Size(Filled(b, b.tail, bytes)) = Size(b)
         /\ Filled(b, b.tail, bytes).tail = b.tail
<1> DEFINE cells == [c \in Cells |-> IF c \in b.tail..(b.tail + Len(bytes) - 1)
                                     THEN bytes[c - b.tail + 1]
                                     ELSE b.cells[c]]
<1>1. Filled(b, b.tail, bytes) = [cells |-> cells, head |-> b.head, tail |-> b.tail]
  <2>1. b = [cells |-> b.cells, head |-> b.head, tail |-> b.tail]
    BY BufferType
  <2>2. PICK new : new = cells
    OBVIOUS
  <2>3. Filled(b, b.tail, bytes) = [b EXCEPT !.cells = new]
    BY <2>2 DEF Filled
  <2> HIDE DEF cells
  <2>4. [b EXCEPT !.cells = new] = [cells |-> new, head |-> b.head, tail |-> b.tail]
    BY <2>1
  <2>5. QED BY <2>2, <2>3, <2>4
<1>2. /\ b.cells \in [Cells -> Byte] /\ b.head \in Nat /\ b.tail \in 0..BufferLength
      /\ b.head <= b.tail /\ Len(bytes) \in Nat
  BY BufferFields
<1>3. \A c \in Cells : c \in b.tail..(b.tail + Len(bytes) - 1) =>
                         c - b.tail + 1 \in 1..Len(bytes)
  <2>1. PICK t \in Nat : t = b.tail
    BY <1>2, Constants
  <2>2. PICK l \in Nat : l = Len(bytes)
    BY <1>2
  <2>3. ASSUME NEW c \in Nat, c \in t..(t + l - 1) PROVE c - t + 1 \in 1..l
    BY <2>3
  <2>4. Cells \subseteq Nat
    BY Constants
  <2>5. QED BY <2>1, <2>2, <2>3, <2>4
<1>4. \A c \in Cells : cells[c] \in Byte /\ RealByte(cells[c])
  <2>1. \A c \in Cells : RealByte(b.cells[c])
    BY DEF AllReal
  <2>2. \A c \in Cells : RealByte(cells[c])
    BY <1>3, <2>1
  <2>3. QED BY <2>2 DEF RealByte
<1>5. cells \in [Cells -> Byte]
  BY <1>4
<1> HIDE DEF cells
<1>6. Filled(b, b.tail, bytes) \in Buffers
  <2>1. b.head \in 0..BufferLength
    BY <1>2, Constants
  <2>2. QED BY <1>1, <1>2, <1>5, <2>1 DEF Buffers
<1>7. QED BY <1>1, <1>2, <1>4, <1>6 DEF BufferOK, AllReal, Size

-----------------------------------------------------------------------------
(* The handlers.                                                           *)

LEMMA RealBuffer ==
  ASSUME StreamInv
  PROVE  /\ SentOK /\ BufferOK(read_buf) /\ AllReal(read_buf) /\ RoomLeft
         /\ FreeSize(read_buf) \in Nat /\ FreeSize(read_buf) <= BufferLength
         /\ Size(read_buf) \in Nat
<1>1. SentOK /\ BufferOK(read_buf) /\ AllReal(read_buf) /\ RoomLeft
  BY DEF StreamInv, BufferReal
<1>2. /\ FreeSize(read_buf) = BufferLength - read_buf.tail /\ read_buf.tail \in 0..BufferLength
      /\ FreeSize(read_buf) \in Nat /\ Size(read_buf) \in Nat
  BY <1>1, BufferFields
<1>3. QED BY <1>1, <1>2, Constants

\* What a step that writes no packet keeps of the bytes.
LEMMA BytesKept ==
  ASSUME StreamInv, sent' = sent,
         wire' \in {wire, <<>>}, writes' \in {writes, <<>>},
         RealByte(last')
  PROVE  SentOK' /\ BytesOK'
<1>1. <<>> \in Seq(Byte) /\ <<>> \in Seq([id : Nat, next : Nat]) /\ Len(<<>>) = 0
  OBVIOUS
<1>2. /\ wire' \in Seq(Byte) /\ \A n \in 1..Len(wire') : RealByte(wire'[n])
      /\ writes' \in Seq([id : Nat, next : Nat])
      /\ \A n \in 1..Len(writes') : Progress(writes'[n])
  <2>1. CASE wire' = wire
    <3>1. CASE writes' = writes
      BY <2>1, <3>1 DEF StreamInv, BytesOK
    <3>2. CASE writes' = <<>>
      BY <1>1, <2>1, <3>2 DEF StreamInv, BytesOK
    <3>3. QED BY <3>1, <3>2
  <2>2. CASE wire' = <<>>
    <3>1. CASE writes' = writes
      BY <1>1, <2>2, <3>1 DEF StreamInv, BytesOK
    <3>2. CASE writes' = <<>>
      BY <1>1, <2>2, <3>2 DEF StreamInv, BytesOK
    <3>3. QED BY <3>1, <3>2
  <2>3. QED BY <2>1, <2>2
<1>3. SentOK
  BY DEF StreamInv
<1>4. QED BY <1>2, <1>3, SentSame DEF BytesOK

LEMMA BufferKept ==
  ASSUME StreamInv, sent' = sent, BufferOK(read_buf'), AllReal(read_buf'),
         Size(read_buf') < HeaderLength + MaxBodyLength
  PROVE  BufferReal'
<1>1. \A b : RealByte(b)' <=> RealByte(b)
  BY SentSame
<1>2. QED BY <1>1 DEF BufferReal, AllReal, RoomLeft

\* A closed reader: nothing is outstanding.
LEMMA Closed ==
  ASSUME StreamInv, DoClose
  PROVE  /\ connect_state' = "disconnected" /\ link' = "closed" /\ slab' = {}
         /\ read_pending' = FALSE
         /\ wire' \in {wire, <<>>} /\ writes' \in {writes, <<>>}
<1>1. CASE connect_state = "disconnected"
  <2>1. UNCHANGED <<connect_state, read_pending, slab, link, wire, writes>>
    BY <1>1 DEF DoClose
  <2>2. link = "closed" /\ slab = {} /\ read_pending = FALSE
    BY <1>1 DEF StreamInv, LinkInv, ReadInv, FieldsOK
  <2>3. QED BY <1>1, <2>1, <2>2
<1>2. CASE connect_state # "disconnected"
  BY <1>2 DEF DoClose
<1>3. QED BY <1>1, <1>2

\* A handler closes the reader.
LEMMA ClosedKeeps ==
  ASSUME StreamInv, NEW o \in {"stop", "read_error", "write_error"}, Runs(o),
         NEW handlers \in Aborts, Queues(handlers),
         connect_state' = "disconnected", link' = "closed", slab' = {},
         read_pending' = FALSE,
         wire' \in {wire, <<>>}, writes' \in {writes, <<>>},
         read_buf' \in {read_buf, Cleared(read_buf)}, RealByte(last'),
         UNCHANGED <<sent, connection, torn>>
  PROVE  StreamInv'
<1>1. SentOK' /\ BytesOK'
  BY BytesKept
<1>2. /\ BufferOK(read_buf') /\ AllReal(read_buf')
      /\ Size(read_buf') < HeaderLength + MaxBodyLength
      /\ FreeSize(read_buf') \in Nat /\ FreeSize(read_buf) <= FreeSize(read_buf')
  <2>1. CASE read_buf' = read_buf
    BY <2>1, RealBuffer DEF RoomLeft
  <2>2. CASE read_buf' = Cleared(read_buf)
    BY <2>2, RealBuffer, ClearedReal, Constants
  <2>3. QED BY <2>1, <2>2
<1>3. BufferReal'
  BY <1>2, BufferKept
<1>4. QueueInv'
  BY <1>2, RealBuffer, OtherRuns DEF StreamInv
<1>5. FieldsOK' /\ LinkInv' /\ ReadInv' /\ KeepsReading'
  BY DEF StreamInv, FieldsOK, LinkInv, ReadInv, KeepsReading
<1>6. QED BY <1>1, <1>3, <1>4, <1>5 DEF StreamInv

LEMMA AbortsOK == AbortedByClose \in Aborts /\ <<>> \in Aborts
  BY DEF AbortedByClose, Aborted, Aborts

LEMMA RunReadErrorKeeps ==
  ASSUME StreamInv, RunReadError
  PROVE  StreamInv'
<1>1. /\ Runs("read_error") /\ Queues(AbortedByClose)
      /\ UNCHANGED <<read_buf, sent, connection, received, last, torn>>
  BY DEF RunReadError, historyVars
<1>2. /\ connect_state' = "disconnected" /\ link' = "closed" /\ slab' = {}
      /\ read_pending' = FALSE
      /\ wire' \in {wire, <<>>} /\ writes' \in {writes, <<>>}
  <2>1. CASE connect_state = "disconnected"
    <3>1. link = "closed" /\ slab = {}
      BY <2>1 DEF StreamInv, LinkInv, ReadInv
    <3>2. QED BY <2>1, <3>1 DEF RunReadError
  <2>2. CASE connect_state # "disconnected"
    BY <2>2, Closed DEF RunReadError
  <2>3. QED BY <2>1, <2>2
<1>3. RealByte(last')
  BY <1>1 DEF StreamInv, BytesOK
<1>4. QED BY <1>1, <1>2, <1>3, AbortsOK, ClosedKeeps

LEMMA RunWriteErrorKeeps ==
  ASSUME StreamInv, RunWriteError
  PROVE  StreamInv'
<1>1. /\ Runs("write_error") /\ Queues(AbortedByClose) /\ DoClose
      /\ UNCHANGED <<read_buf, sent, connection, received, last, torn>>
  BY DEF RunWriteError, historyVars
<1>2. RealByte(last')
  BY <1>1 DEF StreamInv, BytesOK
<1>3. QED BY <1>1, <1>2, Closed, AbortsOK, ClosedKeeps

LEMMA RunStopKeeps ==
  ASSUME StreamInv, RunStop
  PROVE  StreamInv'
<1>1. /\ Runs("stop") /\ Queues(AbortedByClose) /\ DoClose
      /\ read_buf' = Cleared(read_buf)
      /\ last' = IF last = NoByte THEN last ELSE <<Of(last), PacketLength(Of(last))>>
      /\ UNCHANGED <<sent, connection, torn>>
  BY DEF RunStop, StoppedBuffer
<1>2. RealByte(last')
  <2>1. CASE last = NoByte
    BY <1>1, <2>1, NoByteReal
  <2>2. CASE last # NoByte
    <3>1. Of(last) \in 1..Len(sent) /\ SentOK
      BY <2>2 DEF StreamInv, BytesOK, RealByte, Written
    <3>2. PacketLength(Of(last)) \in 1..PacketLength(Of(last))
      BY <3>1, PacketFits, Constants
    <3>3. QED BY <1>1, <2>2, <3>1, <3>2, WrittenReal
  <2>3. QED BY <2>1, <2>2
<1>3. QED BY <1>1, <1>2, Closed, AbortsOK, ClosedKeeps

\* The queued read is handled: there is no other, and no connect before it.
LEMMA ReadTaken ==
  ASSUME StreamInv, Runs("read"), Queues(<<>>)
  PROVE  /\ Head(ioq).length \in 1..FreeSize(read_buf)
         /\ ioq' \in Seq(Handlers) /\ Once("connected")'
         /\ Queued("read")' = {} /\ slab = {}
         /\ Queued("connected") = {} => Queued("connected")' = {}
<1>1. QueueInv
  BY DEF StreamInv
<1>2. /\ ioq' \in Seq(Handlers)
      /\ \A op : op # "read_error" =>
              /\ \A n \in Queued(op)' : n + 1 \in Queued(op) /\ n \in Nat
              /\ Queued(op) = {} => Queued(op)' = {}
      /\ 1 \in Queued("read") /\ Queued("read") \subseteq 1..Len(ioq)
      /\ Head(ioq) = ioq[1] /\ Head(ioq) \in Handlers /\ Head(ioq).op = "read"
  BY <1>1, AbortsOK, Dequeued
<1>3. Queued("read")' = {}
  <2>1. ASSUME NEW n \in Queued("read")' PROVE FALSE
    <3>1. n + 1 \in Queued("read") /\ n + 1 = 1 /\ n \in 1..Len(ioq')
      BY <1>1, <1>2, <2>1 DEF QueueInv, Once, Queued
    <3>2. QED BY <3>1
  <2>2. QED BY <2>1
<1>4. Head(ioq).length \in 1..BufferLength
  BY <1>2 DEF Handlers
<1>5. Head(ioq).length <= FreeSize(read_buf)
  BY <1>1, <1>2 DEF QueueInv
<1>6. Head(ioq).length \in 1..FreeSize(read_buf)
  BY <1>4, <1>5, RealBuffer, Constants
<1>7. Once("connected")'
  <2>1. \A m, n \in Queued("connected")' : m + 1 = n + 1 /\ m \in Nat /\ n \in Nat
    BY <1>1, <1>2 DEF QueueInv, Once
  <2>2. QED BY <2>1 DEF Once
<1>8. slab = {}
  BY <1>2 DEF StreamInv, ReadInv
<1>9. QED BY <1>2, <1>3, <1>6, <1>7, <1>8

LEMMA RunReadKeeps ==
  ASSUME StreamInv, RunRead
  PROVE  StreamInv'
<1>1. PICK n : n = Head(ioq).length
  OBVIOUS
<1>2. PICK full : full = Committed(read_buf, n)
  OBVIOUS
<1>3. PICK parsed : parsed = Parsed(Contents(full))
  OBVIOUS
<1>4. /\ Runs("read") /\ Queues(<<>>)
      /\ DoReadPacket(connect_state = "connected", FALSE, Consumed(full, parsed.consumed))
      /\ last' = Arriving(n)[n]
      /\ torn' = (torn \/ Torn(Arriving(n)))
      /\ UNCHANGED <<connect_state, link, wire, writes, sent, connection>>
  BY <1>1, <1>2, <1>3 DEF RunRead, peerVars
<1>5. /\ n \in 1..FreeSize(read_buf)
      /\ ioq' \in Seq(Handlers) /\ Once("connected")'
      /\ Queued("read")' = {} /\ slab = {}
      /\ Queued("connected") = {} => Queued("connected")' = {}
  BY <1>1, <1>4, ReadTaken
<1>6. /\ BufferOK(full) /\ AllReal(full) /\ RealByte(last')
  <2>1. Arriving(n) = SubSeq(Contents(full), Size(read_buf) + 1, Size(read_buf) + n)
    BY <1>2 DEF Arriving
  <2>2. QED BY <1>2, <1>4, <1>5, <2>1, RealBuffer, CommittedReal
<1>7. /\ Valued(Contents(full)) /\ Len(Contents(full)) = Size(full)
      /\ Size(full) \in Nat
  BY <1>6, RealBuffer, ContentsReal, BufferFields
<1>8. PICK k \in 0..Size(full) : /\ k = parsed.consumed
                                 /\ Size(full) - k < HeaderLength + MaxBodyLength
  BY <1>3, <1>7, ParsedRests
<1>9. PICK rest : rest = Consumed(full, k)
  OBVIOUS
<1>10. /\ BufferOK(rest) /\ AllReal(rest) /\ Size(rest) < HeaderLength + MaxBodyLength
  BY <1>6, <1>8, <1>9, ConsumedReal
<1>11. /\ BufferOK(read_buf') /\ AllReal(read_buf') /\ Size(read_buf') = Size(rest)
       /\ connect_state = "connected" =>
            \E size \in 1..FreeSize(read_buf') : slab' = SlabOf(read_buf', size)
       /\ connect_state # "connected" => slab' = {}
       /\ read_pending' \in BOOLEAN
       /\ read_pending' => connect_state = "connected"
  <2>1. PICK connected \in BOOLEAN : connected <=> connect_state = "connected"
    OBVIOUS
  <2>2. DoReadPacket(connected, FALSE, rest)
    BY <1>4, <1>8, <1>9, <2>1 DEF DoReadPacket
  <2>3. QED BY <1>5, <1>10, <2>1, <2>2, ReadStarts
<1>12. SentOK' /\ BytesOK'
  BY <1>4, <1>6, BytesKept
<1>13. BufferReal'
  BY <1>4, <1>10, <1>11, BufferKept
<1>14. FieldsOK'
  <2>1. torn' \in BOOLEAN
    BY <1>4 DEF Torn, StreamInv, FieldsOK
  <2>2. /\ connect_state' \in {"disconnected", "connecting", "connected"}
        /\ link' \in {"closed", "opening", "up", "down"}
        /\ connection' \in 0..MaxConnections
    BY <1>4 DEF StreamInv, FieldsOK
  <2>3. read_pending' \in BOOLEAN
    BY <1>11
  <2>4. QED BY <2>1, <2>2, <2>3 DEF FieldsOK
<1>15. LinkInv'
  BY <1>4, <1>5 DEF StreamInv, LinkInv
<1>16. ReadInv'
  BY <1>4, <1>5, <1>11 DEF ReadInv
<1>17. QueueInv'
  BY <1>5 DEF QueueInv, Once
<1>18. KeepsReading'
  BY <1>4, <1>11 DEF KeepsReading, SlabOf
<1>19. QED BY <1>12, <1>13, <1>14, <1>15, <1>16, <1>17, <1>18 DEF StreamInv

\* The queued connect is handled: no read is queued, and none is outstanding.
LEMMA ConnectTaken ==
  ASSUME StreamInv, Runs("connected"), Queues(<<>>)
  PROVE  /\ ioq' \in Seq(Handlers)
         /\ Queued("read") = {} /\ Queued("read")' = {} /\ Queued("connected")' = {}
         /\ slab = {} /\ read_pending = FALSE /\ connect_state # "connected"
         /\ link # "opening"
<1>1. QueueInv
  BY DEF StreamInv
<1>2. /\ ioq' \in Seq(Handlers)
      /\ \A op : op # "read_error" =>
              /\ \A n \in Queued(op)' : n + 1 \in Queued(op) /\ n \in Nat
              /\ Queued(op) = {} => Queued(op)' = {}
      /\ 1 \in Queued("connected") /\ \A op : Queued(op) \subseteq 1..Len(ioq)
  BY <1>1, AbortsOK, Dequeued
<1>3. Queued("read") = {}
  <2>1. ASSUME NEW n \in Queued("read") PROVE FALSE
    <3>1. n < 1 /\ n \in 1..Len(ioq)
      BY <1>1, <1>2, <2>1 DEF QueueInv
    <3>2. QED BY <3>1
  <2>2. QED BY <2>1
<1>4. Queued("connected")' = {}
  <2>1. ASSUME NEW n \in Queued("connected")' PROVE FALSE
    <3>1. n + 1 = 1 /\ n \in 1..Len(ioq')
      BY <1>1, <1>2, <2>1 DEF QueueInv, Once, Queued
    <3>2. QED BY <3>1
  <2>2. QED BY <2>1
<1>5. link # "opening" /\ connect_state # "connected"
  BY <1>2 DEF StreamInv, LinkInv
<1>6. slab = {}
  BY <1>5 DEF StreamInv, ReadInv
<1>7. read_pending = FALSE
  BY <1>5 DEF StreamInv, ReadInv, FieldsOK
<1>8. QED BY <1>2, <1>3, <1>4, <1>5, <1>6, <1>7

LEMMA RunConnectedKeeps ==
  ASSUME StreamInv, RunConnected
  PROVE  StreamInv'
<1>1. /\ Runs("connected") /\ Queues(<<>>)
      /\ UNCHANGED <<link, wire, writes, sent, connection, received, last, torn>>
  BY DEF RunConnected, peerVars, historyVars
<1>2. /\ ioq' \in Seq(Handlers)
      /\ Queued("read")' = {} /\ Queued("connected")' = {}
      /\ slab = {} /\ read_pending = FALSE /\ connect_state # "connected"
      /\ link # "opening"
  BY <1>1, ConnectTaken
<1>3. /\ BufferOK(read_buf') /\ AllReal(read_buf') /\ Size(read_buf') = Size(read_buf)
      /\ link = "closed" => connect_state' = "disconnected" /\ slab' = {}
                            /\ read_pending' = FALSE
      /\ link # "closed" =>
           /\ connect_state' = "connected"
           /\ \E size \in 1..FreeSize(read_buf') : slab' = SlabOf(read_buf', size)
      /\ read_pending' \in BOOLEAN
  <2>1. CASE link = "closed"
    <3>1. connect_state' = "disconnected" /\ UNCHANGED <<read_pending, read_buf, slab>>
      BY <2>1 DEF RunConnected
    <3>2. QED BY <1>2, <2>1, <3>1, RealBuffer
  <2>2. CASE link # "closed"
    <3>1. connect_state' = "connected" /\ DoReadPacket(TRUE, FALSE, read_buf)
      BY <1>2, <2>2 DEF RunConnected
    <3>2. QED BY <2>2, <3>1, RealBuffer, ReadStarts DEF RoomLeft
  <2>3. QED BY <2>1, <2>2
<1>4. SentOK' /\ BytesOK'
  <2>1. RealByte(last')
    BY <1>1 DEF StreamInv, BytesOK
  <2>2. QED BY <1>1, <2>1, BytesKept
<1>5. BufferReal'
  BY <1>1, <1>3, RealBuffer, BufferKept DEF RoomLeft
<1>6. FieldsOK' /\ LinkInv'
  BY <1>1, <1>2, <1>3 DEF StreamInv, FieldsOK, LinkInv
<1>7. ReadInv'
  BY <1>2, <1>3 DEF ReadInv
<1>8. QueueInv'
  BY <1>2 DEF QueueInv, Once
<1>9. KeepsReading'
  BY <1>3 DEF KeepsReading, SlabOf
<1>10. QED BY <1>4, <1>5, <1>6, <1>7, <1>8, <1>9 DEF StreamInv

\* A handler other than that of a read or of a connect is queued.
LEMMA OtherQueued ==
  ASSUME StreamInv, NEW o \in {"stop", "read_error", "write_error"},
         ioq' = Append(ioq, [op |-> o]), read_buf' = read_buf
  PROVE  /\ QueueInv'
         /\ Queued("read")' = Queued("read") /\ Queued("connected")' = Queued("connected")
         /\ Queued("read_error") \subseteq Queued("read_error")'
         /\ o = "read_error" => Queued("read_error")' # {}
<1>1. PICK h \in Handlers : h = [op |-> o] /\ h.op = o
  BY DEF Handlers
<1>2. QueueInv
  BY DEF StreamInv
<1>3. /\ ioq' \in Seq(Handlers)
      /\ Queued(o)' = Queued(o) \union {Len(ioq) + 1}
      /\ \A op : op # o => Queued(op)' = Queued(op)
      /\ \A n \in 1..Len(ioq) : ioq'[n] = ioq[n]
      /\ \A op : Queued(op) \subseteq 1..Len(ioq)
  BY <1>1, <1>2, Enqueued
<1>4. Queued("read")' = Queued("read") /\ Queued("connected")' = Queued("connected")
  BY <1>3
<1>5. \A m \in Queued("read")' : ioq'[m].length <= FreeSize(read_buf')
  BY <1>2, <1>3, <1>4 DEF QueueInv
<1>6. QueueInv'
  BY <1>2, <1>3, <1>4, <1>5 DEF QueueInv, Once
<1>7. QED BY <1>3, <1>4, <1>6

LEMMA QueuesKeeps ==
  ASSUME StreamInv, CallStop \/ WriteFails
  PROVE  StreamInv'
<1>1. PICK o \in {"stop", "write_error"} : ioq' = Append(ioq, [op |-> o])
  BY DEF CallStop, WriteFails
<1>2. UNCHANGED <<connect_state, read_pending, read_buf, slab, link, wire, writes, sent,
                  connection, last, torn>>
  BY DEF CallStop, WriteFails, readerVars, peerVars, historyVars
<1>3. /\ QueueInv'
      /\ Queued("read")' = Queued("read") /\ Queued("connected")' = Queued("connected")
      /\ Queued("read_error") \subseteq Queued("read_error")'
  BY <1>1, <1>2, OtherQueued
<1>4. SentOK' /\ BytesOK'
  <2>1. RealByte(last')
    BY <1>2 DEF StreamInv, BytesOK
  <2>2. QED BY <1>2, <2>1, BytesKept
<1>5. BufferReal'
  BY <1>2, RealBuffer, BufferKept DEF RoomLeft
<1>6. FieldsOK' /\ LinkInv' /\ ReadInv' /\ KeepsReading'
  BY <1>2, <1>3 DEF StreamInv, FieldsOK, LinkInv, ReadInv, KeepsReading
<1>7. QED BY <1>3, <1>4, <1>5, <1>6 DEF StreamInv

LEMMA ReadFailsKeeps ==
  ASSUME StreamInv, ReadFails
  PROVE  StreamInv'
<1>1. /\ link = "down" /\ slab # {} /\ slab' = {}
      /\ ioq' = Append(ioq, [op |-> "read_error"])
      /\ UNCHANGED <<connect_state, read_pending, read_buf, link, wire, writes, sent,
                     connection, last, torn>>
  BY DEF ReadFails, readerVars, peerVars, historyVars
<1>2. /\ QueueInv'
      /\ Queued("read")' = Queued("read") /\ Queued("connected")' = Queued("connected")
      /\ Queued("read_error")' # {}
  BY <1>1, OtherQueued
<1>3. SentOK' /\ BytesOK'
  <2>1. RealByte(last')
    BY <1>1 DEF StreamInv, BytesOK
  <2>2. QED BY <1>1, <2>1, BytesKept
<1>4. BufferReal'
  BY <1>1, RealBuffer, BufferKept DEF RoomLeft
<1>5. FieldsOK' /\ LinkInv' /\ ReadInv' /\ KeepsReading'
  BY <1>1, <1>2 DEF StreamInv, FieldsOK, LinkInv, ReadInv, KeepsReading
<1>6. QED BY <1>2, <1>3, <1>4, <1>5 DEF StreamInv

LEMMA LinkBreaksKeeps ==
  ASSUME StreamInv, LinkBreaks
  PROVE  StreamInv'
<1>1. /\ link = "up" /\ link' = "down" /\ writes' = <<>>
      /\ UNCHANGED <<connect_state, read_pending, read_buf, slab, ioq, wire, sent,
                     connection, last, torn>>
  BY DEF LinkBreaks, readerVars, historyVars
<1>2. SentOK' /\ BytesOK'
  <2>1. RealByte(last')
    BY <1>1 DEF StreamInv, BytesOK
  <2>2. QED BY <1>1, <2>1, BytesKept
<1>3. BufferReal'
  BY <1>1, RealBuffer, BufferKept DEF RoomLeft
<1>4. QueueInv'
  BY <1>1 DEF StreamInv, QueueInv, Once, Queued
<1>5. FieldsOK' /\ LinkInv' /\ ReadInv' /\ KeepsReading'
  BY <1>1 DEF StreamInv, FieldsOK, LinkInv, ReadInv, KeepsReading, Queued
<1>6. QED BY <1>2, <1>3, <1>4, <1>5 DEF StreamInv

LEMMA DoConnectKeeps ==
  ASSUME StreamInv, DoConnect
  PROVE  StreamInv'
<1>1. /\ connect_state = "disconnected" /\ connection < MaxConnections
      /\ Queued("connected") = {}
      /\ connect_state' = "connecting" /\ link' = "opening"
      /\ UNCHANGED <<read_pending, read_buf, slab, ioq, wire, writes, sent,
                     connection, last, torn>>
  BY DEF DoConnect, peerVars, historyVars
<1>2. SentOK' /\ BytesOK'
  <2>1. RealByte(last')
    BY <1>1 DEF StreamInv, BytesOK
  <2>2. QED BY <1>1, <2>1, BytesKept
<1>3. BufferReal'
  BY <1>1, RealBuffer, BufferKept DEF RoomLeft
<1>4. QueueInv' /\ Queued("connected")' = {}
  BY <1>1 DEF StreamInv, QueueInv, Once, Queued
<1>5. FieldsOK' /\ LinkInv'
  BY <1>1, <1>4 DEF StreamInv, FieldsOK, LinkInv
<1>6. ReadInv' /\ KeepsReading'
  BY <1>1 DEF StreamInv, ReadInv, KeepsReading, FieldsOK
<1>7. QED BY <1>2, <1>3, <1>4, <1>5, <1>6 DEF StreamInv

LEMMA ConnectDoneKeeps ==
  ASSUME StreamInv, ConnectDone
  PROVE  StreamInv'
<1>1. /\ link = "opening" /\ link' = "up" /\ connection' = connection + 1
      /\ ioq' = Append(ioq, [op |-> "connected"])
      /\ UNCHANGED <<connect_state, read_pending, read_buf, slab, wire, writes, sent,
                     last, torn>>
  BY DEF ConnectDone, readerVars, peerVars
<1>2. /\ connect_state = "connecting" /\ Queued("connected") = {}
      /\ connection \in 0..MaxConnections /\ connection < MaxConnections
      /\ slab = {} /\ read_pending = FALSE
  BY <1>1 DEF StreamInv, LinkInv, ReadInv, FieldsOK
<1>3. SentOK' /\ BytesOK'
  <2>1. RealByte(last')
    BY <1>1 DEF StreamInv, BytesOK
  <2>2. QED BY <1>1, <2>1, BytesKept
<1>4. BufferReal'
  BY <1>1, RealBuffer, BufferKept DEF RoomLeft
<1>5. QueueInv'
  <2>1. PICK h \in Handlers : h = [op |-> "connected"] /\ h.op = "connected"
    <3>1. [op |-> "connected"] \in Handlers
      BY DEF Handlers
    <3>2. QED BY <3>1
  <2>2. QueueInv
    BY DEF StreamInv
  <2>3. /\ ioq' \in Seq(Handlers) /\ Len(ioq) \in Nat
        /\ Queued("connected")' = {Len(ioq) + 1}
        /\ Queued("read")' = Queued("read")
        /\ \A n \in 1..Len(ioq) : ioq'[n] = ioq[n]
        /\ Queued("read") \subseteq 1..Len(ioq)
    BY <1>1, <1>2, <2>1, <2>2, Enqueued
  <2>4. \A m \in Queued("read")', n \in Queued("connected")' : m < n
    BY <2>3
  <2>5. \A m \in Queued("read")' : ioq'[m].length <= FreeSize(read_buf')
    BY <1>1, <2>2, <2>3 DEF QueueInv
  <2>6. QED BY <2>2, <2>3, <2>4, <2>5 DEF QueueInv, Once
<1>6. connection' \in 0..MaxConnections /\ connection' > 0
  BY <1>1, <1>2, Constants
<1>7. FieldsOK' /\ LinkInv'
  BY <1>1, <1>2, <1>6 DEF StreamInv, FieldsOK, LinkInv
<1>8. ReadInv' /\ KeepsReading'
  BY <1>1, <1>2 DEF ReadInv, KeepsReading
<1>9. QED BY <1>3, <1>4, <1>5, <1>7, <1>8 DEF StreamInv

-----------------------------------------------------------------------------
(* The peer and the network.                                               *)

LEMMA Slice ==
  ASSUME NEW S, NEW q \in Seq(S), NEW m \in Nat, NEW n \in Nat,
         1 <= m, m <= n + 1, n <= Len(q)
  PROVE  /\ SubSeq(q, m, n) \in Seq(S) /\ Len(SubSeq(q, m, n)) = n - m + 1
         /\ \A i \in 1..(n - m + 1) : SubSeq(q, m, n)[i] = q[m + i - 1]
  OBVIOUS

LEMMA Longer ==
  ASSUME NEW S, NEW q \in Seq(S), NEW e \in S
  PROVE  /\ Append(q, e) \in Seq(S) /\ Len(q) \in Nat
         /\ Len(Append(q, e)) = Len(q) + 1 /\ Append(q, e)[Len(q) + 1] = e
         /\ \A m \in 1..Len(q) : Append(q, e)[m] = q[m]
  OBVIOUS

LEMMA JoinedReal ==
  ASSUME NEW p \in Seq(Byte), NEW q \in Seq(Byte),
         \A i \in 1..Len(p) : RealByte(p[i]), \A i \in 1..Len(q) : RealByte(q[i])
  PROVE  p \o q \in Seq(Byte) /\ \A i \in 1..Len(p \o q) : RealByte((p \o q)[i])
<1>1. /\ p \o q \in Seq(Byte) /\ Len(p) \in Nat /\ Len(q) \in Nat
      /\ Len(p \o q) = Len(p) + Len(q)
      /\ \A i \in 1..Len(p) : (p \o q)[i] = p[i]
      /\ \A i \in 1..Len(q) : (p \o q)[Len(p) + i] = q[i]
  BY Joined
<1>2. \A i \in 1..Len(p \o q) : i \in 1..Len(p) \/ \E k \in 1..Len(q) : i = Len(p) + k
  <2>1. ASSUME NEW i \in 1..Len(p \o q), ~(i \in 1..Len(p))
        PROVE  i - Len(p) \in 1..Len(q) /\ i = Len(p) + (i - Len(p))
    BY <1>1, <2>1
  <2>2. QED BY <2>1
<1>3. QED BY <1>1, <1>2

LEMMA WriteKeeps ==
  ASSUME StreamInv, NEW body \in Bodies, Write(body)
  PROVE  StreamInv'
<1>1. /\ link = "up" /\ Len(sent) < MaxPackets
      /\ sent' = Append(sent, [body |-> body, connection |-> connection])
      /\ writes' = Append(writes, [id |-> Len(sent'), next |-> 1])
      /\ UNCHANGED <<connect_state, read_pending, read_buf, slab, ioq, link, wire,
                     connection, last, torn>>
  BY DEF Write, readerVars, historyVars
<1>2. PICK packet \in [body : Bodies, connection : 1..MaxConnections] :
        packet = [body |-> body, connection |-> connection] /\ packet.body = body
  <2>1. connection \in 1..MaxConnections
    BY <1>1, Constants DEF StreamInv, LinkInv, FieldsOK
  <2>2. PICK packet : packet = [body |-> body, connection |-> connection]
    OBVIOUS
  <2>3. /\ packet \in [body : Bodies, connection : 1..MaxConnections]
        /\ packet.body = body
    BY <2>1, <2>2
  <2>4. QED BY <2>2, <2>3
<1>3. SentOK /\ BytesOK /\ Len(sent) \in Nat
  BY DEF StreamInv, SentOK
<1>4. /\ SentOK' /\ Len(sent') = Len(sent) + 1
      /\ sent'[Len(sent')] = packet
      /\ \A b : RealByte(b) => RealByte(b)'
      /\ \A w : Progress(w) => Progress(w)'
  BY <1>1, <1>2, <1>3, SentMore
<1>5. PICK w \in [id : Nat, next : Nat] : /\ w = [id |-> Len(sent'), next |-> 1]
                                          /\ w.id = Len(sent') /\ w.next = 1
  <2>1. PICK w : w = [id |-> Len(sent'), next |-> 1]
    OBVIOUS
  <2>2. Len(sent') \in Nat
    BY <1>3, <1>4
  <2>3. w \in [id : Nat, next : Nat] /\ w.id = Len(sent') /\ w.next = 1
    BY <2>1, <2>2
  <2>4. QED BY <2>1, <2>3
<1>6. Progress(w)'
  <2>1. PICK id \in Nat : id = Len(sent') /\ id \in 1..Len(sent') /\ sent'[id] = packet
    <3>1. Len(sent') \in Nat /\ Len(sent') \in 1..Len(sent')
      BY <1>3, <1>4
    <3>2. QED BY <1>4, <3>1
  <2>2. PacketLength(id)' = HeaderLength + Len(body)
    BY <1>2, <2>1 DEF PacketLength
  <2>3. Len(body) \in Nat /\ 1 \in 1..(HeaderLength + Len(body))
    BY Constants
  <2>4. QED BY <1>5, <2>1, <2>2, <2>3 DEF Progress
<1>7. BytesOK'
  <2>1. PICK new : new = writes'
    OBVIOUS
  <2>2. writes \in Seq([id : Nat, next : Nat]) /\ new = Append(writes, w)
    BY <1>1, <1>3, <1>5, <2>1 DEF BytesOK
  <2>3. /\ new \in Seq([id : Nat, next : Nat]) /\ Len(writes) \in Nat
        /\ Len(new) = Len(writes) + 1 /\ new[Len(writes) + 1] = w
        /\ \A n \in 1..Len(writes) : new[n] = writes[n]
    BY <2>2, Longer
  <2>4. \A n \in 1..Len(new) : n \in 1..Len(writes) \/ n = Len(writes) + 1
    BY <2>3
  <2>5. \A n \in 1..Len(writes) : Progress(writes[n])
    BY <1>3 DEF BytesOK
  <2>6. \A n \in 1..Len(writes) : Progress(new[n])
    BY <2>3, <2>5
  <2>7. \A n \in 1..Len(new) : Progress(new[n])'
    BY <1>4, <1>6, <2>3, <2>4, <2>6
  <2>8. (\A n \in 1..Len(writes) : Progress(writes[n]))'
    BY <2>1, <2>7
  <2>9. wire' \in Seq(Byte) /\ (\A n \in 1..Len(wire) : RealByte(wire[n]))' /\ RealByte(last)'
    BY <1>1, <1>3, <1>4 DEF BytesOK
  <2>10. QED BY <2>1, <2>3, <2>8, <2>9 DEF BytesOK
<1>8. BufferReal'
  BY <1>1, <1>4, RealBuffer DEF BufferReal, AllReal, RoomLeft
<1>9. QueueInv'
  BY <1>1 DEF StreamInv, QueueInv, Once, Queued
<1>10. FieldsOK' /\ LinkInv' /\ ReadInv' /\ KeepsReading'
  BY <1>1 DEF StreamInv, FieldsOK, LinkInv, ReadInv, KeepsReading, Queued
<1>11. QED BY <1>4, <1>7, <1>8, <1>9, <1>10 DEF StreamInv

LEMMA TransmitKeeps ==
  ASSUME StreamInv, NEW n \in 1..(HeaderLength + MaxBodyLength), Transmit(n)
  PROVE  StreamInv'
<1>1. SentOK /\ BytesOK
  BY DEF StreamInv
<1>2. PICK w \in [id : Nat, next : Nat] : w = Head(writes) /\ Progress(w)
  <2>1. /\ writes \in Seq([id : Nat, next : Nat]) /\ writes # <<>>
        /\ \A i \in 1..Len(writes) : Progress(writes[i])
    BY <1>1 DEF Transmit, BytesOK
  <2>2. 1 \in 1..Len(writes) /\ Head(writes) = writes[1]
    BY <2>1
  <2>3. Head(writes) \in [id : Nat, next : Nat]
    BY <2>1, <2>2, Element
  <2>4. QED BY <2>1, <2>2, <2>3
<1>3. PICK id \in 1..Len(sent) : id = w.id
  BY <1>2 DEF Progress
<1>4. PICK length \in Nat : length = PacketLength(id)
  BY <1>1, PacketFits, Constants
<1>5. PICK next \in 1..length : next = w.next
  BY <1>2, <1>3, <1>4 DEF Progress
<1>6. PICK image \in Seq(Byte) : /\ image = Image(w.id) /\ Len(image) = length
                                 /\ \A i \in 1..length : RealByte(image[i])
  <2>1. Image(w.id) = [i \in 1..length |-> <<id, i>>]
    BY <1>3, <1>4 DEF Image
  <2>2. \A i \in 1..length : RealByte(<<id, i>>) /\ <<id, i>> \in Byte
    BY <1>1, <1>4, WrittenReal DEF RealByte
  <2>3. [i \in 1..length |-> <<id, i>>] \in Seq(Byte)
    BY <1>4, <2>2
  <2>4. PICK q \in Seq(Byte) : q = [i \in 1..length |-> <<id, i>>]
    BY <2>3
  <2>5. Len(q) = length /\ \A i \in 1..length : q[i] = <<id, i>>
    BY <1>4, <2>4
  <2>6. QED BY <2>1, <2>2, <2>4, <2>5
<1>7. /\ n <= length - next + 1
      /\ wire' = wire \o SubSeq(image, next, next + n - 1)
      /\ writes' = IF n = length - next + 1
                   THEN Tail(writes)
                   ELSE Append(Tail(writes), [w EXCEPT !.next = next + n])
      /\ UNCHANGED <<connect_state, read_pending, read_buf, slab, ioq, link, sent,
                     connection, last, torn>>
  BY <1>2, <1>5, <1>6 DEF Transmit, readerVars, historyVars
<1>8. /\ n \in Nat /\ n > 0 /\ next \in Nat /\ 1 <= next /\ next <= length
      /\ next + n <= length + 1
  <2>1. n \in Nat /\ n > 0
    BY Constants
  <2>2. n <= length - next + 1
    BY <1>7
  <2>3. QED BY <1>4, <1>5, <2>1, <2>2
<1>9. wire' \in Seq(Byte) /\ \A i \in 1..Len(wire') : RealByte(wire'[i])
  <2>1. PICK upto \in Nat : upto = next + n - 1 /\ next <= upto + 1 /\ upto <= length
    <3>1. next + n - 1 \in Nat /\ next <= next + n - 1 + 1 /\ next + n - 1 <= length
      BY <1>4, <1>8
    <3>2. QED BY <3>1
  <2>2. PICK bytes : bytes = SubSeq(image, next, upto)
    OBVIOUS
  <2>3. /\ bytes \in Seq(Byte) /\ Len(bytes) = upto - next + 1
        /\ \A i \in 1..(upto - next + 1) : bytes[i] = image[next + i - 1]
    BY <1>6, <1>8, <2>1, <2>2, Slice
  <2>4. \A i \in 1..Len(bytes) : RealByte(bytes[i])
    <3>1. \A i \in 1..(upto - next + 1) : next + i - 1 \in 1..length
      BY <1>4, <1>8, <2>1
    <3>2. QED BY <1>6, <2>3, <3>1
  <2>5. wire \in Seq(Byte) /\ \A i \in 1..Len(wire) : RealByte(wire[i])
    BY <1>1 DEF BytesOK
  <2>6. wire' = wire \o bytes
    BY <1>7, <2>1, <2>2
  <2>7. QED BY <2>3, <2>4, <2>5, <2>6, JoinedReal
<1>10. /\ writes' \in Seq([id : Nat, next : Nat])
       /\ \A i \in 1..Len(writes') : Progress(writes'[i])
  <2>1. /\ writes \in Seq([id : Nat, next : Nat]) /\ writes # <<>>
        /\ \A i \in 1..Len(writes) : Progress(writes[i])
    BY <1>1 DEF Transmit, BytesOK
  <2>2. PICK rest : rest = Tail(writes)
    OBVIOUS
  <2>3. /\ rest \in Seq([id : Nat, next : Nat]) /\ Len(writes) \in Nat \ {0}
        /\ Len(rest) = Len(writes) - 1
        /\ \A i \in 1..Len(rest) : rest[i] = writes[i + 1]
    BY <2>1, <2>2
  <2>4. \A i \in 1..Len(rest) : Progress(rest[i])
    <3>1. \A i \in 1..Len(rest) : i + 1 \in 1..Len(writes)
      BY <2>3
    <3>2. QED BY <2>1, <2>3, <3>1
  <2>5. CASE n = length - next + 1
    BY <1>7, <2>2, <2>3, <2>4, <2>5
  <2>6. CASE n # length - next + 1
    <3>1. next + n \in 1..length
      BY <1>4, <1>8, <2>6
    <3>2. PICK v \in [id : Nat, next : Nat] : /\ v = [w EXCEPT !.next = next + n]
                                              /\ v.id = w.id /\ v.next = next + n
      <4>1. PICK v : v = [w EXCEPT !.next = next + n]
        OBVIOUS
      <4>2. v \in [id : Nat, next : Nat] /\ v.id = w.id /\ v.next = next + n
        BY <1>4, <3>1, <4>1
      <4>3. QED BY <4>1, <4>2
    <3>3. Progress(v)
      BY <1>3, <1>4, <3>1, <3>2 DEF Progress
    <3>4. writes' = Append(rest, v)
      BY <1>7, <2>2, <2>6, <3>2
    <3>5. /\ writes' \in Seq([id : Nat, next : Nat]) /\ Len(rest) \in Nat
          /\ Len(writes') = Len(rest) + 1 /\ writes'[Len(rest) + 1] = v
          /\ \A i \in 1..Len(rest) : writes'[i] = rest[i]
      BY <2>3, <3>4, Longer
    <3>6. \A i \in 1..Len(writes') : i \in 1..Len(rest) \/ i = Len(rest) + 1
      BY <3>5
    <3>7. QED BY <2>4, <3>3, <3>5, <3>6
  <2>7. QED BY <2>5, <2>6
<1>11. BytesOK' /\ SentOK'
  <2>1. RealByte(last)
    BY <1>1 DEF BytesOK
  <2>2. QED BY <1>1, <1>7, <1>9, <1>10, <2>1, SentSame DEF BytesOK
<1>12. BufferReal'
  BY <1>7, RealBuffer, BufferKept DEF RoomLeft
<1>13. QueueInv'
  BY <1>7 DEF StreamInv, QueueInv, Once, Queued
<1>14. FieldsOK' /\ LinkInv' /\ ReadInv' /\ KeepsReading'
  BY <1>7 DEF StreamInv, FieldsOK, LinkInv, ReadInv, KeepsReading, Queued
<1>15. QED BY <1>11, <1>12, <1>13, <1>14 DEF StreamInv

LEMMA ReadReadyKeeps ==
  ASSUME StreamInv, ReadReady
  PROVE  StreamInv'
<1>1. SentOK /\ BytesOK /\ QueueInv /\ BufferOK(read_buf) /\ AllReal(read_buf)
  BY RealBuffer DEF StreamInv
<1>2. PICK size \in 1..FreeSize(read_buf) : slab = SlabOf(read_buf, size)
  BY DEF StreamInv, ReadInv, ReadReady
<1>3. connect_state = "connected" /\ Queued("read") = {} /\ Queued("connected") = {}
  BY <1>2 DEF StreamInv, ReadInv, LinkInv, SlabOf
<1>4. PICK n \in Nat : n = IF Len(wire) < size THEN Len(wire) ELSE size
  BY <1>1, <1>2, RealBuffer DEF BytesOK
<1>5. /\ read_buf' = Filled(read_buf, read_buf.tail, SubSeq(wire, 1, n))
      /\ wire' = SubSeq(wire, n + 1, Len(wire))
      /\ ioq' = Append(ioq, [op |-> "read", length |-> n])
      /\ slab' = {}
      /\ UNCHANGED <<connect_state, read_pending, link, writes, sent,
                     connection, last, torn>>
  <2>1. /\ slab' = {}
        /\ UNCHANGED <<connect_state, read_pending, link, writes, sent,
                       connection, last, torn>>
    BY DEF ReadReady, historyVars
  <2>2. PICK slot : slot = [at |-> read_buf.tail, size |-> size]
    OBVIOUS
  <2>3. slab = {slot} /\ slot.at = read_buf.tail /\ slot.size = size
    BY <1>2, <2>2 DEF SlabOf
  <2>4. QED BY <1>4, <2>1, <2>3 DEF ReadReady
<1>6. /\ wire \in Seq(Byte) /\ Len(wire) \in Nat \ {0} /\ n \in 1..Len(wire)
      /\ n \in 1..FreeSize(read_buf)
  <2>1. wire \in Seq(Byte) /\ wire # <<>>
    BY <1>1 DEF BytesOK, ReadReady
  <2>2. Len(wire) \in Nat \ {0}
    BY <2>1
  <2>3. QED BY <1>2, <1>4, <2>1, <2>2, RealBuffer
<1>7. \A i \in 1..Len(wire) : RealByte(wire[i])
  BY <1>1 DEF BytesOK
<1>8. PICK bytes \in Seq(Byte) : /\ bytes = SubSeq(wire, 1, n) /\ Len(bytes) = n
                                 /\ \A i \in 1..Len(bytes) : RealByte(bytes[i])
  <2>1. PICK bytes : bytes = SubSeq(wire, 1, n)
    OBVIOUS
  <2>2. /\ bytes \in Seq(Byte) /\ Len(bytes) = n
        /\ \A i \in 1..n : bytes[i] = wire[i]
    <3>1. /\ n \in Nat /\ 1 <= n + 1 /\ n <= Len(wire) /\ n - 1 + 1 = n
          /\ \A i \in 1..n : 1 + i - 1 = i
      BY <1>6
    <3>2. QED BY <1>6, <2>1, <3>1, Slice
  <2>3. \A i \in 1..n : i \in 1..Len(wire)
    BY <1>6
  <2>4. QED BY <1>7, <2>1, <2>2, <2>3
<1>9. /\ BufferOK(read_buf') /\ AllReal(read_buf') /\ Size(read_buf') = Size(read_buf)
      /\ FreeSize(read_buf') = FreeSize(read_buf)
      /\ read_buf'.tail = read_buf.tail
  <2>1. Len(bytes) <= FreeSize(read_buf)
    BY <1>6, <1>8, RealBuffer
  <2>2. /\ BufferOK(read_buf') /\ AllReal(read_buf') /\ Size(read_buf') = Size(read_buf)
        /\ read_buf'.tail = read_buf.tail
    BY <1>1, <1>5, <1>8, <2>1, FilledReal
  <2>3. QED BY <2>2 DEF FreeSize
<1>10. wire' \in Seq(Byte) /\ \A i \in 1..Len(wire') : RealByte(wire'[i])
  <2>1. PICK l \in Nat : l = Len(wire) /\ n <= l /\ n \in Nat
    BY <1>6
  <2>2. /\ wire' \in Seq(Byte) /\ Len(wire') = l - n
        /\ \A i \in 1..(l - n) : wire'[i] = wire[n + i]
    <3>1. /\ n + 1 \in Nat /\ 1 <= n + 1 /\ n + 1 <= l + 1 /\ l - (n + 1) + 1 = l - n
          /\ \A i \in 1..(l - n) : (n + 1) + i - 1 = n + i
      BY <2>1
    <3>2. QED BY <1>5, <1>6, <2>1, <3>1, Slice
  <2>3. \A i \in 1..(l - n) : n + i \in 1..l
    BY <2>1
  <2>4. QED BY <1>7, <2>1, <2>2, <2>3
<1>11. SentOK' /\ BytesOK'
  BY <1>1, <1>5, <1>10, SentSame DEF BytesOK
<1>12. BufferReal'
  BY <1>5, <1>9, RealBuffer, BufferKept DEF RoomLeft
<1>13. QueueInv' /\ Queued("read")' # {} /\ Queued("connected")' = {}
  <2>1. PICK h \in Handlers : /\ h = [op |-> "read", length |-> n]
                              /\ h.op = "read" /\ h.length = n
    <3>1. PICK h : h = [op |-> "read", length |-> n]
      OBVIOUS
    <3>2. n \in 1..BufferLength
      BY <1>6, RealBuffer, Constants
    <3>3. h \in Handlers /\ h.op = "read" /\ h.length = n
      BY <3>1, <3>2 DEF Handlers
    <3>4. QED BY <3>1, <3>3
  <2>2. /\ ioq' \in Seq(Handlers)
        /\ Queued("read")' = {Len(ioq) + 1}
        /\ Queued("connected")' = {}
        /\ ioq'[Len(ioq) + 1] = h
    BY <1>1, <1>3, <1>5, <2>1, Enqueued
  <2>3. n <= FreeSize(read_buf')
    BY <1>6, <1>9
  <2>4. QED BY <2>1, <2>2, <2>3 DEF QueueInv, Once
<1>14. FieldsOK' /\ LinkInv' /\ ReadInv' /\ KeepsReading'
  BY <1>3, <1>5, <1>13 DEF StreamInv, FieldsOK, LinkInv, ReadInv, KeepsReading
<1>15. QED BY <1>11, <1>12, <1>13, <1>14 DEF StreamInv

-----------------------------------------------------------------------------
(* The theorems.                                                           *)

LEMMA StreamStarts ==
  ASSUME Init
  PROVE  StreamInv
<1>1. /\ connect_state = "disconnected" /\ read_pending = FALSE
      /\ read_buf = Fresh(NoByte) /\ slab = {} /\ ioq = <<>> /\ link = "closed"
      /\ wire = <<>> /\ writes = <<>> /\ sent = <<>> /\ connection = 0
      /\ last = NoByte /\ torn = FALSE
  BY DEF Init
<1>2. SentOK
  <2>1. <<>> \in Seq([body : Bodies, connection : 1..MaxConnections]) /\ Len(<<>>) = 0
    OBVIOUS
  <2>2. QED BY <1>1, <2>1, Constants DEF SentOK
<1>3. FieldsOK
  <2>1. 0 \in 0..MaxConnections
    BY Constants
  <2>2. read_pending \in BOOLEAN /\ torn \in BOOLEAN
    BY <1>1
  <2>3. QED BY <1>1, <2>1, <2>2 DEF FieldsOK
<1>4. BytesOK
  <2>1. <<>> \in Seq(Byte) /\ <<>> \in Seq([id : Nat, next : Nat]) /\ Len(<<>>) = 0
    OBVIOUS
  <2>2. QED BY <1>1, <2>1, NoByteReal DEF BytesOK
<1>5. BufferReal
  <2>1. NoByte \in Byte /\ RealByte(NoByte)
    BY NoByteReal DEF RealByte
  <2>2. PICK cells : cells = [c \in Cells |-> NoByte]
    OBVIOUS
  <2>3. read_buf = [cells |-> cells, head |-> 0, tail |-> 0]
    BY <1>1, <2>2 DEF Fresh
  <2>4. cells \in [Cells -> Byte] /\ 0 \in 0..BufferLength
    BY <2>1, <2>2, Constants
  <2>5. BufferOK(read_buf)
    BY <2>3, <2>4 DEF BufferOK, Buffers
  <2>6. AllReal(read_buf)
    BY <2>1, <2>2, <2>3 DEF AllReal
  <2>7. QED BY <2>3, <2>5, <2>6, Constants DEF BufferReal, RoomLeft, Size
<1>6. QueueInv /\ \A op : Queued(op) = {}
  <2>1. <<>> \in Seq(Handlers) /\ 1..Len(<<>>) = {}
    OBVIOUS
  <2>2. \A op : Queued(op) = {}
    BY <1>1, <2>1 DEF Queued
  <2>3. QED BY <1>1, <2>1, <2>2 DEF QueueInv, Once
<1>7. LinkInv /\ ReadInv /\ KeepsReading
  BY <1>1 DEF LinkInv, ReadInv, KeepsReading
<1>8. QED BY <1>2, <1>3, <1>4, <1>5, <1>6, <1>7 DEF StreamInv

LEMMA StreamSteps ==
  ASSUME StreamInv, [Next]_vars
  PROVE  StreamInv'
<1>1. CASE RunRead
  BY <1>1, RunReadKeeps
<1>2. CASE RunReadError
  BY <1>2, RunReadErrorKeeps
<1>3. CASE RunWriteError
  BY <1>3, RunWriteErrorKeeps
<1>4. CASE RunStop
  BY <1>4, RunStopKeeps
<1>5. CASE RunConnected
  BY <1>5, RunConnectedKeeps
<1>6. CASE CallStop \/ WriteFails
  BY <1>6, QueuesKeeps
<1>7. CASE DoConnect
  BY <1>7, DoConnectKeeps
<1>8. CASE ConnectDone
  BY <1>8, ConnectDoneKeeps
<1>9. CASE \E body \in Bodies : Write(body)
  BY <1>9, WriteKeeps
<1>10. CASE \E n \in 1..(HeaderLength + MaxBodyLength) : Transmit(n)
  BY <1>10, TransmitKeeps
<1>11. CASE ReadReady
  BY <1>11, ReadReadyKeeps
<1>12. CASE LinkBreaks
  BY <1>12, LinkBreaksKeeps
<1>13. CASE ReadFails
  BY <1>13, ReadFailsKeeps
<1>14. CASE UNCHANGED vars
  <2>1. UNCHANGED <<connect_state, read_pending, read_buf, slab, ioq, link, wire, writes,
                    sent, connection, last, torn>>
    BY <1>14 DEF vars, readerVars, peerVars, historyVars
  <2>2. SentOK' /\ BytesOK'
    <3>1. RealByte(last')
      BY <2>1 DEF StreamInv, BytesOK
    <3>2. QED BY <2>1, <3>1, BytesKept
  <2>3. BufferReal'
    BY <2>1, RealBuffer, BufferKept DEF RoomLeft
  <2>4. FieldsOK' /\ LinkInv' /\ ReadInv' /\ QueueInv' /\ KeepsReading'
    BY <2>1 DEF StreamInv, FieldsOK, LinkInv, ReadInv, QueueInv, KeepsReading, Once, Queued
  <2>5. QED BY <2>2, <2>3, <2>4 DEF StreamInv
<1>15. QED
  BY <1>1, <1>2, <1>3, <1>4, <1>5, <1>6, <1>7, <1>8, <1>9, <1>10, <1>11, <1>12, <1>13,
     <1>14 DEF Next

LEMMA StreamInvariant == Spec => []StreamInv
  BY StreamStarts, StreamSteps, PTL DEF Spec

\* The invariant gives the types.
LEMMA StreamTypes ==
  ASSUME StreamInv
  PROVE  TypeOK
<1>1. SentOK /\ FieldsOK /\ BytesOK /\ BufferOK(read_buf) /\ ioq \in Seq(Handlers)
  BY DEF StreamInv, BufferReal, QueueInv
<1>2. /\ slab \in SUBSET [at : 0..BufferLength, size : 1..BufferLength]
      /\ \A s \in slab : s.at = read_buf.tail /\ s.size <= FreeSize(read_buf)
  <2>1. CASE slab = {}
    BY <2>1
  <2>2. CASE slab # {}
    <3>1. PICK size \in 1..FreeSize(read_buf) : slab = SlabOf(read_buf, size)
      BY <2>2 DEF StreamInv, ReadInv
    <3>2. read_buf.tail \in 0..BufferLength
      BY <1>1, BufferFields
    <3>3. size \in 1..BufferLength /\ size <= FreeSize(read_buf)
      BY <3>1, RealBuffer, Constants
    <3>4. PICK slot : slot = [at |-> read_buf.tail, size |-> size]
      OBVIOUS
    <3>5. /\ slot \in [at : 0..BufferLength, size : 1..BufferLength]
          /\ slot.at = read_buf.tail /\ slot.size = size
      BY <3>2, <3>3, <3>4
    <3>6. slab = {slot}
      BY <3>1, <3>4 DEF SlabOf
    <3>7. QED BY <3>3, <3>5, <3>6
  <2>3. QED BY <2>1, <2>2
<1>3. writes \in Seq([id : 1..Len(sent), next : 1..MaxBodyLength])
  <2>1. PICK S : S = [id : 1..Len(sent), next : 1..MaxBodyLength]
    OBVIOUS
  <2>2. writes \in Seq([id : Nat, next : Nat]) /\ \A n \in 1..Len(writes) : Progress(writes[n])
    BY <1>1 DEF BytesOK
  <2>3. \A n \in 1..Len(writes) : writes[n] \in S
    <3>1. ASSUME NEW n \in 1..Len(writes) PROVE writes[n] \in S
      <4>1. PICK w \in [id : Nat, next : Nat] : w = writes[n] /\ Progress(w)
        BY <2>2, Element
      <4>2. PICK id \in 1..Len(sent) : id = w.id /\ w.next \in 1..PacketLength(id)
        BY <4>1 DEF Progress
      <4>3. PacketLength(id) \in Nat /\ PacketLength(id) <= MaxBodyLength
        BY <1>1, PacketFits, Constants
      <4>4. w.next \in 1..MaxBodyLength
        BY <4>2, <4>3, Constants
      <4>5. QED BY <2>1, <4>1, <4>2, <4>4
    <3>2. QED BY <3>1
  <2>4. writes \in Seq(S)
    BY <2>2, <2>3
  <2>5. QED BY <2>1, <2>4
<1>4. last \in Byte /\ wire \in Seq(Byte)
  BY <1>1 DEF BytesOK, RealByte
<1>5. sent \in Seq([body : Bodies, connection : 1..MaxConnections])
  BY <1>1 DEF SentOK
<1>6. QED BY <1>1, <1>2, <1>3, <1>4, <1>5 DEF TypeOK, FieldsOK

(* Every variable keeps its type: the buffer stays consistent, and the     *)
(* slab that an outstanding async_read_some writes into is the free space  *)
(* behind the tail of read_buf_, however reads, parsing, closing and       *)
(* stopping interleave.                                                    *)
THEOREM StreamTypeOK == Spec => []TypeOK
  BY StreamInvariant, StreamTypes, PTL

(* A connected reader has a read outstanding or the completion of one      *)
(* queued (do_read_packet, on_read): whatever it receives, the parser      *)
(* leaves less than a header and the longest body in the buffer, so there  *)
(* is room for the next read, for buffers, headers and bodies of any       *)
(* length.                                                                 *)
THEOREM StreamKeepsReading == Spec => []KeepsReading
<1>1. StreamInv => KeepsReading
  BY DEF StreamInv
<1>2. QED BY <1>1, StreamInvariant, PTL
=============================================================================
