------------------------------ MODULE IoBuffer ------------------------------
(***************************************************************************)
(* io_buffer_view (io_buffer.hpp), the flat buffer between a socket and    *)
(* the packet parser, as operators on a record of its fields.  Cells and   *)
(* offsets count from 0, as in the code.                                   *)
(***************************************************************************)
EXTENDS Integers, Sequences

CONSTANTS
    BufferLength,  \* length_
    Byte           \* what a cell may hold

ASSUME BufferAssumption == BufferLength \in Nat \ {0}

Cells == 0..(BufferLength - 1)

Buffers == [cells : [Cells -> Byte], head : 0..BufferLength, tail : 0..BufferLength]

BufferOK(b) == b \in Buffers /\ b.head <= b.tail

Fresh(byte) == [cells |-> [c \in Cells |-> byte], head |-> 0, tail |-> 0]

Size(b) == b.tail - b.head
Capacity(b) == BufferLength - Size(b)
FreeSize(b) == BufferLength - b.tail

\* The bytes that were committed and not consumed.
Contents(b) == [i \in 1..Size(b) |-> b.cells[b.head + i - 1]]

\* Mutant: memmove starts at the beginning of the buffer.
CompactedInPlace(b) == [b EXCEPT !.head = 0, !.tail = Size(b)]

\* memmove to the front: the cells behind the new tail keep what they had.
Compacted(b) ==
    [cells |-> [c \in Cells |-> IF c < Size(b) THEN b.cells[b.head + c]
                                               ELSE b.cells[c]],
     head  |-> 0,
     tail  |-> Size(b)]

\* Mutant: room is made only for what could not fit anyway.
PreparedInPlace(b, n) == IF n > Capacity(b) THEN Compacted(b) ELSE b

\* prepare(n) makes room if it must, and offers a slab of up to n cells.
Prepared(b, n) == IF n > FreeSize(b) THEN Compacted(b) ELSE b
SlabSize(b, n) == IF n > Capacity(b) THEN Capacity(b) ELSE n

\* The owner of the slab fills it from cell at on.
Filled(b, at, bytes) ==
    [b EXCEPT !.cells = [c \in Cells |-> IF c \in at..(at + Len(bytes) - 1)
                                         THEN bytes[c - at + 1]
                                         ELSE b.cells[c]]]

Committed(b, n) == [b EXCEPT !.tail = b.tail + n]

\* An empty buffer starts over at its first cell.
Consumed(b, n) ==
    IF b.head + n >= b.tail THEN [b EXCEPT !.head = 0, !.tail = 0]
                            ELSE [b EXCEPT !.head = b.head + n]

Cleared(b) == [b EXCEPT !.head = 0, !.tail = 0]
=============================================================================
