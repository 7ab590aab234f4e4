---------------------------- MODULE PacketStream ----------------------------
(***************************************************************************)
(* How packets travel as bytes: packet_t (packet.hpp/.cpp) is written with *)
(* asio::async_write, read in pieces into read_buf_, an io_buffer, and     *)
(* parsed there.  The reader is reliable_tcp_client_t with do_close,       *)
(* do_connect and stop_impl; a session reads in the same way and never     *)
(* connects again.  The io thread runs its handlers in the order they are  *)
(* queued in ioq.                                                          *)
(*                                                                         *)
(* A byte is known by the packet it was written for and its place in it;   *)
(* its value is derived.  The header is its flag and the bytes that the    *)
(* CRC ties together: cmd, seq, is_push and body_len stand for the number  *)
(* of the packet and the length of its body.  The CRC is taken to detect   *)
(* what is not a header; bodies may contain bytes that look like one.      *)
(***************************************************************************)
EXTENDS IoBuffer, FiniteSets

CONSTANTS
    Bodies,          \* bodies the peer may send, as sequences of byte values
    HeaderLength,    \* header_length
    MaxBodyLength,   \* max_body_length
    MaxPackets,      \* bound: packets written
    MaxWrites,       \* bound: writes outstanding at once
    MaxConnections   \* bound: connections made

\* Values of bytes: packet_begin_flag, a byte of a body, and the last byte of
\* the header of packet id, which has a body of length len.  Bodies may spell
\* headers; no packet has the number 0.
Flag == <<"flag", 0, 0>>
Plain == <<"plain", 0, 0>>
Crc(id, len) == <<"crc", id, len>>
Values == {"flag", "plain", "crc"} \X Nat \X Nat

ASSUME StreamAssumption ==
    /\ HeaderLength \in Nat \ {0, 1} /\ MaxBodyLength \in Nat
    /\ HeaderLength + MaxBodyLength <= BufferLength
    /\ MaxPackets \in Nat /\ MaxWrites \in Nat /\ MaxConnections \in Nat
    /\ Bodies \subseteq Seq(Values)
    /\ \A body \in Bodies : HeaderLength + Len(body) <= MaxBodyLength
    /\ Byte = (0..MaxPackets) \X (0..(HeaderLength + MaxBodyLength))

VARIABLES
    \* Fields of the reader.
    connect_state, read_pending, read_buf,
    \* The outstanding async_read_some, at most one, as the slab it reads into.
    slab,
    \* Handlers that are ready to run, in order.
    ioq,
    \* The connection: its link, the bytes under way, and the writes that the
    \* peer has outstanding, each a packet and the number of its next byte.
    link, wire, writes,
    \* History: the packets written, each with its body and connection; the
    \* packets parsed, each with its number and the bytes of its body; the last
    \* byte committed, and whether the bytes committed were ever anything but
    \* whole packets one after the other.
    sent, connection, received, last, torn

readerVars == <<connect_state, read_pending, read_buf>>
peerVars == <<wire, writes, sent>>
historyVars == <<connection, received, last, torn>>
vars == <<readerVars, slab, ioq, link, peerVars, historyVars>>

-----------------------------------------------------------------------------
NoByte == <<0, 0>>

\* The packet of a byte, and its place.
Of(byte) == byte[1]
Place(byte) == byte[2]

PacketLength(id) == HeaderLength + Len(sent[id].body)

Image(id) == [i \in 1..PacketLength(id) |-> <<id, i>>]

Value(byte) ==
    IF byte = NoByte THEN Plain
    ELSE CASE Place(byte) = 1 -> Flag
           [] Place(byte) = HeaderLength ->
                Crc(Of(byte), Len(sent[Of(byte)].body))
           [] Place(byte) \in 2..(HeaderLength - 1) -> Plain
           [] OTHER -> sent[Of(byte)].body[Place(byte) - HeaderLength]

-----------------------------------------------------------------------------
(* parse_packet over a sequence of bytes, and the loop of process_packet   *)
(* around it.                                                              *)

IsFlag(bytes, p) == Value(bytes[p + 1]) = Flag

\* The value of the last byte of a header that begins after p bytes.
HeaderEnd(bytes, p) == Value(bytes[p + HeaderLength])

CrcMatches(bytes, p) == HeaderEnd(bytes, p)[1] = "crc"

\* Mutant: a body of any length is waited for.
TooLongNever(len) == FALSE

TooLong(len) == len > MaxBodyLength

Complete(bytes, p, len) == Len(bytes) - p >= HeaderLength + len

Nothing(p) == [consumed |-> p, packets |-> <<>>]

Parsed(bytes) ==
    LET from[p \in 0..Len(bytes)] ==
          IF p = Len(bytes) THEN Nothing(p)
          ELSE IF ~IsFlag(bytes, p) THEN from[p + 1]
          ELSE IF Len(bytes) - p < HeaderLength THEN Nothing(p)
          ELSE IF ~CrcMatches(bytes, p) THEN from[p + 1]
          ELSE LET id == HeaderEnd(bytes, p)[2]
                   len == HeaderEnd(bytes, p)[3]
                   end == p + HeaderLength + len
               IN  IF TooLong(len) THEN from[p + HeaderLength]
                   ELSE IF ~Complete(bytes, p, len) THEN Nothing(p)
                   ELSE [from[end] EXCEPT
                           !.packets =
                              <<[id |-> id,
                                 body |-> SubSeq(bytes, p + HeaderLength + 1,
                                                 end)]>> \o @]
    IN  from[0]

-----------------------------------------------------------------------------
Init ==
    /\ connect_state = "disconnected"
    /\ read_pending = FALSE
    /\ read_buf = Fresh(NoByte)
    /\ slab = {}
    /\ ioq = <<>>
    /\ link = "closed"
    /\ wire = <<>>
    /\ writes = <<>>
    /\ sent = <<>>
    /\ connection = 0
    /\ received = <<>>
    /\ last = NoByte
    /\ torn = FALSE

\* The handler of this kind that is next.
Runs(op) == ioq # <<>> /\ Head(ioq).op = op

Queued(op) == { n \in 1..Len(ioq) : ioq[n].op = op }

Queues(handlers) == ioq' = Tail(ioq) \o handlers

\* do_read_packet, with the buffer as the handler left it.
ReadSize(b) == IF FreeSize(b) > 0 THEN FreeSize(b) ELSE Capacity(b)

DoReadPacket(connected, pending, b) ==
    IF connected /\ ~pending /\ ReadSize(b) > 0
    THEN LET n == ReadSize(b)
             ready == Prepared(b, n)
         IN  /\ read_pending' = TRUE
             /\ read_buf' = ready
             /\ slab' = {[at |-> ready.tail, size |-> SlabSize(b, n)]}
    ELSE /\ read_pending' = pending
         /\ read_buf' = b
         /\ UNCHANGED slab

\* Closing the socket aborts what is outstanding on it.
Aborted == IF slab = {} THEN <<>> ELSE <<[op |-> "read_error"]>>
AbortedByClose == IF connect_state = "disconnected" THEN <<>> ELSE Aborted

DoClose ==
    IF connect_state = "disconnected"
    THEN UNCHANGED <<connect_state, read_pending, slab, link, wire, writes>>
    ELSE /\ connect_state' = "disconnected"
         /\ read_pending' = FALSE
         /\ slab' = {}
         /\ link' = "closed"
         /\ wire' = <<>>
         /\ writes' = <<>>

\* The bytes that a completed read commits: those that lie behind the tail.
Arriving(n) == SubSeq(Contents(Committed(read_buf, n)),
                      Size(read_buf) + 1, Size(read_buf) + n)

\* A byte continues what came before within its packet, or it begins a later
\* packet.
Ends(byte) == byte = NoByte \/ Place(byte) = PacketLength(Of(byte))
Continues(before, byte) ==
    \/ Of(byte) = Of(before) /\ Place(byte) = Place(before) + 1
    \/ Ends(before) /\ Place(byte) = 1 /\ Of(byte) > Of(before)

Torn(bytes) ==
    \E i \in 1..Len(bytes) :
      ~Continues(IF i = 1 THEN last ELSE bytes[i - 1], bytes[i])

\* The handler of async_read_some, with process_read_data.
RunRead ==
    /\ Runs("read")
    /\ LET n == Head(ioq).length
           full == Committed(read_buf, n)
           parsed == Parsed(Contents(full))
       IN
       /\ received' = received \o parsed.packets
       /\ DoReadPacket(connect_state = "connected", FALSE,
                       Consumed(full, parsed.consumed))
       /\ last' = Arriving(n)[n]
       /\ torn' = (torn \/ Torn(Arriving(n)))
    /\ Queues(<<>>)
    /\ UNCHANGED <<connect_state, link, peerVars, connection>>

RunReadError ==
    /\ Runs("read_error")
    /\ IF connect_state = "disconnected"
       THEN /\ read_pending' = FALSE
            /\ UNCHANGED <<connect_state, slab, link, wire, writes>>
       ELSE DoClose
    /\ Queues(AbortedByClose)
    /\ UNCHANGED <<read_buf, sent, historyVars>>

\* A write of the reader's own failed.  What is in read_buf_ stays there.
RunWriteError ==
    /\ Runs("write_error")
    /\ DoClose
    /\ Queues(AbortedByClose)
    /\ UNCHANGED <<read_buf, sent, historyVars>>

\* stop_impl empties the buffer...
StoppedBuffer == Cleared(read_buf)

\* ...so that the next byte may begin any packet.
RunStop ==
    /\ Runs("stop")
    /\ DoClose
    /\ read_buf' = StoppedBuffer
    /\ Queues(AbortedByClose)
    /\ last' = IF last = NoByte THEN last ELSE <<Of(last), PacketLength(Of(last))>>
    /\ UNCHANGED <<sent, connection, received, torn>>

CallStop ==
    /\ Queued("stop") = {}
    /\ ioq' = Append(ioq, [op |-> "stop"])
    /\ UNCHANGED <<readerVars, slab, link, peerVars, historyVars>>

\* do_connect, in a tick of the timer or in start().  Bound: not while the
\* completion of an earlier connect is queued, which leads to two reads into
\* one buffer (ReliableTcpClient.ReadsInTurn is about that).
DoConnect ==
    /\ connect_state = "disconnected" /\ connection < MaxConnections
    /\ Queued("connected") = {}
    /\ connect_state' = "connecting"
    /\ link' = "opening"
    /\ UNCHANGED <<read_pending, read_buf, slab, ioq, peerVars, historyVars>>

\* The server accepts, and may write at once.
ConnectDone ==
    /\ link = "opening"
    /\ link' = "up"
    /\ connection' = connection + 1
    /\ ioq' = Append(ioq, [op |-> "connected"])
    /\ UNCHANGED <<readerVars, slab, peerVars, received, last, torn>>

\* on_connected, unless the socket was closed since.
RunConnected ==
    /\ Runs("connected")
    /\ IF link = "closed"
       THEN /\ connect_state' = "disconnected"
            /\ UNCHANGED <<read_pending, read_buf, slab>>
       ELSE /\ connect_state' = "connected"
            /\ DoReadPacket(TRUE, read_pending, read_buf)
    /\ Queues(<<>>)
    /\ UNCHANGED <<link, peerVars, historyVars>>

-----------------------------------------------------------------------------
(* The peer and the network.                                               *)

\* build_packet refuses a packet that is too long; do_write_packet starts a
\* write at once, next to those that are outstanding.
Write(body) ==
    /\ link = "up"
    /\ Len(sent) < MaxPackets /\ Len(writes) < MaxWrites
    /\ HeaderLength + Len(body) <= MaxBodyLength
    /\ sent' = Append(sent, [body |-> body, connection |-> connection])
    /\ writes' = Append(writes, [id |-> Len(sent'), next |-> 1])
    /\ UNCHANGED <<readerVars, slab, ioq, link, wire, historyVars>>

\* The socket takes n bytes of the first write.  async_write goes on with the
\* rest of a packet only after the other writes had their turn.
Transmit(n) ==
    /\ link = "up" /\ writes # <<>>
    /\ LET w == Head(writes)
           image == Image(w.id)
           left == Len(image) - w.next + 1
       IN
       /\ n <= left
       /\ wire' = wire \o SubSeq(image, w.next, w.next + n - 1)
       /\ writes' = IF n = left
                    THEN Tail(writes)
                    ELSE Append(Tail(writes), [w EXCEPT !.next = w.next + n])
    /\ UNCHANGED <<readerVars, slab, ioq, link, sent, historyVars>>

\* A read completes with as many bytes as there are and fit.
ReadReady ==
    /\ wire # <<>>
    /\ \E s \in slab :
         LET n == IF Len(wire) < s.size THEN Len(wire) ELSE s.size IN
         /\ read_buf' = Filled(read_buf, s.at, SubSeq(wire, 1, n))
         /\ wire' = SubSeq(wire, n + 1, Len(wire))
         /\ ioq' = Append(ioq, [op |-> "read", length |-> n])
    /\ slab' = {}
    /\ UNCHANGED <<connect_state, read_pending, link, writes, sent, historyVars>>

\* The connection breaks.  What is under way may still be read.
LinkBreaks ==
    /\ link = "up"
    /\ link' = "down"
    /\ writes' = <<>>
    /\ UNCHANGED <<readerVars, slab, ioq, wire, sent, historyVars>>

ReadFails ==
    /\ link = "down" /\ slab # {}
    /\ slab' = {}
    /\ ioq' = Append(ioq, [op |-> "read_error"])
    /\ UNCHANGED <<readerVars, link, peerVars, historyVars>>

\* The reader writes, a heartbeat for instance, and that fails.
WriteFails ==
    /\ link = "down" /\ connect_state = "connected"
    /\ Queued("write_error") = {}
    /\ ioq' = Append(ioq, [op |-> "write_error"])
    /\ UNCHANGED <<readerVars, slab, link, peerVars, historyVars>>

Next ==
    \/ RunRead \/ RunReadError \/ RunWriteError \/ RunStop \/ RunConnected
    \/ CallStop \/ DoConnect \/ ConnectDone
    \/ \E body \in Bodies : Write(body)
    \/ \E n \in 1..(HeaderLength + MaxBodyLength) : Transmit(n)
    \/ ReadReady \/ LinkBreaks \/ ReadFails \/ WriteFails

Spec == Init /\ [][Next]_vars

-----------------------------------------------------------------------------
Handlers ==
    [op : {"read"}, length : 1..BufferLength]
      \union [op : {"read_error", "write_error", "stop", "connected"}]

TypeOK ==
    /\ connect_state \in {"disconnected", "connecting", "connected"}
    /\ read_pending \in BOOLEAN
    /\ BufferOK(read_buf)
    /\ slab \in SUBSET [at : 0..BufferLength, size : 1..BufferLength]
    /\ \A s \in slab : s.at = read_buf.tail /\ s.size <= FreeSize(read_buf)
    /\ ioq \in Seq(Handlers)
    /\ link \in {"closed", "opening", "up", "down"}
    /\ wire \in Seq(Byte)
    /\ sent \in Seq([body : Bodies, connection : 1..MaxConnections])
    /\ writes \in Seq([id : 1..Len(sent), next : 1..MaxBodyLength])
    /\ connection \in 0..MaxConnections
    /\ last \in Byte
    /\ torn \in BOOLEAN

Intact(packet) ==
    /\ packet.id \in 1..Len(sent)
    /\ packet.body = SubSeq(Image(packet.id), HeaderLength + 1,
                            PacketLength(packet.id))

ReceivedIds == { received[i].id : i \in 1..Len(received) }

(* As long as the bytes that reach the buffer are whole packets one after  *)
(* the other, however they are cut into reads and moved in the buffer, the *)
(* packets are parsed as they were written: in order, each once, none of a *)
(* connection left out, and with their own bodies, whatever bytes those    *)
(* hold.  What remains in the buffer is the beginning of the next packet.  *)
WholeStreamExact ==
    ~torn =>
      /\ \A i \in 1..Len(received) : Intact(received[i])
      /\ \A i \in 2..Len(received) : received[i - 1].id < received[i].id
      /\ \A id \in 1..Len(sent), later \in ReceivedIds :
           id < later /\ sent[id].connection = sent[later].connection
             => id \in ReceivedIds
      /\ Contents(read_buf) = IF Ends(last) THEN <<>>
                              ELSE SubSeq(Image(Of(last)), 1, Place(last))

(* A connected reader goes on reading: a read is outstanding or its        *)
(* completion is queued.  Also after the stream was torn, the parser never *)
(* waits for a packet that the buffer has no room for.                     *)
KeepsReading ==
    connect_state = "connected" =>
      slab # {} \/ Queued("read") \union Queued("read_error") # {}
=============================================================================
