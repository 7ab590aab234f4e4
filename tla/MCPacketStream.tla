--------------------------- MODULE MCPacketStream ---------------------------
(* Values for the constants of PacketStream.tla.                           *)
EXTENDS PacketStream

\* An empty body, and one that looks like the header of a packet that is longer
\* than any may be.
BodiesLikeHeaders == { <<>>, <<Flag, Crc(0, MaxBodyLength + 1)>> }

BytesOfPackets == (0..MaxPackets) \X (0..(HeaderLength + MaxBodyLength))
=============================================================================
