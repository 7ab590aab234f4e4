SPECIFICATION Spec
CONSTANTS
    BufferLength = 6
    Byte <- BytesOfPackets
    Bodies <- BodiesLikeHeaders
    HeaderLength = 2
    MaxBodyLength = 4
    MaxPackets = 3
    MaxWrites = 2
    MaxConnections = 2
INVARIANTS
    TypeOK
    WholeStreamExact
    KeepsReading
