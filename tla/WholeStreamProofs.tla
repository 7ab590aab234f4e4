-------------------------- MODULE WholeStreamProofs --------------------------
(***************************************************************************)
(* Proofs about PacketStream.tla, continued: what the parser makes of      *)
(* whole packets, and that the stream which is not torn is received as it  *)
(* was written (WholeStreamExact).                                         *)
(***************************************************************************)
EXTENDS PacketStreamProofs

-----------------------------------------------------------------------------
(* The parser on whole packets, one after the other.                       *)

\* Whole packets, of which the last may go on.
Chained(bytes) ==
    /\ bytes \in Seq(Byte) /\ \A i \in 1..Len(bytes) : Written(bytes[i])
    /\ 1 \in 1..Len(bytes) => Place(bytes[1]) = 1
    /\ \A i \in 1..Len(bytes) : i # 1 => Continues(bytes[i - 1], bytes[i])

\* A byte is the pair of its packet and its place.
LEMMA ByteIs ==
  ASSUME NEW b \in Byte
  PROVE  b = <<Of(b), Place(b)>> /\ Of(b) \in Nat /\ Place(b) \in Nat
<1>1. b \in (0..MaxPackets) \X (0..(HeaderLength + MaxBodyLength))
  BY Constants
<1>2. MaxPackets \in Nat /\ HeaderLength + MaxBodyLength \in Nat
  BY Constants
<1>3. PICK i \in Nat, k \in Nat : b = <<i, k>>
  BY <1>1, <1>2
<1>4. QED BY <1>3 DEF Of, Place

\* What a byte of a packet says about the packet's length.
LEMMA EndsReal ==
  ASSUME SentOK, NEW b \in Byte, Written(b)
  PROVE  /\ b # NoByte /\ Of(b) \in 1..Len(sent) /\ Place(b) \in 1..PacketLength(Of(b))
         /\ PacketLength(Of(b)) \in Nat /\ HeaderLength <= PacketLength(Of(b))
         /\ PacketLength(Of(b)) <= MaxBodyLength
         /\ Ends(b) <=> Place(b) = PacketLength(Of(b))
<1>1. Of(b) \in 1..Len(sent) /\ Place(b) \in 1..PacketLength(Of(b))
  BY DEF Written
<1>2. PacketLength(Of(b)) \in HeaderLength..MaxBodyLength
  BY <1>1, PacketFits
<1>3. b # NoByte
  BY <1>1 DEF NoByte, Of
<1>4. QED BY <1>1, <1>2, <1>3, Constants DEF Ends

\* The packets of the stream never go back.
LEMMA ChainAscends ==
  ASSUME SentOK, NEW bytes, Chained(bytes), NEW i \in 1..Len(bytes),
         NEW k \in 1..Len(bytes), i <= k
  PROVE  Of(bytes[i]) <= Of(bytes[k])
<1>1. PICK l \in Nat : l = Len(bytes)
  BY DEF Chained
<1>2. \A j \in 1..l : bytes[j] \in Byte /\ Of(bytes[j]) \in Nat
  BY <1>1, ByteIs DEF Chained
<1>3. \A j \in 1..l : j # 1 => Of(bytes[j - 1]) <= Of(bytes[j])
  <2>1. ASSUME NEW j \in 1..l, j # 1 PROVE Of(bytes[j - 1]) <= Of(bytes[j])
    <3>1. Continues(bytes[j - 1], bytes[j]) /\ j - 1 \in 1..l
      BY <1>1, <2>1 DEF Chained
    <3>2. Of(bytes[j - 1]) \in Nat /\ Of(bytes[j]) \in Nat
      BY <1>2, <3>1
    <3>3. QED BY <3>1, <3>2 DEF Continues
  <2>2. QED BY <2>1
<1> DEFINE S == { m \in Nat : i + m \in 1..l => Of(bytes[i]) <= Of(bytes[i + m]) }
<1>4. 0 \in S
  <2>1. i + 0 = i /\ Of(bytes[i]) \in Nat
    BY <1>1, <1>2
  <2>2. QED BY <2>1
<1>5. ASSUME NEW m \in Nat, m \in S PROVE m + 1 \in S
  <2> SUFFICES ASSUME i + (m + 1) \in 1..l PROVE Of(bytes[i]) <= Of(bytes[i + (m + 1)])
    OBVIOUS
  <2>1. PICK j \in 1..l : /\ j = i + (m + 1) /\ j # 1 /\ j - 1 = i + m /\ i + m \in 1..l
    BY <1>1
  <2>2. Of(bytes[i]) <= Of(bytes[i + m]) /\ Of(bytes[j - 1]) <= Of(bytes[j])
    BY <1>3, <1>5, <2>1
  <2>3. Of(bytes[i]) \in Nat /\ Of(bytes[i + m]) \in Nat /\ Of(bytes[j]) \in Nat
    BY <1>1, <1>2, <2>1
  <2>4. QED BY <2>1, <2>2, <2>3
<1> HIDE DEF S
<1>6. Nat \subseteq S
  BY <1>4, <1>5, Induction
<1>7. k - i \in S /\ i + (k - i) = k
  BY <1>1, <1>6
<1>8. QED BY <1>1, <1>7 DEF S

\* From its first byte on, the stream has the packet, as far as it goes.
LEMMA PacketRuns ==
  ASSUME SentOK, NEW bytes, Chained(bytes), NEW p \in 0..Len(bytes), p # Len(bytes),
         Place(bytes[p + 1]) = 1,
         NEW id, id = Of(bytes[p + 1]), NEW i \in 1..PacketLength(id), p + i <= Len(bytes)
  PROVE  bytes[p + i] = <<id, i>>
<1>1. PICK l \in Nat : l = Len(bytes)
  BY DEF Chained
<1>2. \A j \in 1..l : /\ bytes[j] = <<Of(bytes[j]), Place(bytes[j])>> /\ bytes[j] \in Byte
                      /\ Written(bytes[j])
  BY <1>1, ByteIs DEF Chained
<1>3. id \in 1..Len(sent) /\ PacketLength(id) \in Nat
  <2>1. p + 1 \in 1..l
    BY <1>1
  <2>2. QED BY <1>2, <2>1, EndsReal
<1> DEFINE S == { m \in Nat : m + 1 <= PacketLength(id) /\ p + (m + 1) <= l =>
                                bytes[p + (m + 1)] = <<id, m + 1>> }
<1>4. 0 \in S
  <2>1. p + 1 \in 1..l /\ 0 + 1 = 1
    BY <1>1
  <2>2. QED BY <1>2, <2>1
<1>5. ASSUME NEW m \in Nat, m \in S PROVE m + 1 \in S
  <2> SUFFICES ASSUME m + 1 + 1 <= PacketLength(id), p + (m + 1 + 1) <= l
               PROVE  bytes[p + (m + 1 + 1)] = <<id, m + 1 + 1>>
    OBVIOUS
  <2>1. PICK j \in 1..l : /\ j = p + (m + 1 + 1) /\ j # 1 /\ j - 1 = p + (m + 1)
                          /\ j - 1 \in 1..l
    BY <1>1
  <2>2. m + 1 <= PacketLength(id) /\ p + (m + 1) <= l /\ m + 1 < PacketLength(id)
    BY <1>1, <1>3
  <2>3. bytes[j - 1] = <<id, m + 1>>
    BY <1>5, <2>1, <2>2
  <2>4. Continues(bytes[j - 1], bytes[j])
    BY <1>1, <2>1 DEF Chained
  <2>5. ~Ends(bytes[j - 1])
    <3>1. Of(bytes[j - 1]) = id /\ Place(bytes[j - 1]) = m + 1
      BY <2>3 DEF Of, Place
    <3>2. Ends(bytes[j - 1]) <=> Place(bytes[j - 1]) = PacketLength(Of(bytes[j - 1]))
      BY <1>2, <2>1, EndsReal
    <3>3. QED BY <1>3, <2>2, <3>1, <3>2
  <2>6. Of(bytes[j]) = id /\ Place(bytes[j]) = m + 1 + 1
    BY <2>3, <2>4, <2>5 DEF Continues, Of, Place
  <2>7. QED BY <1>2, <2>1, <2>6
<1> HIDE DEF S
<1>6. Nat \subseteq S
  BY <1>4, <1>5, Induction
<1>7. i - 1 \in S /\ (i - 1) + 1 = i /\ i <= PacketLength(id)
  BY <1>3, <1>6
<1>8. QED BY <1>1, <1>7 DEF S

\* The bytes of a packet.
LEMMA ImageIs ==
  ASSUME SentOK, NEW id \in 1..Len(sent)
  PROVE  /\ Image(id) \in Seq(Byte) /\ Len(Image(id)) = PacketLength(id)
         /\ \A i \in 1..PacketLength(id) : Image(id)[i] = <<id, i>>
<1>1. PICK length \in Nat : length = PacketLength(id)
  BY PacketFits, Constants
<1>2. \A i \in 1..length : <<id, i>> \in Byte
  BY <1>1, WrittenReal DEF RealByte
<1>3. [i \in 1..length |-> <<id, i>>] \in Seq(Byte)
  BY <1>1, <1>2
<1>4. PICK q \in Seq(Byte) : q = [i \in 1..length |-> <<id, i>>]
  BY <1>3
<1>5. Len(q) = length /\ \A i \in 1..length : q[i] = <<id, i>>
  BY <1>1, <1>4
<1>6. QED BY <1>1, <1>4, <1>5 DEF Image

\* What the parser sees of a packet.
LEMMA PacketValues ==
  ASSUME SentOK, NEW id \in 1..Len(sent)
  PROVE  /\ Value(<<id, 1>>) = Flag
         /\ Value(<<id, HeaderLength>>) = Crc(id, Len(sent[id].body))
<1>1. <<id, 1>> # NoByte /\ <<id, HeaderLength>> # NoByte
  BY DEF NoByte
<1>2. HeaderLength # 1
  BY Constants
<1>3. QED BY <1>1, <1>2, Constants DEF Value, Of, Place

\* A packet as parse_packet returns it, and as the first of those parsed.
AsParsed(id) ==
    [id |-> id, body |-> SubSeq(Image(id), HeaderLength + 1, PacketLength(id))]
Preceded(r, packet) == [r EXCEPT !.packets = <<packet>> \o @]

\* A turn at the beginning of a packet.
LEMMA TurnAtPacket ==
  ASSUME SentOK, NEW bytes, Chained(bytes), NEW f, NEW p \in 0..Len(bytes),
         p # Len(bytes), Place(bytes[p + 1]) = 1,
         NEW id, id = Of(bytes[p + 1])
  PROVE  /\ p + PacketLength(id) > Len(bytes) => ParseStep(bytes, f, p) = Nothing(p)
         /\ p + PacketLength(id) <= Len(bytes) =>
              ParseStep(bytes, f, p) = Preceded(f[p + PacketLength(id)], AsParsed(id))
<1>1. PICK l \in Nat : l = Len(bytes) /\ p \in Nat /\ p < l
  BY DEF Chained
<1>2. id \in 1..Len(sent)
  <2>1. p + 1 \in 1..l
    BY <1>1
  <2>2. bytes[p + 1] \in Byte /\ Written(bytes[p + 1])
    BY <1>1, <2>1 DEF Chained
  <2>3. QED BY <2>2 DEF Written
<1>3. PICK len \in Nat : len = Len(sent[id].body)
  BY <1>2, PacketFits
<1>4. PICK length \in Nat : /\ length = PacketLength(id) /\ length = HeaderLength + len
                            /\ length <= MaxBodyLength
  <2>1. PacketLength(id) = HeaderLength + len
    BY <1>3 DEF PacketLength
  <2>2. QED BY <1>2, <2>1, PacketFits, Constants
<1>5. HeaderLength \in Nat \ {0, 1} /\ MaxBodyLength \in Nat
  BY Constants
<1>6. \A i \in 1..length : p + i <= l => bytes[p + i] = <<id, i>>
  <2>1. ASSUME NEW i \in 1..length, p + i <= l PROVE bytes[p + i] = <<id, i>>
    <3>1. i \in 1..PacketLength(id) /\ p + i <= Len(bytes)
      BY <1>1, <1>4, <2>1
    <3>2. QED BY <3>1, PacketRuns
  <2>2. QED BY <2>1
<1>7. IsFlag(bytes, p)
  <2>1. 1 \in 1..length /\ p + 1 <= l
    BY <1>1, <1>4, <1>5
  <2>2. QED BY <1>2, <1>6, <2>1, PacketValues DEF IsFlag
<1>8. CASE l - p < HeaderLength
  <2>1. ParseStep(bytes, f, p) = Nothing(p)
    BY <1>1, <1>7, <1>8 DEF ParseStep
  <2>2. p + length > l
    BY <1>1, <1>4, <1>5, <1>8
  <2>3. QED BY <1>1, <1>4, <2>1, <2>2
<1>9. CASE ~(l - p < HeaderLength)
  <2>1. HeaderLength \in 1..length /\ p + HeaderLength <= l
    BY <1>1, <1>4, <1>5, <1>9
  <2>2. HeaderEnd(bytes, p) = Crc(id, len)
    BY <1>2, <1>3, <1>6, <2>1, PacketValues DEF HeaderEnd
  <2>3. CrcMatches(bytes, p) /\ HeaderEnd(bytes, p)[2] = id /\ HeaderEnd(bytes, p)[3] = len
    BY <2>2 DEF CrcMatches, Crc
  <2>4. ~TooLong(len)
    BY <1>3, <1>4, <1>5 DEF TooLong
  <2>5. CASE ~Complete(bytes, p, len)
    <3>1. ParseStep(bytes, f, p) = Nothing(p)
      BY <1>1, <1>7, <1>9, <2>3, <2>4, <2>5 DEF ParseStep
    <3>2. p + length > l
      BY <1>1, <1>3, <1>4, <1>5, <2>5 DEF Complete
    <3>3. QED BY <1>1, <1>4, <3>1, <3>2
  <2>6. CASE Complete(bytes, p, len)
    <3>1. PICK end \in Nat : end = p + HeaderLength + len /\ end = p + length /\ end <= l
      <4>1. l - p >= HeaderLength + len
        BY <1>1, <2>6 DEF Complete
      <4>2. length = HeaderLength + len /\ length \in Nat
        BY <1>4
      <4>3. l \in Nat /\ p \in Nat /\ len \in Nat /\ HeaderLength \in Nat
        BY <1>1, <1>5
      <4>4. p + HeaderLength + len = p + length /\ p + length <= l /\ p + length \in Nat
        BY <4>1, <4>2, <4>3
      <4>5. QED BY <4>4
    <3>2. PICK body : body = SubSeq(bytes, p + HeaderLength + 1, end)
      OBVIOUS
    <3>3. ParseStep(bytes, f, p) = [f[end] EXCEPT !.packets = <<[id |-> id, body |-> body]>> \o @]
      BY <1>1, <1>7, <1>9, <2>3, <2>4, <2>6, <3>1, <3>2 DEF ParseStep
    <3>4. body = SubSeq(Image(id), HeaderLength + 1, length)
      <4>1. PICK image \in Seq(Byte) : /\ image = Image(id) /\ Len(image) = length
                                       /\ \A i \in 1..length : image[i] = <<id, i>>
        BY <1>2, <1>4, ImageIs
      <4>2. PICK h \in Nat : h = HeaderLength + 1 /\ 1 <= h /\ h <= length + 1
        BY <1>4, <1>5
      <4>3. /\ SubSeq(image, h, length) \in Seq(Byte)
            /\ Len(SubSeq(image, h, length)) = length - h + 1
            /\ \A i \in 1..(length - h + 1) : SubSeq(image, h, length)[i] = image[h + i - 1]
        <5>1. h \in Nat /\ length \in Nat /\ 1 <= h /\ h <= length + 1 /\ length <= Len(image)
          BY <1>4, <4>1, <4>2
        <5>2. QED BY <5>1, Slice
      <4>4. PICK s \in Nat : s = p + h /\ s = p + HeaderLength + 1 /\ 1 <= s /\ s <= end + 1
                             /\ end - s + 1 = length - h + 1
        <5>1. p \in Nat /\ end = p + length /\ length \in Nat
          BY <1>1, <3>1
        <5>2. /\ p + h \in Nat /\ p + h = p + HeaderLength + 1 /\ 1 <= p + h
              /\ p + h <= end + 1 /\ end - (p + h) + 1 = length - h + 1
          BY <1>5, <4>2, <5>1
        <5>3. QED BY <5>2
      <4>5. /\ SubSeq(bytes, s, end) \in Seq(Byte)
            /\ Len(SubSeq(bytes, s, end)) = end - s + 1
            /\ \A i \in 1..(end - s + 1) : SubSeq(bytes, s, end)[i] = bytes[s + i - 1]
        <5>1. bytes \in Seq(Byte) /\ end <= Len(bytes)
          BY <1>1, <3>1 DEF Chained
        <5>2. s \in Nat /\ end \in Nat /\ 1 <= s /\ s <= end + 1
          BY <3>1, <4>4
        <5>3. QED BY <5>1, <5>2, Slice
      <4>6. \A i \in 1..(length - h + 1) : bytes[s + i - 1] = image[h + i - 1]
        <5>1. ASSUME NEW i \in 1..(length - h + 1) PROVE bytes[s + i - 1] = image[h + i - 1]
          <6>1. PICK k \in 1..length : k = h + i - 1 /\ s + i - 1 = p + k /\ p + k <= l
            <7>1. i \in Nat /\ 1 <= i /\ i <= length - h + 1
              BY <4>2, <1>4
            <7>2. /\ p \in Nat /\ l \in Nat /\ length \in Nat /\ p + length <= l
                  /\ s = p + h /\ h \in Nat /\ 1 <= h
              BY <1>1, <3>1, <4>2, <4>4
            <7>3. h + i - 1 \in 1..length
              BY <7>1, <7>2
            <7>4. s + i - 1 = p + (h + i - 1) /\ p + (h + i - 1) <= l
              BY <7>1, <7>2, <7>3
            <7>5. QED BY <7>3, <7>4
          <6>2. QED BY <1>6, <4>1, <6>1
        <5>2. QED BY <5>1
      <4>7. body = SubSeq(bytes, s, end)
        BY <3>2, <4>4
      <4>8. \A i \in 1..(length - h + 1) : SubSeq(bytes, s, end)[i] = SubSeq(image, h, length)[i]
        BY <4>3, <4>4, <4>5, <4>6
      <4>9. SubSeq(bytes, s, end) = SubSeq(image, h, length)
        BY <4>3, <4>4, <4>5, <4>8, SeqEqual
      <4>10. QED BY <4>1, <4>2, <4>7, <4>9
    <3>5. AsParsed(id) = [id |-> id, body |-> body]
      BY <1>4, <3>4 DEF AsParsed
    <3>6. ParseStep(bytes, f, p) = Preceded(f[end], AsParsed(id))
      BY <3>3, <3>5 DEF Preceded
    <3>7. QED BY <1>1, <1>4, <3>1, <3>6
  <2>7. QED BY <2>5, <2>6
<1>10. QED BY <1>8, <1>9

\* What parsing gives when a packet is put before the others.
LEMMA Prepended ==
  ASSUME NEW S, NEW e \in S, NEW q \in Seq(S)
  PROVE  /\ <<e>> \o q \in Seq(S) /\ Len(q) \in Nat /\ Len(<<e>> \o q) = Len(q) + 1
         /\ (<<e>> \o q)[1] = e
         /\ \A i \in 1..Len(q) : (<<e>> \o q)[i + 1] = q[i]
<1>1. <<e>> \in Seq(S) /\ Len(<<e>>) = 1 /\ <<e>>[1] = e
  OBVIOUS
<1>2. PICK one \in Seq(S) : one = <<e>>
  BY <1>1
<1>3. /\ one \o q \in Seq(S) /\ Len(one \o q) = 1 + Len(q)
      /\ \A n \in 1..1 : (one \o q)[n] = one[n]
      /\ \A k \in 1..Len(q) : (one \o q)[1 + k] = q[k]
  BY <1>1, <1>2, Joined
<1>4. Len(q) \in Nat /\ 1 \in 1..1
  OBVIOUS
<1>5. QED BY <1>1, <1>2, <1>3, <1>4

\* The bytes from p on begin with a packet, if there are any.
Starts(bytes, p) == p # Len(bytes) => Place(bytes[p + 1]) = 1

\* A packet begins after p bytes, and the bytes hold all of it.
Found(bytes, p, id) ==
    /\ \E k \in (p + 1)..Len(bytes) : bytes[k] = <<id, 1>>
    /\ \/ id < Of(bytes[Len(bytes)])
       \/ id = Of(bytes[Len(bytes)]) /\ Ends(bytes[Len(bytes)])

\* What is parsed after p bytes is the packets, as they were written, and what
\* remains the beginning of the last.
Exact(bytes, p, r) ==
    /\ r \in [consumed : p..Len(bytes), packets : Seq(Packets)]
    /\ r.consumed # Len(bytes) =>
         /\ Place(bytes[r.consumed + 1]) = 1
         /\ r.consumed + PacketLength(Of(bytes[r.consumed + 1])) > Len(bytes)
    /\ r.consumed = Len(bytes) /\ p # Len(bytes) => Ends(bytes[Len(bytes)])
    /\ \A i \in 1..Len(r.packets) :
         Intact(r.packets[i]) /\ Found(bytes, p, r.packets[i].id)
    /\ \A i \in 2..Len(r.packets) : r.packets[i - 1].id < r.packets[i].id
    /\ \A k \in (p + 1)..Len(bytes) : Place(bytes[k]) = 1 =>
         \/ k = r.consumed + 1
         \/ \E i \in 1..Len(r.packets) : r.packets[i].id = Of(bytes[k])

\* The bytes of the stream are those of packets.
LEMMA ChainBytes ==
  ASSUME SentOK, NEW bytes, Chained(bytes), NEW k \in 1..Len(bytes)
  PROVE  /\ bytes[k] = <<Of(bytes[k]), Place(bytes[k])>>
         /\ Of(bytes[k]) \in 1..Len(sent)
         /\ Place(bytes[k]) \in 1..PacketLength(Of(bytes[k]))
         /\ PacketLength(Of(bytes[k])) \in Nat
         /\ Ends(bytes[k]) <=> Place(bytes[k]) = PacketLength(Of(bytes[k]))
<1>1. bytes[k] \in Byte /\ Written(bytes[k])
  BY DEF Chained
<1>2. QED BY <1>1, ByteIs, EndsReal

\* A later packet begins where one ends.
LEMMA AfterPacket ==
  ASSUME SentOK, NEW bytes, Chained(bytes), NEW p \in 0..Len(bytes), p # Len(bytes),
         Place(bytes[p + 1]) = 1,
         NEW id, id = Of(bytes[p + 1]), NEW q \in Nat, q = p + PacketLength(id),
         q < Len(bytes)
  PROVE  Place(bytes[q + 1]) = 1 /\ Of(bytes[q + 1]) > id
<1>1. PICK l \in Nat : l = Len(bytes) /\ p \in Nat /\ p < l
  BY DEF Chained
<1>2. id \in 1..Len(sent)
  <2>1. p + 1 \in 1..l
    BY <1>1
  <2>2. QED BY <1>1, <2>1, ChainBytes
<1>3. PICK length \in Nat : length = PacketLength(id) /\ length >= 1
  BY <1>2, PacketFits, Constants
<1>4. q \in 1..l /\ q + 1 \in 1..l /\ q + 1 # 1 /\ (q + 1) - 1 = q /\ q = p + length
  BY <1>1, <1>3
<1>5. bytes[q] = <<id, length>>
  <2>1. length \in 1..PacketLength(id) /\ p + length <= Len(bytes)
    BY <1>1, <1>3, <1>4
  <2>2. bytes[p + length] = <<id, length>>
    BY <2>1, PacketRuns
  <2>3. QED BY <1>4, <2>2
<1>6. Continues(bytes[q], bytes[q + 1])
  BY <1>1, <1>4 DEF Chained
<1>7. Of(bytes[q]) = id /\ Place(bytes[q]) = length
  BY <1>5 DEF Of, Place
<1>8. Place(bytes[q + 1]) \in 1..PacketLength(Of(bytes[q + 1]))
  BY <1>1, <1>4, ChainBytes
<1>9. ~(Of(bytes[q + 1]) = id /\ Place(bytes[q + 1]) = length + 1)
  <2>1. ASSUME Of(bytes[q + 1]) = id, Place(bytes[q + 1]) = length + 1 PROVE FALSE
    <3>1. length + 1 \in 1..length
      BY <1>3, <1>8, <2>1
    <3>2. QED BY <1>3, <3>1
  <2>2. QED BY <2>1
<1>10. QED BY <1>6, <1>7, <1>9 DEF Continues

\* Nothing is parsed of the beginning of a packet.
LEMMA NothingExact ==
  ASSUME SentOK, NEW bytes, Chained(bytes), NEW p \in 0..Len(bytes), Starts(bytes, p),
         p # Len(bytes) => p + PacketLength(Of(bytes[p + 1])) > Len(bytes)
  PROVE  Exact(bytes, p, Nothing(p))
<1>1. PICK l \in Nat : l = Len(bytes) /\ p \in Nat /\ p <= l
  BY DEF Chained
<1>2. PICK none \in Seq(Packets) : none = <<>> /\ Len(none) = 0
  <2>1. <<>> \in Seq(Packets) /\ Len(<<>>) = 0
    OBVIOUS
  <2>2. QED BY <2>1
<1>3. PICK r : r = [consumed |-> p, packets |-> none]
  OBVIOUS
<1>4. p \in p..l
  BY <1>1
<1>5. /\ r \in [consumed : p..l, packets : Seq(Packets)]
      /\ r.consumed = p /\ r.packets = none
  BY <1>3, <1>4
<1>6. ASSUME NEW k \in (p + 1)..l, Place(bytes[k]) = 1 PROVE k = p + 1
  <2>1. p # l /\ k \in 1..l /\ k - p \in Nat /\ k - p >= 1 /\ p + (k - p) = k
    BY <1>1
  <2>2. PICK id \in 1..Len(sent) : id = Of(bytes[p + 1])
    <3>1. p + 1 \in 1..l
      BY <1>1, <2>1
    <3>2. QED BY <1>1, <3>1, ChainBytes
  <2>3. PICK length \in Nat : length = PacketLength(id)
    BY <2>2, PacketFits, Constants
  <2>4. p + length > l
    BY <1>1, <2>1, <2>2, <2>3
  <2>5. k - p \in 1..length
    BY <1>1, <2>1, <2>4
  <2>6. bytes[p + (k - p)] = <<id, k - p>>
    <3>1. k - p \in 1..PacketLength(id) /\ p + (k - p) <= Len(bytes) /\ Place(bytes[p + 1]) = 1
      BY <1>1, <2>1, <2>3, <2>5 DEF Starts
    <3>2. QED BY <1>1, <2>1, <2>2, <3>1, PacketRuns
  <2>7. k - p = 1
    BY <1>6, <2>1, <2>6 DEF Place
  <2>8. QED BY <1>1, <2>7
<1>7. p # l => Place(bytes[p + 1]) = 1 /\ p + PacketLength(Of(bytes[p + 1])) > l
  BY <1>1 DEF Starts
<1>8. 1..Len(none) = {} /\ 2..Len(none) = {}
  BY <1>2
<1>9. Exact(bytes, p, r)
  BY <1>1, <1>5, <1>6, <1>7, <1>8 DEF Exact
<1>10. r = Nothing(p)
  BY <1>2, <1>3 DEF Nothing
<1>11. QED BY <1>9, <1>10

\* A packet that is whole is found.
LEMMA WholeFound ==
  ASSUME SentOK, NEW bytes, Chained(bytes), NEW p \in 0..Len(bytes), p # Len(bytes),
         Place(bytes[p + 1]) = 1,
         NEW id, id = Of(bytes[p + 1]), NEW q \in Nat, q = p + PacketLength(id),
         q <= Len(bytes)
  PROVE  /\ Found(bytes, p, id)
         /\ q = Len(bytes) => Of(bytes[Len(bytes)]) = id /\ Ends(bytes[Len(bytes)])
<1>1. PICK l \in Nat : l = Len(bytes) /\ p \in Nat /\ p < l /\ p + 1 \in 1..l
  BY DEF Chained
<1>2. id \in 1..Len(sent) /\ bytes[p + 1] = <<id, 1>>
  BY <1>1, ChainBytes
<1>3. PICK length \in Nat : length = PacketLength(id) /\ length >= 1
  BY <1>2, PacketFits, Constants
<1>4. \E k \in (p + 1)..l : bytes[k] = <<id, 1>>
  <2>1. p + 1 \in (p + 1)..l
    BY <1>1
  <2>2. QED BY <1>2, <2>1
<1>5. CASE q = l
  <2>1. bytes[p + length] = <<id, length>> /\ p + length = l
    <3>1. length \in 1..PacketLength(id) /\ p + length <= Len(bytes) /\ p + length = l
      BY <1>1, <1>3, <1>5
    <3>2. QED BY <3>1, PacketRuns
  <2>2. Of(bytes[l]) = id /\ Place(bytes[l]) = length
    BY <2>1 DEF Of, Place
  <2>3. l \in 1..l
    BY <1>1
  <2>4. Ends(bytes[l]) <=> Place(bytes[l]) = PacketLength(Of(bytes[l]))
    BY <1>1, <2>3, ChainBytes
  <2>5. QED BY <1>1, <1>3, <1>4, <1>5, <2>2, <2>4 DEF Found
<1>6. CASE q # l
  <2>1. q < l
    BY <1>1, <1>6
  <2>2. Of(bytes[q + 1]) > id
    BY <1>1, <2>1, AfterPacket
  <2>3. q + 1 \in 1..l /\ l \in 1..l /\ q + 1 <= l
    BY <1>1, <2>1
  <2>4. Of(bytes[q + 1]) <= Of(bytes[l])
    BY <1>1, <2>3, ChainAscends
  <2>5. Of(bytes[q + 1]) \in Nat /\ Of(bytes[l]) \in Nat /\ id \in Nat
    <3>1. \A i \in 1..Len(sent) : i \in Nat
      BY DEF SentOK
    <3>2. QED BY <1>1, <1>2, <2>3, <3>1, ChainBytes
  <2>6. id < Of(bytes[l])
    BY <2>2, <2>4, <2>5
  <2>7. QED BY <1>1, <1>4, <1>6, <2>6 DEF Found
<1>7. QED BY <1>5, <1>6

\* A packet that is whole is parsed, and then what follows.
LEMMA PacketExact ==
  ASSUME SentOK, NEW bytes, Chained(bytes), NEW p \in 0..Len(bytes), p # Len(bytes),
         Place(bytes[p + 1]) = 1,
         NEW id, id = Of(bytes[p + 1]), NEW q \in Nat, q = p + PacketLength(id),
         q <= Len(bytes), NEW r, Exact(bytes, q, r)
  PROVE  Exact(bytes, p, Preceded(r, AsParsed(id)))
<1>1. PICK l \in Nat : l = Len(bytes) /\ p \in Nat /\ p < l /\ p + 1 \in 1..l
  BY DEF Chained
<1>2. id \in 1..Len(sent) /\ id \in Nat /\ bytes[p + 1] = <<id, 1>>
  <2>1. \A i \in 1..Len(sent) : i \in Nat
    BY DEF SentOK
  <2>2. QED BY <1>1, <2>1, ChainBytes
<1>3. PICK length \in Nat : length = PacketLength(id) /\ length >= HeaderLength
  BY <1>2, PacketFits, Constants
<1>4. HeaderLength \in Nat \ {0, 1}
  BY Constants
<1>5. q = p + length /\ q \in (p + 1)..l
  BY <1>1, <1>3, <1>4
<1>6. PICK packet \in Packets : /\ packet.id = id /\ Intact(packet)
                                /\ packet = AsParsed(id)
  <2>1. PICK body : body = SubSeq(Image(id), HeaderLength + 1, length)
    OBVIOUS
  <2>2. body \in Seq(Byte)
    <3>1. PICK image \in Seq(Byte) : image = Image(id) /\ Len(image) = length
      BY <1>2, <1>3, ImageIs
    <3>2. HeaderLength + 1 \in Nat /\ 1 <= HeaderLength + 1 /\ HeaderLength + 1 <= length + 1
      BY <1>3, <1>4
    <3>3. QED BY <2>1, <3>1, <3>2, Slice
  <2>3. PICK packet : packet = [id |-> id, body |-> body]
    OBVIOUS
  <2>4. packet \in Packets /\ packet.id = id /\ packet.body = body
    BY <1>2, <2>2, <2>3 DEF Packets
  <2>5. Intact(packet)
    BY <1>2, <1>3, <2>1, <2>4 DEF Intact
  <2>6. packet = AsParsed(id)
    BY <1>3, <2>1, <2>3 DEF AsParsed
  <2>7. QED BY <2>4, <2>5, <2>6
<1>7. /\ r \in [consumed : q..l, packets : Seq(Packets)]
      /\ r.consumed # l => /\ Place(bytes[r.consumed + 1]) = 1
                           /\ r.consumed + PacketLength(Of(bytes[r.consumed + 1])) > l
      /\ r.consumed = l /\ q # l => Ends(bytes[l])
      /\ \A i \in 1..Len(r.packets) :
           Intact(r.packets[i]) /\ Found(bytes, q, r.packets[i].id)
      /\ \A i \in 2..Len(r.packets) : r.packets[i - 1].id < r.packets[i].id
      /\ \A k \in (q + 1)..l : Place(bytes[k]) = 1 =>
           \/ k = r.consumed + 1
           \/ \E i \in 1..Len(r.packets) : r.packets[i].id = Of(bytes[k])
  BY <1>1 DEF Exact
<1>8. PICK rest \in Seq(Packets) : rest = r.packets
  BY <1>7
<1>9. PICK all \in Seq(Packets) :
        /\ all = <<packet>> \o rest
        /\ Len(rest) \in Nat /\ Len(all) = Len(rest) + 1
        /\ all[1] = packet
        /\ \A i \in 1..Len(rest) : all[i + 1] = rest[i]
  <2>1. PICK all : all = <<packet>> \o rest
    OBVIOUS
  <2>2. /\ all \in Seq(Packets) /\ Len(rest) \in Nat /\ Len(all) = Len(rest) + 1
        /\ all[1] = packet
        /\ \A i \in 1..Len(rest) : all[i + 1] = rest[i]
    BY <2>1, Prepended
  <2>3. QED BY <2>1, <2>2
<1>10. PICK c \in Nat : c = r.consumed /\ c \in p..l /\ c \in q..l
  <2>1. r.consumed \in q..l
    BY <1>7
  <2>2. r.consumed \in p..l /\ r.consumed \in Nat
    BY <1>1, <1>5, <2>1
  <2>3. QED BY <2>1, <2>2
<1>11. PICK s : s = [r EXCEPT !.packets = all]
  OBVIOUS
<1>12. s \in [consumed : p..l, packets : Seq(Packets)] /\ s.consumed = c /\ s.packets = all
  BY <1>7, <1>10, <1>11
<1>13. Found(bytes, p, id) /\ (q = l => Ends(bytes[l]))
  BY <1>1, <1>5, WholeFound
<1>14. \A i \in 1..Len(all) : i # 1 => i - 1 \in 1..Len(rest) /\ all[i] = rest[i - 1]
  <2>1. ASSUME NEW i \in 1..Len(all), i # 1 PROVE i - 1 \in 1..Len(rest) /\ all[i] = rest[i - 1]
    <3>1. i - 1 \in 1..Len(rest) /\ (i - 1) + 1 = i
      BY <1>9, <2>1
    <3>2. QED BY <1>9, <3>1
  <2>2. QED BY <2>1
<1>15. \A i \in 1..Len(all) : Intact(all[i]) /\ Found(bytes, p, all[i].id)
  <2>1. ASSUME NEW i \in 1..Len(rest) PROVE Intact(rest[i]) /\ Found(bytes, p, rest[i].id)
    <3>1. Intact(rest[i]) /\ Found(bytes, q, rest[i].id)
      BY <1>7, <1>8
    <3>2. \A k \in (q + 1)..l : k \in (p + 1)..l
      BY <1>1, <1>5
    <3>3. QED BY <1>1, <3>1, <3>2 DEF Found
  <2>2. QED BY <1>6, <1>9, <1>13, <1>14, <2>1
<1>16. \A i \in 2..Len(all) : all[i - 1].id < all[i].id
  <2>1. ASSUME NEW i \in 2..Len(all) PROVE all[i - 1].id < all[i].id
    <3>1. i \in 1..Len(all) /\ i # 1 /\ i - 1 \in 1..Len(all)
      BY <1>9
    <3>2. i - 1 \in 1..Len(rest) /\ all[i] = rest[i - 1]
      BY <1>14, <3>1
    <3>3. CASE i - 1 = 1
      <4>1. Found(bytes, q, all[i].id)
        BY <1>7, <1>8, <3>2
      <4>2. PICK k \in (q + 1)..l : bytes[k] = <<all[i].id, 1>>
        BY <1>1, <4>1 DEF Found
      <4>3. q < l /\ q + 1 \in 1..l /\ k \in 1..l /\ q + 1 <= k
        BY <1>1, <1>5
      <4>4. Of(bytes[q + 1]) > id /\ Of(bytes[q + 1]) <= Of(bytes[k])
        BY <1>1, <4>3, AfterPacket, ChainAscends
      <4>5. Of(bytes[k]) = all[i].id
        BY <4>2 DEF Of
      <4>6. Of(bytes[q + 1]) \in Nat /\ Of(bytes[k]) \in Nat
        <5>1. \A n \in 1..Len(sent) : n \in Nat
          BY DEF SentOK
        <5>2. QED BY <1>1, <4>3, <5>1, ChainBytes
      <4>7. id < all[i].id
        BY <1>2, <4>4, <4>5, <4>6
      <4>8. QED BY <1>6, <1>9, <3>3, <4>7
    <3>4. CASE i - 1 # 1
      <4>1. i - 1 \in 2..Len(rest) /\ all[i - 1] = rest[(i - 1) - 1]
        BY <1>14, <3>1, <3>2, <3>4
      <4>2. rest[(i - 1) - 1].id < rest[i - 1].id
        BY <1>7, <1>8, <4>1
      <4>3. QED BY <3>2, <4>1, <4>2
    <3>5. QED BY <3>3, <3>4
  <2>2. QED BY <2>1
<1>17. ASSUME NEW k \in (p + 1)..l, Place(bytes[k]) = 1
       PROVE  k = c + 1 \/ \E i \in 1..Len(all) : all[i].id = Of(bytes[k])
  <2>1. 1 \in 1..Len(all) /\ \A i \in 1..Len(rest) : i + 1 \in 1..Len(all)
    BY <1>9
  <2>2. CASE k <= q
    <3>1. k - p \in 1..length /\ p + (k - p) = k
      BY <1>1, <1>5, <2>2
    <3>2. bytes[p + (k - p)] = <<id, k - p>>
      <4>1. k - p \in 1..PacketLength(id) /\ p + (k - p) <= Len(bytes)
        BY <1>1, <1>3, <3>1
      <4>2. QED BY <4>1, PacketRuns
    <3>3. Of(bytes[k]) = id
      BY <3>1, <3>2 DEF Of
    <3>4. QED BY <1>6, <1>9, <2>1, <3>3
  <2>3. CASE ~(k <= q)
    <3>1. k \in (q + 1)..l
      BY <1>1, <1>5, <2>3
    <3>2. k = c + 1 \/ \E i \in 1..Len(rest) : rest[i].id = Of(bytes[k])
      BY <1>7, <1>8, <1>10, <1>17, <3>1
    <3>3. QED BY <1>9, <2>1, <3>2
  <2>4. QED BY <2>2, <2>3
<1>18. Exact(bytes, p, s)
  BY <1>1, <1>7, <1>10, <1>12, <1>13, <1>15, <1>16, <1>17 DEF Exact
<1>19. s = Preceded(r, AsParsed(id))
  BY <1>6, <1>8, <1>9, <1>11 DEF Preceded
<1>20. QED BY <1>18, <1>19

\* One turn of process_packet, where the turns after it parse what follows.
LEMMA TurnExact ==
  ASSUME SentOK, NEW bytes, Chained(bytes), NEW f, NEW p \in 0..Len(bytes),
         Starts(bytes, p),
         \A q \in (p + 1)..Len(bytes) : Starts(bytes, q) => Exact(bytes, q, f[q])
  PROVE  Exact(bytes, p, ParseStep(bytes, f, p))
<1>1. PICK l \in Nat : l = Len(bytes) /\ p \in Nat /\ p <= l
  BY DEF Chained
<1>2. CASE p = l
  <2>1. ParseStep(bytes, f, p) = Nothing(p)
    BY <1>1, <1>2 DEF ParseStep
  <2>2. QED BY <1>1, <1>2, <2>1, NothingExact
<1>3. CASE p # l
  <2>1. PICK id \in 1..Len(sent) : id = Of(bytes[p + 1]) /\ Place(bytes[p + 1]) = 1
    <3>1. p + 1 \in 1..l
      BY <1>1, <1>3
    <3>2. QED BY <1>1, <1>3, <3>1, ChainBytes DEF Starts
  <2>2. PICK length \in Nat : length = PacketLength(id) /\ length >= 1
    BY <2>1, PacketFits, Constants
  <2>3. CASE p + length > l
    <3>1. ParseStep(bytes, f, p) = Nothing(p)
      BY <1>1, <1>3, <2>1, <2>2, <2>3, TurnAtPacket
    <3>2. QED BY <1>1, <2>1, <2>2, <2>3, <3>1, NothingExact
  <2>4. CASE ~(p + length > l)
    <3>1. PICK q \in Nat : q = p + length /\ q \in (p + 1)..l /\ q <= l
      <4>1. p + length \in Nat /\ p + length \in (p + 1)..l /\ p + length <= l
        BY <1>1, <2>2, <2>4
      <4>2. QED BY <4>1
    <3>2. Starts(bytes, q)
      <4>1. q < l => Place(bytes[q + 1]) = 1
        BY <1>1, <1>3, <2>1, <2>2, <3>1, AfterPacket
      <4>2. q # l => q < l
        BY <1>1, <3>1
      <4>3. QED BY <1>1, <4>1, <4>2 DEF Starts
    <3>3. Exact(bytes, q, f[q])
      BY <1>1, <3>1, <3>2
    <3>4. /\ q = p + PacketLength(id) /\ q <= Len(bytes) /\ p # Len(bytes)
          /\ Place(bytes[p + 1]) = 1
      BY <1>1, <1>3, <2>1, <2>2, <3>1
    <3>5. ParseStep(bytes, f, p) = Preceded(f[q], AsParsed(id))
      BY <2>1, <3>4, TurnAtPacket
    <3>6. QED BY <2>1, <3>3, <3>4, <3>5, PacketExact
  <2>5. QED BY <2>3, <2>4
<1>4. QED BY <1>2, <1>3

\* The parser may read all the bytes of the stream.
LEMMA ChainValued ==
  ASSUME SentOK, NEW bytes, Chained(bytes)
  PROVE  Valued(bytes)
<1>1. ASSUME NEW i \in 1..Len(bytes) PROVE Value(bytes[i]) \in Values
  <2>1. bytes[i] \in Byte /\ Written(bytes[i])
    BY DEF Chained
  <2>2. QED BY <2>1, RealValue DEF RealByte
<1>2. QED BY <1>1 DEF Chained, Valued

(* Of bytes that are whole packets, one after the other and the last one   *)
(* perhaps unfinished, process_packet parses just these packets, with the  *)
(* bodies they were written with, whatever bytes those hold, and leaves    *)
(* what there is of the last.                                              *)
THEOREM ParsedExact ==
  ASSUME SentOK, NEW bytes, Chained(bytes)
  PROVE  Exact(bytes, 0, Parsed(bytes))
<1>1. PICK l \in Nat : l = Len(bytes)
  BY DEF Chained
<1>2. PICK f : Parser(bytes, f) /\ Parsed(bytes) = f[0]
  BY ChainValued, ParsedIs
<1> DEFINE S == { m \in Nat : \A q \in 0..l :
                    l - q <= m /\ Starts(bytes, q) => Exact(bytes, q, f[q]) }
<1>3. ASSUME NEW p \in 0..l, Starts(bytes, p),
             \A q \in (p + 1)..l : Starts(bytes, q) => Exact(bytes, q, f[q])
      PROVE  Exact(bytes, p, f[p])
  <2>1. Exact(bytes, p, ParseStep(bytes, f, p))
    BY <1>1, <1>3, TurnExact
  <2>2. QED BY <1>1, <1>2, <2>1 DEF Parser
<1>4. 0 \in S
  <2>1. ASSUME NEW p \in 0..l, l - p <= 0, Starts(bytes, p) PROVE Exact(bytes, p, f[p])
    <3>1. (p + 1)..l = {}
      BY <2>1
    <3>2. QED BY <1>3, <2>1, <3>1
  <2>2. QED BY <2>1
<1>5. ASSUME NEW m \in Nat, m \in S PROVE m + 1 \in S
  <2>1. ASSUME NEW p \in 0..l, l - p <= m + 1, Starts(bytes, p) PROVE Exact(bytes, p, f[p])
    <3>1. \A q \in (p + 1)..l : q \in 0..l /\ l - q <= m
      BY <2>1
    <3>2. \A q \in (p + 1)..l : Starts(bytes, q) => Exact(bytes, q, f[q])
      BY <1>5, <3>1
    <3>3. QED BY <1>3, <2>1, <3>2
  <2>2. QED BY <2>1
<1> HIDE DEF S
<1>6. l \in S
  BY <1>4, <1>5, Induction
<1>7. 0 \in 0..l /\ l - 0 <= l
  BY <1>1
<1>8. Starts(bytes, 0)
  <2>1. l # 0 => 1 \in 1..l /\ 0 + 1 = 1
    BY <1>1
  <2>2. QED BY <1>1, <2>1 DEF Starts, Chained
<1>9. Exact(bytes, 0, f[0])
  BY <1>6, <1>7, <1>8 DEF S
<1>10. QED BY <1>2, <1>9

-----------------------------------------------------------------------------
(* The stream that is not torn.  A packet begins to be received only when  *)
(* the one that was written before it on its connection did: the first     *)
(* bytes of packets come in the order of the writes, in the buffer behind  *)
(* its tail, under way, and in the writes that have not begun.             *)

\* The lengths of the completed reads that are queued, of which there is one at
\* most, and the bytes that such a read has brought.
Lengths == { ioq[m].length : m \in Queued("read") }
Batch(n) == [i \in 1..n |-> read_buf.cells[read_buf.tail + i - 1]]

\* The stream is whole, also with what the queued read brings.
Whole == ~torn /\ \A n \in Lengths : ~Torn(Batch(n))

\* The packet is the first of its connection.
First(id) == id <= 1 \/ sent[id - 1].connection # sent[id].connection

\* The packet was received, or the buffer has its beginning.
Had(id) == id \in ReceivedIds \/ (id = Of(last) /\ ~Ends(last))

\* The first byte of the packet is in the buffer but not committed; it is under
\* way, before place n; its write has not begun, and is before place n.
InBatch(id) == \E n \in Lengths : \E i \in 1..n : Batch(n)[i] = <<id, 1>>
OnWire(id, n) == \E i \in 1..Len(wire) : i < n /\ wire[i] = <<id, 1>>
Unwritten(id, n) == \E i \in 1..Len(writes) : i < n /\ writes[i].id = id /\ writes[i].next = 1

\* Packets as they were written, in that order.
InOrder(q) ==
    /\ q \in Seq(Packets)
    /\ \A i \in 1..Len(q) : Intact(q[i])
    /\ \A i \in 2..Len(q) : q[i - 1].id < q[i].id

\* No byte of a later packet is at the front of the buffer.
FirstCell(b, id) == b.tail > 0 => Of(b.cells[0]) <= id

\* What is parsed is whole packets, and what is left the beginning of one.
ParsedOK ==
    /\ InOrder(received)
    /\ \A id \in ReceivedIds : id < Of(last) \/ (id = Of(last) /\ Ends(last))
    /\ Contents(read_buf) = IF Ends(last) THEN <<>>
                            ELSE SubSeq(Image(Of(last)), 1, Place(last))
    /\ FirstCell(read_buf, Of(last))

\* Nothing is left out before a packet that was received, or is now.
NoneMissed ==
    /\ \A id \in ReceivedIds : First(id) \/ id - 1 \in ReceivedIds
    /\ ~Ends(last) => First(Of(last)) \/ Of(last) - 1 \in ReceivedIds

\* Packets begin in the order in which they were sent.
BatchOrder ==
    \A n \in Lengths : \A i \in 1..n : Place(Batch(n)[i]) = 1 =>
      LET id == Of(Batch(n)[i]) IN
      First(id) \/ Had(id - 1) \/ \E j \in 1..n : j < i /\ Batch(n)[j] = <<id - 1, 1>>
Before(id) == First(id) \/ Had(id - 1) \/ InBatch(id - 1)
WireOrder ==
    \A i \in 1..Len(wire) : Place(wire[i]) = 1 =>
      Before(Of(wire[i])) \/ OnWire(Of(wire[i]) - 1, i)
WritesOrder ==
    \A i \in 1..Len(writes) : writes[i].next = 1 =>
      \/ Before(writes[i].id) \/ OnWire(writes[i].id - 1, Len(wire) + 1)
      \/ Unwritten(writes[i].id - 1, i)
LastOrder ==
    link = "up" =>
      \/ Len(sent) = 0 \/ sent[Len(sent)].connection # connection
      \/ Had(Len(sent)) \/ InBatch(Len(sent)) \/ OnWire(Len(sent), Len(wire) + 1)
      \/ Unwritten(Len(sent), Len(writes) + 1)

\* Connections follow each other, and nothing is under way before one is made.
ConnectionsOK ==
    /\ \A i, k \in 1..Len(sent) : i <= k => sent[i].connection <= sent[k].connection
    /\ \A i \in 1..Len(sent) : sent[i].connection <= connection
    /\ link \in {"closed", "opening"} => wire = <<>> /\ writes = <<>>

\* The inductive invariant, together with StreamInv.
OrderInv ==
    /\ ConnectionsOK
    /\ ~torn => ParsedOK /\ NoneMissed
    /\ Whole => BatchOrder /\ WireOrder /\ WritesOrder /\ LastOrder

-----------------------------------------------------------------------------
(* A completed read is handled.                                            *)

\* The bytes behind the tail are those that a completed read commits.
LEMMA ArrivingIs ==
  ASSUME StreamInv, NEW n \in 1..FreeSize(read_buf), NEW bytes,
         bytes = Contents(Committed(read_buf, n))
  PROVE  /\ Arriving(n) = Batch(n) /\ Batch(n) \in Seq(Byte) /\ Len(Batch(n)) = n
         /\ \A i \in 1..n : RealByte(Batch(n)[i]) /\ Batch(n)[i] \in Byte
         /\ bytes \in Seq(Byte) /\ Len(bytes) = Size(read_buf) + n
         /\ \A i \in 1..Size(read_buf) : bytes[i] = Contents(read_buf)[i]
         /\ \A i \in 1..n : bytes[Size(read_buf) + i] = Batch(n)[i]
<1>1. /\ SentOK /\ BufferOK(read_buf) /\ AllReal(read_buf)
      /\ n \in Nat /\ FreeSize(read_buf) \in Nat
  BY RealBuffer
<1>2. PICK b : b = Committed(read_buf, n)
  OBVIOUS
<1>3. BufferOK(b) /\ AllReal(b) /\ Size(b) = Size(read_buf) + n
  BY <1>1, <1>2, CommittedReal
<1>4. b.cells = read_buf.cells /\ b.head = read_buf.head
  BY <1>1, <1>2 DEF Committed, BufferOK, Buffers
<1>5. PICK s \in Nat, h \in Nat, t \in Nat : /\ s = Size(read_buf) /\ h = read_buf.head
                                             /\ t = read_buf.tail /\ t = h + s
                                             /\ t + n <= BufferLength
  <2>1. /\ read_buf.head \in Nat /\ read_buf.tail \in 0..BufferLength
        /\ Size(read_buf) \in Nat /\ Size(read_buf) = read_buf.tail - read_buf.head
        /\ FreeSize(read_buf) = BufferLength - read_buf.tail
    BY <1>1, BufferFields
  <2>2. read_buf.tail \in Nat /\ read_buf.tail = read_buf.head + Size(read_buf)
    BY <2>1, Constants
  <2>3. read_buf.tail + n <= BufferLength
    BY <1>1, <2>1, <2>2, Constants
  <2>4. QED BY <2>1, <2>2, <2>3
<1>6. /\ bytes \in Seq(Byte) /\ Len(bytes) = s + n
      /\ \A i \in 1..(s + n) : bytes[i] = read_buf.cells[h + i - 1]
  BY <1>2, <1>3, <1>4, <1>5, ContentsType
<1>7. \A i \in 1..s : Contents(read_buf)[i] = read_buf.cells[h + i - 1]
  BY <1>1, <1>5, ContentsType
<1>8. \A i \in 1..s : i \in 1..(s + n)
  BY <1>1, <1>5
<1>9. \A i \in 1..n : t + i - 1 \in Cells
  <2>1. /\ n \in Nat /\ t \in Nat /\ t + n <= BufferLength /\ BufferLength \in Nat
        /\ Cells = 0..(BufferLength - 1)
    BY <1>1, <1>5, Constants
  <2>2. ASSUME NEW i \in 1..n PROVE t + i - 1 \in 0..(BufferLength - 1)
    BY <2>1
  <2>3. QED BY <2>1, <2>2
<1>10. \A i \in 1..n : /\ read_buf.cells[t + i - 1] \in Byte
                       /\ RealByte(read_buf.cells[t + i - 1])
  <2>1. read_buf.cells \in [Cells -> Byte]
    BY <1>1, BufferFields
  <2>2. QED BY <1>1, <1>9, <2>1 DEF AllReal
<1>11. PICK batch : batch = Batch(n)
  OBVIOUS
<1>12. batch = [i \in 1..n |-> read_buf.cells[t + i - 1]]
  BY <1>5, <1>11 DEF Batch
<1>13. /\ batch \in Seq(Byte) /\ Len(batch) = n
       /\ \A i \in 1..n : batch[i] = read_buf.cells[t + i - 1]
  <2>1. [i \in 1..n |-> read_buf.cells[t + i - 1]] \in Seq(Byte)
    BY <1>1, <1>10
  <2>2. QED BY <1>1, <1>12, <2>1
<1>14. \A i \in 1..n : s + i \in 1..(s + n) /\ h + (s + i) - 1 = t + i - 1
  BY <1>1, <1>5
<1>15. \A i \in 1..n : bytes[s + i] = batch[i]
  BY <1>6, <1>13, <1>14
<1>16. Arriving(n) = batch
  <2>1. /\ s + 1 \in Nat /\ s + n \in Nat /\ 1 <= s + 1 /\ s + 1 <= (s + n) + 1
        /\ s + n <= Len(bytes) /\ (s + n) - (s + 1) + 1 = n
        /\ \A i \in 1..n : (s + 1) + i - 1 = s + i
    <3>1. s \in Nat /\ n \in Nat /\ Len(bytes) = s + n
      BY <1>1, <1>6
    <3>2. \A i \in 1..n : (s + 1) + i - 1 = s + i
      BY <3>1
    <3>3. (s + n) - (s + 1) + 1 = n
      BY <3>1
    <3>4. QED BY <3>1, <3>2, <3>3
  <2>2. PICK slice : slice = SubSeq(bytes, s + 1, s + n)
    OBVIOUS
  <2>3. slice \in Seq(Byte) /\ Len(slice) = n /\ \A i \in 1..n : slice[i] = bytes[s + i]
    BY <1>6, <2>1, <2>2, Slice
  <2>4. \A i \in 1..n : slice[i] = batch[i]
    BY <1>15, <2>3
  <2>5. slice = batch
    BY <1>13, <2>3, <2>4, SeqEqual
  <2>6. QED BY <1>2, <1>5, <2>2, <2>5 DEF Arriving
<1>17. QED BY <1>5, <1>6, <1>7, <1>8, <1>10, <1>11, <1>13, <1>15, <1>16

\* What may come after a byte of the stream.
LEMMA ContinuesReal ==
  ASSUME SentOK, NEW e, NEW b, RealByte(e), RealByte(b), Continues(e, b)
  PROVE  /\ Written(b)
         /\ Ends(e) => Place(b) = 1 /\ Of(b) > Of(e)
         /\ ~Ends(e) => Written(e) /\ Of(b) = Of(e) /\ Place(b) = Place(e) + 1
<1>1. /\ e \in Byte /\ Of(e) \in Nat /\ Place(e) \in Nat
      /\ b \in Byte /\ Of(b) \in Nat /\ Place(b) \in Nat
  BY ByteIs DEF RealByte
<1>2. Of(NoByte) = 0 /\ Place(NoByte) = 0
  BY DEF NoByte, Of, Place
<1>3. Written(b)
  <2>1. Place(b) # 0
    BY <1>1 DEF Continues
  <2>2. QED BY <1>2, <2>1 DEF RealByte
<1>4. Of(b) \in 1..Len(sent) /\ Place(b) \in 1..PacketLength(Of(b))
      /\ PacketLength(Of(b)) \in Nat
  BY <1>1, <1>3, EndsReal
<1>5. CASE Ends(e)
  <2>1. ~(Of(b) = Of(e) /\ Place(b) = Place(e) + 1)
    <3>1. ASSUME Of(b) = Of(e), Place(b) = Place(e) + 1 PROVE FALSE
      <4>1. e # NoByte
        BY <1>2, <1>4, <3>1
      <4>2. Place(e) = PacketLength(Of(b))
        BY <1>5, <3>1, <4>1 DEF Ends
      <4>3. QED BY <1>4, <3>1, <4>2
    <3>2. QED BY <3>1
  <2>2. QED BY <1>3, <1>5, <2>1 DEF Continues
<1>6. CASE ~Ends(e)
  <2>1. e # NoByte
    BY <1>6 DEF Ends
  <2>2. QED BY <1>3, <1>6, <2>1 DEF Continues, RealByte
<1>7. QED BY <1>5, <1>6

\* What the parser is given when a read is handled.
LEMMA ArrivingChained ==
  ASSUME StreamInv, ParsedOK, NEW n \in 1..FreeSize(read_buf), ~Torn(Batch(n)),
         NEW bytes, bytes = Contents(Committed(read_buf, n))
  PROVE  /\ Chained(bytes) /\ bytes # <<>> /\ bytes[Len(bytes)] = Batch(n)[n]
         /\ Ends(last) => Size(read_buf) = 0 /\ Of(last) < Of(bytes[1])
         /\ ~Ends(last) => bytes[1] = <<Of(last), 1>> /\ Size(read_buf) > 0
         /\ \A i \in 1..Size(read_buf) : bytes[i] = <<Of(last), i>>
<1>1. SentOK /\ BufferOK(read_buf) /\ RealByte(last) /\ n \in Nat /\ n >= 1
  BY RealBuffer DEF StreamInv, BytesOK
<1>2. PICK s \in Nat : s = Size(read_buf)
  BY RealBuffer
<1>3. PICK batch \in Seq(Byte) :
        /\ batch = Batch(n) /\ Len(batch) = n
        /\ \A i \in 1..n : RealByte(batch[i])
  BY ArrivingIs
<1>4. /\ bytes \in Seq(Byte) /\ Len(bytes) = s + n
      /\ \A i \in 1..s : bytes[i] = Contents(read_buf)[i]
      /\ \A i \in 1..n : bytes[s + i] = batch[i]
  BY <1>2, <1>3, ArrivingIs
<1>5. Continues(last, batch[1])
  <2>1. 1 \in 1..Len(batch)
    BY <1>1, <1>3
  <2>2. QED BY <1>3, <2>1 DEF Torn
<1>6. \A i \in 2..n : Continues(batch[i - 1], batch[i]) /\ i \in 1..n /\ i - 1 \in 1..n
  <2>1. \A i \in 2..n : i \in 1..n /\ i # 1 /\ i - 1 \in 1..n
    BY <1>1
  <2>2. QED BY <1>3, <2>1 DEF Torn
<1>7. 1 \in 1..n /\ n \in 1..n
  BY <1>1
<1>8. \A i \in 1..n : Written(batch[i])
  <2>1. Written(batch[1])
    BY <1>1, <1>3, <1>5, <1>7, ContinuesReal
  <2>2. ASSUME NEW i \in 2..n PROVE Written(batch[i])
    BY <1>1, <1>3, <1>6, ContinuesReal
  <2>3. \A i \in 1..n : i = 1 \/ i \in 2..n
    BY <1>1
  <2>4. QED BY <2>1, <2>2, <2>3
<1>9. bytes # <<>> /\ bytes[Len(bytes)] = batch[n] /\ bytes[s + 1] = batch[1]
  <2>1. Len(bytes) # 0
    BY <1>1, <1>4
  <2>2. QED BY <1>4, <1>7, <2>1
<1>10. \A i \in 1..(s + n) : i \in 1..s \/ (i - s \in 1..n /\ s + (i - s) = i)
  BY <1>1
<1>11. CASE Ends(last)
  <2>1. s = 0
    <3>1. Contents(read_buf) = <<>>
      BY <1>11 DEF ParsedOK
    <3>2. QED BY <1>1, <1>2, <3>1, ContentsType
  <2>2. Place(batch[1]) = 1 /\ Of(batch[1]) > Of(last)
    BY <1>1, <1>3, <1>5, <1>7, <1>11, ContinuesReal
  <2>3. Len(bytes) = n /\ \A i \in 1..n : bytes[i] = batch[i]
    BY <1>1, <1>4, <2>1
  <2>4. \A i \in 1..n : i # 1 => i \in 2..n
    BY <1>1
  <2>5. Chained(bytes)
    BY <1>4, <1>6, <1>7, <1>8, <2>2, <2>3, <2>4 DEF Chained
  <2>6. Of(last) < Of(bytes[1])
    <3>1. Of(last) \in Nat /\ Of(batch[1]) \in Nat
      BY <1>1, <1>3, <1>7, ByteIs DEF RealByte
    <3>2. QED BY <1>7, <2>2, <2>3, <3>1
  <2>7. 1..s = {}
    BY <2>1
  <2>8. QED BY <1>2, <1>3, <1>9, <1>11, <2>1, <2>5, <2>6, <2>7
<1>12. CASE ~Ends(last)
  <2>1. Written(last) /\ Of(batch[1]) = Of(last) /\ Place(batch[1]) = Place(last) + 1
    BY <1>1, <1>3, <1>5, <1>7, <1>12, ContinuesReal
  <2>2. PICK id \in 1..Len(sent), length \in Nat, place \in Nat :
          /\ id = Of(last) /\ length = PacketLength(id) /\ place = Place(last)
          /\ 1 <= place /\ place <= length
    <3>1. Of(last) \in 1..Len(sent) /\ PacketLength(Of(last)) \in Nat
          /\ Place(last) \in 1..PacketLength(Of(last))
      BY <1>1, <2>1, EndsReal DEF RealByte
    <3>2. Place(last) \in Nat /\ 1 <= Place(last) /\ Place(last) <= PacketLength(Of(last))
      BY <3>1
    <3>3. QED BY <3>1, <3>2
  <2>3. PICK front : /\ front = Contents(read_buf) /\ front = SubSeq(Image(id), 1, place)
                     /\ Len(front) = s
    BY <1>1, <1>2, <1>12, <2>2, ContentsType DEF ParsedOK
  <2>4. s = place /\ \A i \in 1..s : front[i] = <<id, i>>
    <3>1. PICK image \in Seq(Byte) : /\ image = Image(id) /\ Len(image) = length
                                     /\ \A i \in 1..length : image[i] = <<id, i>>
      BY <1>1, <2>2, ImageIs
    <3>2. /\ 1 <= 1 /\ 1 <= place + 1 /\ place <= Len(image) /\ place - 1 + 1 = place
          /\ \A i \in 1..place : 1 + i - 1 = i /\ i \in 1..length
      BY <2>2, <3>1
    <3>3. Len(front) = place /\ \A i \in 1..place : front[i] = image[i]
      BY <2>2, <2>3, <3>1, <3>2, Slice
    <3>4. QED BY <2>3, <3>1, <3>2, <3>3
  <2>5. \A i \in 1..s : bytes[i] = <<id, i>>
    BY <1>4, <2>3, <2>4
  <2>6. s > 0 /\ 1 \in 1..s /\ s \in 1..s
    BY <1>2, <2>2, <2>4
  <2>7. \A i \in 1..s : Written(bytes[i]) /\ Of(bytes[i]) = id /\ Place(bytes[i]) = i
    <3>1. \A i \in 1..s : i \in 1..PacketLength(id)
      BY <2>2, <2>4
    <3>2. ASSUME NEW i \in 1..s
          PROVE  Written(bytes[i]) /\ Of(bytes[i]) = id /\ Place(bytes[i]) = i
      <4>1. bytes[i] = <<id, i>>
        BY <2>5
      <4>2. Written(<<id, i>>)
        BY <1>1, <3>1, WrittenReal
      <4>3. QED BY <4>1, <4>2 DEF Of, Place
    <3>3. QED BY <3>2
  <2>8. \A i \in 1..(s + n) : Written(bytes[i])
    BY <1>4, <1>8, <1>10, <2>7
  <2>9. ASSUME NEW i \in 1..(s + n), i # 1 PROVE Continues(bytes[i - 1], bytes[i])
    <3>1. CASE i \in 1..s
      <4>1. i - 1 \in 1..s /\ i = (i - 1) + 1
        BY <2>9, <3>1
      <4>2. QED BY <2>7, <3>1, <4>1 DEF Continues
    <3>2. CASE i = s + 1
      <4>1. i - 1 = s /\ bytes[i] = batch[1]
        BY <1>2, <1>9, <3>2
      <4>2. Of(bytes[i - 1]) = id /\ Place(bytes[i - 1]) = s
        BY <2>6, <2>7, <4>1
      <4>3. QED BY <2>1, <2>2, <2>4, <4>1, <4>2 DEF Continues
    <3>3. CASE i \notin 1..s /\ i # s + 1
      <4>1. PICK k \in 2..n : k = i - s
        BY <1>1, <1>2, <2>9, <3>3
      <4>2. s + k = i /\ s + (k - 1) = i - 1
        BY <1>2, <4>1
      <4>3. Continues(batch[k - 1], batch[k]) /\ k \in 1..n /\ k - 1 \in 1..n
        BY <1>6, <4>1
      <4>4. bytes[i] = batch[k] /\ bytes[i - 1] = batch[k - 1]
        BY <1>4, <4>2, <4>3
      <4>5. QED BY <4>3, <4>4
    <3>4. QED BY <3>1, <3>2, <3>3
  <2>10. Chained(bytes)
    BY <1>4, <2>6, <2>7, <2>8, <2>9 DEF Chained
  <2>11. QED BY <1>2, <1>3, <1>9, <1>12, <2>2, <2>5, <2>6, <2>10
<1>13. QED BY <1>11, <1>12

\* What the parser leaves is what there is of an unfinished packet.
LEMMA ParsedTail ==
  ASSUME SentOK, NEW bytes, Chained(bytes), bytes # <<>>, NEW r, Exact(bytes, 0, r),
         NEW e, e = bytes[Len(bytes)]
  PROVE  /\ e \in Byte /\ Written(e) /\ r.consumed \in 0..Len(bytes)
         /\ Ends(e) <=> r.consumed = Len(bytes)
         /\ ~Ends(e) => /\ Len(bytes) - r.consumed = Place(e)
                        /\ r.consumed + 1 \in 1..Len(bytes)
                        /\ \A i \in 1..Place(e) : bytes[r.consumed + i] = <<Of(e), i>>
<1>1. PICK l \in Nat : l = Len(bytes) /\ l # 0 /\ l \in 1..l
  <2>1. bytes \in Seq(Byte) /\ bytes # <<>>
    BY DEF Chained
  <2>2. Len(bytes) \in Nat /\ Len(bytes) # 0
    BY <2>1
  <2>3. QED BY <2>2
<1>2. e \in Byte /\ Written(e)
  BY <1>1 DEF Chained
<1>3. PICK c \in Nat : c = r.consumed /\ c \in 0..l
  BY <1>1 DEF Exact
<1>4. CASE c = l
  <2>1. Ends(e)
    BY <1>1, <1>3, <1>4 DEF Exact
  <2>2. QED BY <1>1, <1>2, <1>3, <1>4, <2>1
<1>5. CASE c # l
  <2>1. PICK id \in 1..Len(sent) : /\ id = Of(bytes[c + 1]) /\ Place(bytes[c + 1]) = 1
                                   /\ c + PacketLength(id) > l
    <3>1. c + 1 \in 1..l
      BY <1>1, <1>3, <1>5
    <3>2. Of(bytes[c + 1]) \in 1..Len(sent)
      BY <1>1, <3>1, ChainBytes
    <3>3. QED BY <1>1, <1>3, <1>5, <3>2 DEF Exact
  <2>2. PICK length \in Nat : length = PacketLength(id) /\ c + length > l
    BY <2>1, PacketFits, Constants
  <2>3. PICK m \in Nat : m = l - c /\ m >= 1 /\ m < length /\ c + m = l
    <3>1. /\ l \in Nat /\ c \in Nat /\ length \in Nat
          /\ c <= l /\ c # l /\ c + length > l
      BY <1>3, <1>5, <2>2
    <3>2. l - c \in Nat /\ l - c >= 1 /\ l - c < length /\ c + (l - c) = l
      BY <3>1
    <3>3. QED BY <3>2
  <2>4. ASSUME NEW i \in 1..m PROVE bytes[c + i] = <<id, i>>
    <3>1. i \in 1..length /\ c + i <= l
      <4>1. /\ c \in Nat /\ m \in Nat /\ length \in Nat /\ l \in Nat
            /\ c + m = l /\ m < length
        BY <2>3
      <4>2. QED BY <4>1
    <3>2. c \in 0..Len(bytes) /\ c # Len(bytes) /\ i \in 1..PacketLength(id) /\ c + i <= Len(bytes)
      BY <1>1, <1>3, <1>5, <2>2, <3>1
    <3>3. QED BY <2>1, <3>2, PacketRuns
  <2>5. m \in 1..m
    BY <2>3
  <2>6. bytes[c + m] = <<id, m>>
    BY <2>4, <2>5
  <2>7. e = <<id, m>>
    BY <1>1, <2>3, <2>6
  <2>8. Of(e) = id /\ Place(e) = m
    BY <2>7 DEF Of, Place
  <2>9. ~Ends(e)
    <3>1. Ends(e) <=> Place(e) = PacketLength(Of(e))
      BY <1>2, EndsReal
    <3>2. QED BY <2>2, <2>3, <2>8, <3>1
  <2>10. c + 1 \in 1..l
    BY <1>1, <1>3, <1>5
  <2>11. QED BY <1>1, <1>2, <1>3, <1>5, <2>3, <2>4, <2>8, <2>9, <2>10
<1>6. QED BY <1>4, <1>5

\* Where the last of the bytes is of the packet that begins at place k, or the
\* packet was parsed.
LEMMA BeganOrParsed ==
  ASSUME SentOK, NEW bytes, Chained(bytes), NEW r, Exact(bytes, 0, r),
         NEW e, e = bytes[Len(bytes)], NEW k \in 1..Len(bytes), NEW id,
         bytes[k] = <<id, 1>>
  PROVE  /\ id \in Nat /\ Of(e) \in Nat /\ id <= Of(e)
         /\ \/ id = Of(e) /\ ~Ends(e)
            \/ \E i \in 1..Len(r.packets) : r.packets[i].id = id
<1>1. PICK l \in Nat : l = Len(bytes) /\ l # 0 /\ l \in 1..l /\ k <= l
  <2>1. bytes \in Seq(Byte)
    BY DEF Chained
  <2>2. Len(bytes) \in Nat /\ Len(bytes) # 0 /\ k <= Len(bytes)
    BY <2>1
  <2>3. QED BY <2>2
<1>2. bytes # <<>>
  BY <1>1
<1>3. Of(bytes[k]) = id /\ Place(bytes[k]) = 1
  BY DEF Of, Place
<1>4. Of(bytes[k]) <= Of(bytes[l])
  BY <1>1, ChainAscends
<1>5. id \in Nat /\ Of(e) \in Nat /\ id <= Of(e)
  <2>1. \A i \in 1..Len(sent) : i \in Nat
    BY DEF SentOK
  <2>2. Of(bytes[k]) \in 1..Len(sent) /\ Of(bytes[l]) \in 1..Len(sent)
    BY <1>1, ChainBytes
  <2>3. QED BY <1>1, <1>3, <1>4, <2>1, <2>2
<1>6. k = r.consumed + 1 \/ \E i \in 1..Len(r.packets) : r.packets[i].id = id
  <2>1. k \in (0 + 1)..Len(bytes)
    BY <1>1
  <2>2. QED BY <1>3, <2>1 DEF Exact
<1>7. CASE k = r.consumed + 1
  <2>1. ~Ends(e)
    <3>1. r.consumed # l
      BY <1>1, <1>7
    <3>2. QED BY <1>1, <1>2, <3>1, ParsedTail
  <2>2. bytes[r.consumed + 1] = <<Of(e), 1>>
    <3>1. Place(e) \in Nat /\ Place(e) >= 1
      <4>1. e \in Byte /\ Written(e)
        BY <1>2, ParsedTail
      <4>2. Place(e) \in 1..PacketLength(Of(e)) /\ Place(e) \in Nat
        BY <4>1, EndsReal, ByteIs
      <4>3. QED BY <4>2
    <3>2. 1 \in 1..Place(e)
      BY <3>1
    <3>3. QED BY <1>2, <2>1, <3>2, ParsedTail
  <2>3. Of(e) = id
    BY <1>3, <1>7, <2>2 DEF Of
  <2>4. QED BY <1>5, <2>1, <2>3
<1>8. QED BY <1>5, <1>6, <1>7

\* Packets before others, and their numbers.
Precede(q, r) == \A i \in 1..Len(q), k \in 1..Len(r) : q[i].id < r[k].id
Ids(q) == { q[i].id : i \in 1..Len(q) }

\* The packets of one parse after those that were parsed before.
LEMMA JoinedPackets ==
  ASSUME NEW q, NEW r, InOrder(q), InOrder(r), Precede(q, r), NEW all, all = q \o r
  PROVE  InOrder(all) /\ Ids(all) = Ids(q) \union Ids(r)
<1>1. /\ all \in Seq(Packets) /\ Len(all) = Len(q) + Len(r)
      /\ \A n \in 1..Len(q) : all[n] = q[n]
      /\ \A k \in 1..Len(r) : all[Len(q) + k] = r[k]
  BY Joined DEF InOrder
<1>2. PICK m \in Nat, n \in Nat : m = Len(q) /\ n = Len(r)
  BY DEF InOrder
<1>3. /\ Len(all) = m + n
      /\ \A i \in 1..m : all[i] = q[i] /\ i \in 1..(m + n)
      /\ \A i \in 1..n : all[m + i] = r[i] /\ m + i \in 1..(m + n)
  <2>1. \A i \in 1..m : i \in 1..(m + n)
    BY <1>2
  <2>2. \A i \in 1..n : m + i \in 1..(m + n)
    BY <1>2
  <2>3. QED BY <1>1, <1>2, <2>1, <2>2
<1>4. \A i \in 1..(m + n) : i \in 1..m \/ \E k \in 1..n : i = m + k
  <2>1. ASSUME NEW i \in 1..(m + n), ~(i \in 1..m) PROVE i - m \in 1..n /\ i = m + (i - m)
    BY <1>2, <2>1
  <2>2. QED BY <2>1
<1>5. \A k \in 1..(m + n) : \/ \E i \in 1..m : all[k] = q[i]
                            \/ \E i \in 1..n : all[k] = r[i]
  BY <1>3, <1>4
<1>6. \A k \in 1..(m + n) : Intact(all[k])
  BY <1>2, <1>5 DEF InOrder
<1>7. ASSUME NEW i \in 2..(m + n) PROVE all[i - 1].id < all[i].id
  <2>1. CASE i <= m
    <3>1. i \in 2..m /\ i \in 1..m /\ i - 1 \in 1..m
      BY <1>2, <2>1
    <3>2. q[i - 1].id < q[i].id
      BY <1>2, <3>1 DEF InOrder
    <3>3. QED BY <1>3, <3>1, <3>2
  <2>2. CASE i = m + 1
    <3>1. i - 1 \in 1..m /\ 1 \in 1..n
      BY <1>2, <2>2
    <3>2. q[i - 1].id < r[1].id
      BY <1>2, <3>1 DEF Precede
    <3>3. QED BY <1>3, <2>2, <3>1, <3>2
  <2>3. CASE i > m + 1
    <3>1. PICK k \in 2..n : k = i - m
      BY <1>2, <2>3
    <3>2. /\ k \in 1..n /\ k - 1 \in 1..n /\ m + k = i /\ m + (k - 1) = i - 1
      BY <1>2, <3>1
    <3>3. r[k - 1].id < r[k].id
      BY <1>2 DEF InOrder
    <3>4. all[m + k] = r[k] /\ all[m + (k - 1)] = r[k - 1]
      BY <1>3, <3>2
    <3>5. QED BY <3>2, <3>3, <3>4
  <2>4. i <= m \/ i = m + 1 \/ i > m + 1
    <3>1. i \in Int /\ m \in Int
      BY <1>2
    <3>2. QED BY <3>1
  <2>5. QED BY <2>1, <2>2, <2>3, <2>4
<1>8. InOrder(all)
  <2>1. PICK total : total = m + n /\ Len(all) = total
    BY <1>3
  <2>2. /\ \A i \in 1..total : Intact(all[i])
        /\ \A i \in 2..total : all[i - 1].id < all[i].id
    BY <1>6, <1>7, <2>1, Zenon
  <2>3. QED BY <1>1, <2>1, <2>2, Zenon DEF InOrder
<1>9. Ids(all) \subseteq Ids(q) \union Ids(r)
  BY <1>2, <1>3, <1>5 DEF Ids
<1>10. Ids(q) \subseteq Ids(all)
  BY <1>2, <1>3 DEF Ids
<1>11. Ids(r) \subseteq Ids(all)
  BY <1>2, <1>3 DEF Ids
<1>12. QED BY <1>8, <1>9, <1>10, <1>11

\* To begin a read keeps the contents.
LEMMA ReadContents ==
  ASSUME NEW b, BufferOK(b), NEW connected, NEW pending, DoReadPacket(connected, pending, b),
         NEW id, FirstCell(b, id), \A i \in 1..Size(b) : Of(Contents(b)[i]) <= id
  PROVE  Contents(read_buf') = Contents(b) /\ FirstCell(read_buf', id)
<1>1. PICK n : n = ReadSize(b)
  OBVIOUS
<1>2. n \in Nat
  BY <1>1, BufferFields DEF ReadSize
<1>3. read_buf' = b \/ read_buf' = Prepared(b, n)
  BY <1>1 DEF DoReadPacket
<1>4. Contents(Prepared(b, n)) = Contents(b)
  BY <1>2, PreparedKeeps
<1>5. Prepared(b, n) = b \/ Prepared(b, n) = Compacted(b)
  BY DEF Prepared
<1>6. FirstCell(Compacted(b), id)
  <2>1. SUFFICES ASSUME Size(b) > 0 PROVE Of(Compacted(b).cells[0]) <= id
    BY DEF FirstCell, Compacted
  <2>2. /\ Size(b) \in Nat /\ b.head \in Nat /\ 0 \in Cells /\ 1 \in 1..Size(b)
        /\ b.head + 0 = b.head /\ b.head + 1 - 1 = b.head
    BY <2>1, BufferFields, Constants
  <2>3. PICK cells : cells = [c \in Cells |-> IF c < Size(b) THEN b.cells[b.head + c]
                                                            ELSE b.cells[c]]
    OBVIOUS
  <2>4. cells[0] = b.cells[b.head]
    BY <2>1, <2>2, <2>3
  <2>5. Compacted(b).cells = cells
    BY <2>3 DEF Compacted
  <2>6. Contents(b)[1] = b.cells[b.head]
    BY <2>2, ContentsType
  <2>7. QED BY <2>2, <2>4, <2>5, <2>6
<1>7. QED BY <1>3, <1>4, <1>5, <1>6

\* The handler of the one read that is completed.
LEMMA ReadLength ==
  ASSUME StreamInv, Runs("read"), Queues(<<>>)
  PROVE  Lengths = {Head(ioq).length}
<1>1. QueueInv
  BY DEF StreamInv
<1>2. 1 \in Queued("read") /\ Head(ioq) = ioq[1]
  BY <1>1, AbortsOK, Dequeued
<1>3. Queued("read") = {1}
  BY <1>1, <1>2 DEF QueueInv, Once
<1>4. QED BY <1>2, <1>3 DEF Lengths

\* What the packets are does not change while none is written.
LEMMA EndsSame ==
  ASSUME sent' = sent, NEW e, e = last'
  PROVE  /\ Ends(last)' <=> Ends(e)
         /\ \A p : Intact(p)' <=> Intact(p)
         /\ \A id : First(id)' <=> First(id)
         /\ \A id : Image(id)' = Image(id)
  BY DEF Ends, Of, Place, PacketLength, Intact, Image, First

\* The beginning of a packet.
LEMMA ImageFront ==
  ASSUME SentOK, NEW id \in 1..Len(sent), NEW m \in Nat, m <= PacketLength(id)
  PROVE  SubSeq(Image(id), 1, m) = [i \in 1..m |-> <<id, i>>]
<1>1. PICK length \in Nat : length = PacketLength(id)
  BY PacketFits, Constants
<1>2. PICK image \in Seq(Byte) : /\ image = Image(id) /\ Len(image) = length
                                 /\ \A i \in 1..length : image[i] = <<id, i>>
  BY <1>1, ImageIs
<1>3. /\ 1 <= m + 1 /\ m <= Len(image) /\ m - 1 + 1 = m
      /\ \A i \in 1..m : 1 + i - 1 = i /\ i \in 1..length
  BY <1>1, <1>2
<1>4. PICK front : front = SubSeq(image, 1, m)
  OBVIOUS
<1>5. front \in Seq(Byte) /\ Len(front) = m /\ \A i \in 1..m : front[i] = image[i]
  BY <1>2, <1>3, <1>4, Slice
<1>6. front = [i \in 1..m |-> front[i]]
  BY <1>5
<1>7. \A i \in 1..m : front[i] = <<id, i>>
  BY <1>2, <1>3, <1>5
<1>8. front = [i \in 1..m |-> <<id, i>>]
  BY <1>6, <1>7
<1>9. QED BY <1>2, <1>4, <1>8

\* The completed read is handled, and its bytes do not tear the stream.
LEMMA RunReadExact ==
  ASSUME StreamInv, OrderInv, RunRead, ~torn'
  PROVE  /\ Whole /\ ParsedOK' /\ NoneMissed'
         /\ \A id : Had(id) \/ InBatch(id) => Had(id)'
<1>1. PICK n \in 1..FreeSize(read_buf) : n = Head(ioq).length
  BY ReadTaken DEF RunRead
<1>2. PICK full : full = Committed(read_buf, n)
  OBVIOUS
<1>3. PICK bytes : bytes = Contents(full)
  OBVIOUS
<1>4. PICK r : r = Parsed(bytes)
  OBVIOUS
<1>5. PICK batch : batch = Batch(n)
  OBVIOUS
<1>6. /\ received' = received \o r.packets
      /\ DoReadPacket(connect_state = "connected", FALSE, Consumed(full, r.consumed))
      /\ last' = batch[n] /\ torn' = (torn \/ Torn(batch)) /\ sent' = sent
      /\ Lengths = {n}
  <2>1. Arriving(n) = batch
    BY <1>2, <1>3, <1>5, ArrivingIs
  <2>2. Lengths = {n}
    BY <1>1, ReadLength DEF RunRead
  <2>3. QED BY <1>1, <1>2, <1>3, <1>4, <2>1, <2>2 DEF RunRead, peerVars
<1>7. ~torn /\ ~Torn(batch) /\ Whole /\ ParsedOK /\ NoneMissed /\ BatchOrder
  <2>1. ~torn /\ ~Torn(batch)
    BY <1>6
  <2>2. Whole
    BY <1>5, <1>6, <2>1 DEF Whole
  <2>3. QED BY <2>1, <2>2 DEF OrderInv
<1>8. SentOK /\ BufferOK(read_buf) /\ AllReal(read_buf) /\ RealByte(last)
  BY RealBuffer DEF StreamInv, BytesOK
<1>9. PICK s \in Nat : s = Size(read_buf)
  BY RealBuffer
<1>10. PICK e : e = last'
  OBVIOUS
<1>11. /\ Chained(bytes) /\ bytes # <<>> /\ bytes[Len(bytes)] = e
       /\ Ends(last) => s = 0 /\ Of(last) < Of(bytes[1])
       /\ ~Ends(last) => bytes[1] = <<Of(last), 1>> /\ s > 0
       /\ \A i \in 1..s : bytes[i] = <<Of(last), i>>
  BY <1>2, <1>3, <1>5, <1>6, <1>7, <1>9, <1>10, ArrivingChained
<1>12. PICK l \in Nat : /\ l = Len(bytes) /\ l = s + n /\ l \in 1..l /\ 1 \in 1..l
                        /\ \A i \in 1..n : bytes[s + i] = batch[i] /\ s + i \in 1..l
  <2>1. bytes \in Seq(Byte) /\ Len(bytes) = s + n /\ \A i \in 1..n : bytes[s + i] = batch[i]
    BY <1>2, <1>3, <1>5, <1>9, ArrivingIs
  <2>2. n \in Nat /\ n >= 1
    BY <1>8, BufferFields
  <2>3. s + n \in Nat /\ s + n \in 1..(s + n) /\ 1 \in 1..(s + n)
    BY <2>2
  <2>4. \A i \in 1..n : s + i \in 1..(s + n)
    BY <2>2
  <2>5. QED BY <2>1, <2>3, <2>4
<1>13. Exact(bytes, 0, r)
  BY <1>4, <1>8, <1>11, ParsedExact
<1>14. PICK ids : ids = { r.packets[i].id : i \in 1..Len(r.packets) }
  OBVIOUS
<1>15. r.packets \in Seq(Packets) /\ received \in Seq(Packets)
  BY <1>7, <1>13 DEF Exact, ParsedOK, InOrder
<1>16. \A i \in 1..Len(r.packets) :
         /\ Intact(r.packets[i])
         /\ r.packets[i].id < Of(e) \/ (r.packets[i].id = Of(e) /\ Ends(e))
         /\ \E k \in 1..l : bytes[k] = <<r.packets[i].id, 1>>
  <2>1. \A k \in (0 + 1)..Len(bytes) : k \in 1..l
    BY <1>12
  <2>2. QED BY <1>11, <1>13, <2>1 DEF Exact, Found
<1>17. \A k \in 1..l : Of(bytes[k]) \in Nat /\ Of(bytes[1]) <= Of(bytes[k])
                       /\ Of(bytes[k]) <= Of(e)
  <2>1. \A i \in 1..Len(sent) : i \in Nat
    BY <1>8 DEF SentOK
  <2>2. ASSUME NEW k \in 1..l
        PROVE  /\ Of(bytes[k]) \in Nat /\ Of(bytes[1]) <= Of(bytes[k])
               /\ Of(bytes[k]) <= Of(e)
    <3>1. 1 <= k /\ k <= l
      BY <1>12
    <3>2. Of(bytes[k]) \in Nat
      BY <1>8, <1>11, <1>12, <2>1, ChainBytes
    <3>3. QED BY <1>8, <1>11, <1>12, <3>1, <3>2, ChainAscends
  <2>3. QED BY <2>2
\* What was received before are packets before these.
<1>18. \A id \in ReceivedIds : id \in Nat /\ id < Of(bytes[1])
  <2>1. ASSUME NEW id \in ReceivedIds PROVE id \in Nat /\ id < Of(bytes[1])
    <3>1. id \in Nat
      <4>1. PICK i \in 1..Len(received) : id = received[i].id
        BY DEF ReceivedIds
      <4>2. received[i] \in Packets
        BY <1>15, Element
      <4>3. QED BY <4>1, <4>2 DEF Packets
    <3>2. Of(last) \in Nat /\ Of(bytes[1]) \in Nat
      BY <1>8, <1>12, <1>17, ByteIs DEF RealByte
    <3>3. id < Of(last) \/ (id = Of(last) /\ Ends(last))
      BY <1>7 DEF ParsedOK
    <3>4. CASE Ends(last)
      BY <1>11, <3>1, <3>2, <3>3, <3>4
    <3>5. CASE ~Ends(last)
      <4>1. Of(bytes[1]) = Of(last)
        BY <1>11, <3>5 DEF Of
      <4>2. QED BY <3>1, <3>3, <3>5, <4>1
    <3>6. QED BY <3>1, <3>4, <3>5
  <2>2. QED BY <2>1
<1>19. InOrder(received)' /\ ReceivedIds' = ReceivedIds \union ids
  <2>1. PICK q : q = r.packets
    OBVIOUS
  <2>2. Ids(received) = ReceivedIds /\ Ids(q) = ids
    BY <1>14, <2>1 DEF Ids, ReceivedIds
  <2>3. Precede(received, q)
    <3>1. ASSUME NEW i \in 1..Len(received), NEW k \in 1..Len(q) PROVE received[i].id < q[k].id
      <4>1. received[i].id \in ReceivedIds
        BY DEF ReceivedIds
      <4>2. PICK j \in 1..l : bytes[j] = <<q[k].id, 1>>
        BY <1>16, <2>1
      <4>3. Of(bytes[j]) = q[k].id
        BY <4>2 DEF Of
      <4>4. QED BY <1>12, <1>17, <1>18, <4>1, <4>3
    <3>2. QED BY <3>1 DEF Precede
  <2>4. InOrder(received)
    BY <1>7 DEF ParsedOK
  <2>5. InOrder(q)
    BY <1>13, <1>15, <2>1 DEF InOrder, Exact
  <2>6. PICK all : all = received \o q
    OBVIOUS
  <2>7. InOrder(all) /\ Ids(all) = ReceivedIds \union ids
    BY <2>2, <2>3, <2>4, <2>5, <2>6, JoinedPackets
  <2>8. all = received'
    BY <1>6, <2>1, <2>6
  <2>9. ReceivedIds' = ReceivedIds \union ids
    BY <2>7, <2>8 DEF Ids, ReceivedIds
  <2>10. \A i \in 1..Len(all) : Intact(all[i])'
    BY <1>6, <2>7, EndsSame DEF InOrder
  <2>11. QED BY <2>7, <2>8, <2>9, <2>10 DEF InOrder
<1>20. \A id : First(id)' <=> First(id)
  BY <1>6, EndsSame
<1>21. Ends(last)' <=> Ends(e)
  BY <1>6, <1>10, EndsSame
\* A packet that begins in these bytes is received, or the unfinished one.
<1>22. ASSUME NEW k \in 1..l, NEW id, bytes[k] = <<id, 1>>
       PROVE  /\ id \in Nat /\ Of(e) \in Nat /\ id <= Of(e)
              /\ id \in ids \/ (id = Of(e) /\ ~Ends(e))
  <2>1. e = bytes[Len(bytes)] /\ k \in 1..Len(bytes) /\ Chained(bytes)
    BY <1>11, <1>12
  <2>2. /\ id \in Nat /\ Of(e) \in Nat /\ id <= Of(e)
        /\ \/ id = Of(e) /\ ~Ends(e)
           \/ \E i \in 1..Len(r.packets) : r.packets[i].id = id
    BY <1>8, <1>13, <1>22, <2>1, BeganOrParsed
  <2>3. QED BY <1>14, <2>2
<1>23. ASSUME NEW id, Had(id)
       PROVE  id \in ReceivedIds \/ \E k \in 1..l : bytes[k] = <<id, 1>>
  BY <1>11, <1>12, <1>23 DEF Had
<1>24. ASSUME NEW id, Had(id) \/ InBatch(id) PROVE Had(id)'
  <2>1. ASSUME NEW k \in 1..l, bytes[k] = <<id, 1>> PROVE Had(id)'
    <3>1. id \in ids \/ (id = Of(e) /\ ~Ends(e))
      BY <1>22, <2>1
    <3>2. QED BY <1>10, <1>19, <1>21, <3>1 DEF Had
  <2>2. CASE Had(id)
    <3>1. CASE id \in ReceivedIds
      BY <1>19, <3>1 DEF Had
    <3>2. CASE id \notin ReceivedIds
      BY <1>23, <2>1, <2>2, <3>2
    <3>3. QED BY <3>1, <3>2
  <2>3. CASE InBatch(id)
    <3>1. PICK i \in 1..n : batch[i] = <<id, 1>>
      BY <1>5, <1>6, <2>3 DEF InBatch
    <3>2. s + i \in 1..l /\ bytes[s + i] = <<id, 1>>
      BY <1>12, <3>1
    <3>3. QED BY <2>1, <3>2
  <2>4. QED BY <1>24, <2>2, <2>3
\* Nor is anything left out before such a packet.
<1>25. ASSUME NEW k \in 1..l, NEW id, bytes[k] = <<id, 1>>
       PROVE  First(id) \/ id - 1 \in ReceivedIds'
  <2>1. id \in Nat /\ Of(e) \in Nat /\ id <= Of(e)
    BY <1>22, <1>25
  <2>2. ASSUME NEW j \in 1..l, bytes[j] = <<id - 1, 1>> PROVE id - 1 \in ReceivedIds'
    <3>1. id - 1 \in ids \/ id - 1 = Of(e)
      BY <1>22, <2>2
    <3>2. id - 1 # Of(e)
      BY <2>1
    <3>3. QED BY <1>19, <3>1, <3>2
  <2>3. CASE k \in 1..s
    <3>1. bytes[k] = <<Of(last), k>>
      BY <1>11, <2>3
    <3>2. id = Of(last)
      BY <1>25, <3>1
    <3>3. ~Ends(last)
      <4>1. s # 0
        BY <1>9, <2>3
      <4>2. QED BY <1>11, <4>1
    <3>4. QED BY <1>7, <1>19, <3>2, <3>3 DEF NoneMissed
  <2>4. CASE k \notin 1..s
    <3>1. k - s \in 1..n /\ s + (k - s) = k
      BY <1>8, <1>9, <1>12, <2>4, BufferFields
    <3>2. PICK i \in 1..n : s + i = k /\ batch[i] = <<id, 1>>
      BY <1>12, <1>25, <3>1
    <3>3. Place(batch[i]) = 1 /\ Of(batch[i]) = id
      BY <3>2 DEF Of, Place
    <3>4. \/ First(id) \/ Had(id - 1)
          \/ \E j \in 1..n : j < i /\ batch[j] = <<id - 1, 1>>
      BY <1>5, <1>6, <1>7, <3>3 DEF BatchOrder
    <3>5. CASE Had(id - 1)
      BY <1>19, <1>23, <2>2, <3>5
    <3>6. CASE \E j \in 1..n : j < i /\ batch[j] = <<id - 1, 1>>
      <4>1. PICK j \in 1..n : batch[j] = <<id - 1, 1>>
        BY <3>6
      <4>2. s + j \in 1..l /\ bytes[s + j] = <<id - 1, 1>>
        BY <1>12, <4>1
      <4>3. QED BY <2>2, <4>2
    <3>7. QED BY <3>4, <3>5, <3>6
  <2>5. QED BY <2>3, <2>4
<1>28. PICK c \in 0..l : /\ c = r.consumed /\ (Ends(e) <=> c = l) /\ Written(e) /\ e \in Byte
                         /\ ~Ends(e) => /\ l - c = Place(e) /\ c + 1 \in 1..l
                                        /\ \A i \in 1..Place(e) : bytes[c + i] = <<Of(e), i>>
  <2>1. e = bytes[Len(bytes)] /\ bytes # <<>> /\ Chained(bytes)
    BY <1>11
  <2>2. /\ e \in Byte /\ Written(e) /\ r.consumed \in 0..Len(bytes)
        /\ Ends(e) <=> r.consumed = Len(bytes)
        /\ ~Ends(e) => /\ Len(bytes) - r.consumed = Place(e)
                       /\ r.consumed + 1 \in 1..Len(bytes)
                       /\ \A i \in 1..Place(e) : bytes[r.consumed + i] = <<Of(e), i>>
    BY <1>8, <1>13, <2>1, ParsedTail
  <2>3. QED BY <1>12, <2>2
<1>26. NoneMissed'
  <2>1. ASSUME NEW id \in ReceivedIds' PROVE First(id) \/ id - 1 \in ReceivedIds'
    <3>1. CASE id \in ReceivedIds
      BY <1>7, <1>19, <3>1 DEF NoneMissed
    <3>2. CASE id \in ids
      <4>1. PICK k \in 1..l : bytes[k] = <<id, 1>>
        BY <1>14, <1>16, <3>2
      <4>2. QED BY <1>25, <4>1
    <3>3. QED BY <1>19, <2>1, <3>1, <3>2
  <2>2. ASSUME ~Ends(e) PROVE First(Of(e)) \/ Of(e) - 1 \in ReceivedIds'
    <3>1. PICK k \in 1..l : bytes[k] = <<Of(e), 1>>
      <4>1. /\ c + 1 \in 1..l /\ e \in Byte /\ Written(e)
            /\ \A i \in 1..Place(e) : bytes[c + i] = <<Of(e), i>>
        BY <1>28, <2>2
      <4>2. 1 \in 1..Place(e)
        <5>1. Place(e) \in 1..PacketLength(Of(e)) /\ Place(e) \in Nat
          BY <1>8, <4>1, EndsReal, ByteIs
        <5>2. QED BY <5>1
      <4>3. QED BY <4>1, <4>2
    <3>2. QED BY <1>25, <3>1
  <2>3. QED BY <1>10, <1>20, <1>21, <2>1, <2>2 DEF NoneMissed
<1>27. \A id \in ReceivedIds' : id < Of(e) \/ (id = Of(e) /\ Ends(e))
  <2>1. ASSUME NEW id \in ReceivedIds PROVE id < Of(e)
    <3>1. id \in Nat /\ id < Of(bytes[1])
      BY <1>18
    <3>2. Of(bytes[1]) <= Of(e) /\ Of(bytes[1]) \in Nat /\ Of(e) \in Nat
      BY <1>11, <1>12, <1>17
    <3>3. QED BY <3>1, <3>2
  <2>2. ASSUME NEW id \in ids PROVE id < Of(e) \/ (id = Of(e) /\ Ends(e))
    BY <1>14, <1>16
  <2>3. QED BY <1>19, <2>1, <2>2
<1>29. PICK rest : rest = Consumed(full, c)
  OBVIOUS
<1>30. /\ BufferOK(full) /\ Size(full) = l /\ BufferOK(rest) /\ Size(rest) = l - c
       /\ Contents(rest) = [i \in 1..(l - c) |-> bytes[c + i]]
  <2>1. BufferOK(full) /\ AllReal(full) /\ Size(full) = l
    BY <1>2, <1>8, <1>9, <1>12, CommittedReal
  <2>2. c \in 0..Size(full)
    BY <2>1
  <2>3. QED BY <1>3, <1>29, <2>1, <2>2, ConsumedReal, ConsumedDrops
<1>31. FirstCell(rest, Of(e))
  <2>1. Of(read_buf.cells[0]) <= Of(e)
    <3>1. Of(bytes[1]) \in Nat /\ Of(bytes[1]) <= Of(e) /\ Of(e) \in Nat
      BY <1>11, <1>12, <1>17
    <3>2. Of(read_buf.cells[0]) \in Nat /\ Of(last) \in Nat
      <4>1. 0 \in Cells
        BY Constants
      <4>2. read_buf.cells \in [Cells -> Byte]
        BY <1>8, BufferFields
      <4>3. read_buf.cells[0] \in Byte
        BY <4>1, <4>2
      <4>4. QED BY <1>8, <4>3, ByteIs DEF RealByte
    <3>3. CASE read_buf.tail > 0
      <4>1. Of(read_buf.cells[0]) <= Of(last)
        BY <1>7, <3>3 DEF ParsedOK, FirstCell
      <4>2. Of(last) <= Of(bytes[1])
        <5>1. ~Ends(last) => Of(bytes[1]) = Of(last)
          BY <1>11 DEF Of
        <5>2. QED BY <1>11, <3>1, <3>2, <5>1
      <4>3. QED BY <3>1, <3>2, <4>1, <4>2
    <3>4. CASE ~(read_buf.tail > 0)
      <4>1. read_buf.tail = 0 /\ 1 \in 1..n /\ 0 + 1 - 1 = 0
        BY <1>8, <3>4, BufferFields, Constants
      <4>2. batch[1] = read_buf.cells[0]
        BY <1>5, <4>1 DEF Batch
      <4>3. s + 1 \in 1..l /\ bytes[s + 1] = batch[1]
        BY <1>12, <4>1
      <4>4. QED BY <1>17, <4>2, <4>3
    <3>5. QED BY <3>3, <3>4
  <2>2. rest.cells = full.cells /\ full.cells = read_buf.cells
    BY <1>2, <1>8, <1>29, <1>30 DEF Consumed, Committed, BufferOK, Buffers
  <2>3. QED BY <2>1, <2>2 DEF FirstCell
<1>32. Contents(read_buf') = Contents(rest) /\ FirstCell(read_buf', Of(e))
  <2>1. \A i \in 1..Size(rest) : Of(Contents(rest)[i]) <= Of(e)
    <3>1. \A i \in 1..(l - c) : c + i \in 1..l
      BY <1>12, <1>28
    <3>2. QED BY <1>17, <1>30, <3>1
  <2>2. DoReadPacket(connect_state = "connected", FALSE, rest)
    BY <1>6, <1>28, <1>29
  <2>3. QED BY <1>30, <1>31, <2>1, <2>2, ReadContents
<1>33. Contents(read_buf') = IF Ends(e) THEN <<>> ELSE SubSeq(Image(Of(e)), 1, Place(e))
  <2>1. CASE Ends(e)
    <3>1. 1..(l - c) = {}
      BY <1>28, <2>1
    <3>2. [i \in 1..(l - c) |-> bytes[c + i]] = <<>>
      BY <3>1
    <3>3. QED BY <1>30, <1>32, <2>1, <3>2
  <2>2. CASE ~Ends(e)
    <3>1. /\ Of(e) \in 1..Len(sent) /\ Place(e) \in Nat /\ Place(e) <= PacketLength(Of(e))
      <4>1. Of(e) \in 1..Len(sent) /\ Place(e) \in 1..PacketLength(Of(e)) /\ Place(e) \in Nat
            /\ PacketLength(Of(e)) \in Nat
        BY <1>8, <1>28, EndsReal, ByteIs
      <4>2. QED BY <4>1
    <3>2. SubSeq(Image(Of(e)), 1, Place(e)) = [i \in 1..Place(e) |-> <<Of(e), i>>]
      BY <1>8, <3>1, ImageFront
    <3>3. [i \in 1..(l - c) |-> bytes[c + i]] = [i \in 1..Place(e) |-> <<Of(e), i>>]
      BY <1>28, <2>2
    <3>4. QED BY <1>30, <1>32, <2>2, <3>2, <3>3
  <2>3. QED BY <2>1, <2>2
<1>34. ParsedOK'
  <2>1. \A id : Image(id)' = Image(id)
    BY <1>6, EndsSame
  <2>2. Contents(read_buf)' = IF Ends(e) THEN <<>> ELSE SubSeq(Image(Of(e)), 1, Place(e))
    BY <1>33
  <2>3. FirstCell(read_buf, Of(last))'
    BY <1>10, <1>32
  <2>4. (IF Ends(last) THEN <<>> ELSE SubSeq(Image(Of(last)), 1, Place(last)))'
          = IF Ends(e) THEN <<>> ELSE SubSeq(Image(Of(e)), 1, Place(e))
    BY <1>10, <1>21, <2>1
  <2>5. (\A id \in ReceivedIds : id < Of(last) \/ (id = Of(last) /\ Ends(last)))'
    BY <1>10, <1>21, <1>27
  <2>6. QED BY <1>19, <2>2, <2>3, <2>4, <2>5 DEF ParsedOK
<1>35. QED BY <1>7, <1>24, <1>26, <1>34

-----------------------------------------------------------------------------
(* The other handlers, and the link.                                       *)

\* The handlers that close the reader leave a completed read queued.
LEMMA LengthsKept ==
  ASSUME StreamInv, NEW o \in {"stop", "read_error", "write_error"}, Runs(o),
         NEW handlers \in Aborts, Queues(handlers)
  PROVE  Lengths' = Lengths
<1>1. QueueInv
  BY DEF StreamInv
<1>2. /\ \A n \in Queued("read")' : n + 1 \in Queued("read") /\ ioq'[n] = ioq[n + 1]
      /\ \A n \in Queued("read") : n # 1 => n - 1 \in Queued("read")'
      /\ 1 \notin Queued("read") /\ Queued("read") \subseteq 1..Len(ioq)
  BY <1>1, Dequeued
<1>3. ASSUME NEW n \in Queued("read")' PROVE ioq'[n].length \in Lengths
  BY <1>2 DEF Lengths
<1>4. ASSUME NEW n \in Queued("read") PROVE ioq[n].length \in Lengths'
  <2>1. PICK k \in Queued("read")' : k = n - 1 /\ k + 1 = n
    <3>1. n - 1 \in Queued("read")' /\ (n - 1) + 1 = n
      BY <1>2
    <3>2. QED BY <3>1
  <2>2. ioq'[k] = ioq[n]
    BY <1>2, <2>1
  <2>3. QED BY <2>2 DEF Lengths
<1>5. Lengths' = { ioq'[n].length : n \in Queued("read")' }
  BY DEF Lengths
<1>6. QED BY <1>3, <1>4, <1>5 DEF Lengths

\* Steps in which nothing is parsed.
LEMMA ParsedKeeps ==
  ASSUME UNCHANGED <<sent, received, last>>,
         Contents(read_buf') = Contents(read_buf),
         FirstCell(read_buf, Of(last)) => FirstCell(read_buf', Of(last))
  PROVE  /\ ParsedOK => ParsedOK'
         /\ NoneMissed => NoneMissed'
         /\ \A id : Had(id)' <=> Had(id)
         /\ \A id : First(id)' <=> First(id)
<1>1. PICK e : e = last /\ e = last'
  OBVIOUS
<1>2. (Ends(last)' <=> Ends(last)) /\ \A id : First(id)' <=> First(id)
  BY <1>1, EndsSame
<1>3. ReceivedIds' = ReceivedIds
  BY DEF ReceivedIds
<1>4. \A id : Had(id)' <=> Had(id)
  BY <1>2, <1>3 DEF Had
<1>5. ParsedOK => ParsedOK'
  <2>1. \A p : Intact(p)' <=> Intact(p)
    BY EndsSame
  <2>2. InOrder(received)' <=> InOrder(received)
    BY <2>1 DEF InOrder
  <2>3. \A id : Image(id)' = Image(id)
    BY EndsSame
  <2>4. QED BY <1>2, <1>3, <2>2, <2>3 DEF ParsedOK
<1>6. NoneMissed => NoneMissed'
  BY <1>2, <1>3 DEF NoneMissed
<1>7. QED BY <1>2, <1>4, <1>5, <1>6

\* Steps that take nothing from the completed read either.
LEMMA QuietKeeps ==
  ASSUME UNCHANGED <<sent, received, last, torn>>,
         Lengths' = Lengths, \A n \in Lengths : Batch(n)' = Batch(n),
         Contents(read_buf') = Contents(read_buf),
         FirstCell(read_buf, Of(last)) => FirstCell(read_buf', Of(last))
  PROVE  /\ ParsedOK => ParsedOK'
         /\ NoneMissed => NoneMissed'
         /\ Whole' <=> Whole
         /\ \A id : Had(id)' <=> Had(id)
         /\ \A id : InBatch(id)' <=> InBatch(id)
         /\ \A id : First(id)' <=> First(id)
         /\ BatchOrder => BatchOrder'
<1>1. /\ ParsedOK => ParsedOK'
      /\ NoneMissed => NoneMissed'
      /\ \A id : Had(id)' <=> Had(id)
      /\ \A id : First(id)' <=> First(id)
  BY ParsedKeeps
<1>2. \A id : InBatch(id)' <=> InBatch(id)
  BY DEF InBatch
<1>3. Whole' <=> Whole
  <2>1. ASSUME NEW n \in Lengths PROVE Torn(Batch(n))' <=> Torn(Batch(n))
    BY DEF Torn, Continues, Ends, PacketLength, Of, Place
  <2>2. QED BY <2>1 DEF Whole
<1>4. BatchOrder => BatchOrder'
  BY <1>1 DEF BatchOrder
<1>5. QED BY <1>1, <1>2, <1>3, <1>4

\* What is under way keeps its order.
LEMMA OrdersKept ==
  ASSUME UNCHANGED <<sent, wire, writes>>,
         link' = "up" => link = "up" /\ connection' = connection,
         \A id : First(id)' <=> First(id),
         \A id : Had(id) => Had(id)' \/ InBatch(id)',
         \A id : InBatch(id) => Had(id)' \/ InBatch(id)'
  PROVE  /\ WireOrder => WireOrder'
         /\ WritesOrder => WritesOrder'
         /\ LastOrder => LastOrder'
<1>1. /\ \A id, n : OnWire(id, n)' <=> OnWire(id, n)
      /\ \A id, n : Unwritten(id, n)' <=> Unwritten(id, n)
  BY DEF OnWire, Unwritten
<1>2. \A id : Before(id) => Before(id)'
  BY DEF Before
<1>3. WireOrder => WireOrder'
  BY <1>1, <1>2 DEF WireOrder
<1>4. WritesOrder => WritesOrder'
  BY <1>1, <1>2 DEF WritesOrder
<1>5. LastOrder => LastOrder'
  BY <1>1 DEF LastOrder
<1>6. QED BY <1>3, <1>4, <1>5

\* Nothing is under way on a closed link.
LEMMA OrdersEmpty ==
  ASSUME wire' = <<>>, writes' = <<>>, link' # "up"
  PROVE  WireOrder' /\ WritesOrder' /\ LastOrder'
<1>1. 1..Len(<<>>) = {}
  OBVIOUS
<1>2. QED BY <1>1 DEF WireOrder, WritesOrder, LastOrder

\* The completed read is handled.
LEMMA RunReadOrder ==
  ASSUME StreamInv, OrderInv, RunRead
  PROVE  OrderInv'
<1>1. /\ UNCHANGED <<sent, link, wire, writes, connection>>
      /\ Runs("read") /\ Queues(<<>>)
  BY DEF RunRead, peerVars
<1>2. ConnectionsOK'
  BY <1>1 DEF OrderInv, ConnectionsOK
<1>3. ~torn' => /\ Whole /\ ParsedOK' /\ NoneMissed'
                /\ \A id : Had(id) \/ InBatch(id) => Had(id)'
  BY RunReadExact
<1>4. ASSUME Whole' PROVE BatchOrder' /\ WireOrder' /\ WritesOrder' /\ LastOrder'
  <2>1. ~torn'
    BY <1>4 DEF Whole
  <2>2. WireOrder /\ WritesOrder /\ LastOrder
    BY <1>3, <2>1 DEF OrderInv
  <2>3. \A id : First(id)' <=> First(id)
    BY <1>1, EndsSame
  <2>4. WireOrder' /\ WritesOrder' /\ LastOrder'
    BY <1>1, <1>3, <2>1, <2>2, <2>3, OrdersKept
  <2>5. Lengths' = {}
    BY <1>1, ReadTaken DEF Lengths
  <2>6. QED BY <2>4, <2>5 DEF BatchOrder
<1>5. QED BY <1>2, <1>3, <1>4 DEF OrderInv

\* The handlers that are queued in these steps are not completed reads.
LEMMA LengthsAppended ==
  ASSUME StreamInv, NEW o \in {"stop", "read_error", "write_error", "connected"},
         ioq' = Append(ioq, [op |-> o])
  PROVE  Lengths' = Lengths
<1>1. PICK h \in Handlers : h = [op |-> o] /\ h.op = o
  <2>1. PICK h : h = [op |-> o]
    OBVIOUS
  <2>2. h \in Handlers /\ h.op = o
    BY <2>1 DEF Handlers
  <2>3. QED BY <2>1, <2>2
<1>2. /\ \A op : op # o => Queued(op)' = Queued(op)
      /\ \A n \in 1..Len(ioq) : ioq'[n] = ioq[n]
      /\ Queued("read") \subseteq 1..Len(ioq)
  BY <1>1, Enqueued DEF StreamInv
<1>3. Queued("read")' = Queued("read")
  BY <1>2
<1>4. Lengths' = { ioq'[n].length : n \in Queued("read")' }
  BY DEF Lengths
<1>5. QED BY <1>2, <1>3, <1>4 DEF Lengths

\* A call to stop() is posted, a read or a write of the reader fails.
LEMMA QueuesOrder ==
  ASSUME StreamInv, OrderInv, CallStop \/ WriteFails \/ ReadFails
  PROVE  OrderInv'
<1>1. /\ \E o \in {"stop", "read_error", "write_error"} : ioq' = Append(ioq, [op |-> o])
      /\ UNCHANGED <<read_buf, link, wire, writes, sent, connection, received, last, torn>>
  BY DEF CallStop, WriteFails, ReadFails, readerVars, peerVars, historyVars
<1>2. Lengths' = Lengths
  BY <1>1, LengthsAppended
<1>3. \A n \in Lengths : Batch(n)' = Batch(n)
  BY <1>1 DEF Batch
<1>4. /\ ParsedOK => ParsedOK'
      /\ NoneMissed => NoneMissed'
      /\ Whole' <=> Whole
      /\ \A id : Had(id)' <=> Had(id)
      /\ \A id : InBatch(id)' <=> InBatch(id)
      /\ \A id : First(id)' <=> First(id)
      /\ BatchOrder => BatchOrder'
  BY <1>1, <1>2, <1>3, QuietKeeps
<1>5. /\ WireOrder => WireOrder'
      /\ WritesOrder => WritesOrder'
      /\ LastOrder => LastOrder'
  BY <1>1, <1>4, OrdersKept
<1>6. ConnectionsOK'
  BY <1>1 DEF OrderInv, ConnectionsOK
<1>7. QED BY <1>1, <1>4, <1>5, <1>6 DEF OrderInv

\* The reader closes after an error.
LEMMA RunErrorOrder ==
  ASSUME StreamInv, OrderInv, RunReadError \/ RunWriteError
  PROVE  OrderInv'
<1>1. /\ \E o \in {"read_error", "write_error"} : Runs(o)
      /\ Queues(AbortedByClose)
      /\ UNCHANGED <<read_buf, sent, connection, received, last, torn>>
      /\ DoClose \/ UNCHANGED <<link, wire, writes>>
  BY DEF RunReadError, RunWriteError, historyVars
<1>2. Lengths' = Lengths
  BY <1>1, AbortsOK, LengthsKept
<1>3. \A n \in Lengths : Batch(n)' = Batch(n)
  BY <1>1 DEF Batch
<1>4. /\ ParsedOK => ParsedOK'
      /\ NoneMissed => NoneMissed'
      /\ Whole' <=> Whole
      /\ \A id : Had(id)' <=> Had(id)
      /\ \A id : InBatch(id)' <=> InBatch(id)
      /\ \A id : First(id)' <=> First(id)
      /\ BatchOrder => BatchOrder'
  BY <1>1, <1>2, <1>3, QuietKeeps
<1>5. \/ UNCHANGED <<link, wire, writes>>
      \/ link' = "closed" /\ wire' = <<>> /\ writes' = <<>>
  BY <1>1 DEF DoClose
<1>6. /\ WireOrder => WireOrder'
      /\ WritesOrder => WritesOrder'
      /\ LastOrder => LastOrder'
  BY <1>1, <1>4, <1>5, OrdersKept, OrdersEmpty
<1>7. ConnectionsOK'
  BY <1>1, <1>5 DEF OrderInv, ConnectionsOK
<1>8. QED BY <1>1, <1>4, <1>6, <1>7 DEF OrderInv

\* on_connected begins to read, which may move what is in the buffer.
LEMMA RunConnectedOrder ==
  ASSUME StreamInv, OrderInv, RunConnected
  PROVE  OrderInv'
<1>1. /\ Runs("connected") /\ Queues(<<>>)
      /\ UNCHANGED <<link, wire, writes, sent, connection, received, last, torn>>
      /\ read_buf' = read_buf \/ DoReadPacket(TRUE, read_pending, read_buf)
  BY DEF RunConnected, peerVars, historyVars
<1>2. Lengths = {} /\ Lengths' = {}
  <2>1. Queued("read") = {} /\ Queued("read")' = {}
    BY <1>1, ConnectTaken
  <2>2. QED BY <2>1 DEF Lengths
<1>3. \A n \in Lengths : Batch(n)' = Batch(n)
  BY <1>2
<1>4. SentOK /\ BufferOK(read_buf) /\ RealByte(last)
  BY RealBuffer DEF StreamInv, BytesOK
<1>5. ASSUME ~torn PROVE \A i \in 1..Size(read_buf) : Of(Contents(read_buf)[i]) <= Of(last)
  <2>1. Contents(read_buf) = IF Ends(last) THEN <<>>
                             ELSE SubSeq(Image(Of(last)), 1, Place(last))
    BY <1>5 DEF OrderInv, ParsedOK
  <2>2. Len(Contents(read_buf)) = Size(read_buf)
    BY <1>4, ContentsType
  <2>3. CASE Ends(last)
    BY <2>1, <2>2, <2>3
  <2>4. CASE ~Ends(last)
    <3>1. Written(last) /\ last \in Byte
      BY <1>4, <2>4 DEF RealByte, Ends
    <3>2. /\ Of(last) \in 1..Len(sent) /\ Place(last) \in Nat /\ Of(last) \in Nat
          /\ Place(last) \in 1..PacketLength(Of(last)) /\ PacketLength(Of(last)) \in Nat
      BY <1>4, <3>1, EndsReal, ByteIs
    <3>3. Place(last) <= PacketLength(Of(last))
      BY <3>2
    <3>4. Contents(read_buf) = [i \in 1..Place(last) |-> <<Of(last), i>>]
      BY <1>4, <2>1, <2>4, <3>2, <3>3, ImageFront
    <3>5. Size(read_buf) = Place(last)
      BY <2>2, <3>2, <3>4
    <3>6. \A i \in 1..Size(read_buf) : Of(Contents(read_buf)[i]) = Of(last)
      BY <3>4, <3>5 DEF Of
    <3>7. QED BY <3>2, <3>6
  <2>5. QED BY <2>3, <2>4
<1>6. ConnectionsOK'
  BY <1>1 DEF OrderInv, ConnectionsOK
<1>7. CASE torn
  BY <1>1, <1>6, <1>7 DEF OrderInv, Whole
<1>8. CASE ~torn
  <2>1. FirstCell(read_buf, Of(last))
    BY <1>8 DEF OrderInv, ParsedOK
  <2>2. Contents(read_buf') = Contents(read_buf) /\ FirstCell(read_buf', Of(last))
    BY <1>1, <1>4, <1>5, <1>8, <2>1, ReadContents
  <2>3. /\ ParsedOK => ParsedOK'
        /\ NoneMissed => NoneMissed'
        /\ Whole' <=> Whole
        /\ \A id : Had(id)' <=> Had(id)
        /\ \A id : InBatch(id)' <=> InBatch(id)
        /\ \A id : First(id)' <=> First(id)
        /\ BatchOrder => BatchOrder'
    BY <1>1, <1>2, <1>3, <2>2, QuietKeeps
  <2>4. /\ WireOrder => WireOrder'
        /\ WritesOrder => WritesOrder'
        /\ LastOrder => LastOrder'
    BY <1>1, <2>3, OrdersKept
  <2>5. QED BY <1>1, <1>6, <2>3, <2>4 DEF OrderInv
<1>9. QED BY <1>7, <1>8

\* The link comes and goes.
LEMMA LinkOrder ==
  ASSUME StreamInv, OrderInv, DoConnect \/ ConnectDone \/ LinkBreaks
  PROVE  OrderInv'
<1>1. /\ UNCHANGED <<read_buf, wire, sent, received, last, torn>>
      /\ ioq' = ioq \/ ioq' = Append(ioq, [op |-> "connected"])
  BY DEF DoConnect, ConnectDone, LinkBreaks, readerVars, peerVars, historyVars
<1>2. Lengths' = Lengths
  <2>1. CASE ioq' = ioq
    BY <2>1 DEF Lengths, Queued
  <2>2. CASE ioq' = Append(ioq, [op |-> "connected"])
    BY <2>2, LengthsAppended
  <2>3. QED BY <1>1, <2>1, <2>2
<1>3. \A n \in Lengths : Batch(n)' = Batch(n)
  BY <1>1 DEF Batch
<1>4. /\ ParsedOK => ParsedOK'
      /\ NoneMissed => NoneMissed'
      /\ Whole' <=> Whole
      /\ \A id : Had(id)' <=> Had(id)
      /\ \A id : InBatch(id)' <=> InBatch(id)
      /\ \A id : First(id)' <=> First(id)
      /\ BatchOrder => BatchOrder'
  BY <1>1, <1>2, <1>3, QuietKeeps
<1>5. connection \in Nat /\ ConnectionsOK
  BY Constants DEF StreamInv, FieldsOK, OrderInv
<1>6. ASSUME NEW i \in 1..Len(sent) PROVE sent[i].connection \in Nat
  <2>1. sent \in Seq([body : Bodies, connection : 1..MaxConnections])
    BY DEF StreamInv, SentOK
  <2>2. sent[i] \in [body : Bodies, connection : 1..MaxConnections]
    BY <2>1, Element
  <2>3. QED BY <2>2
<1>7. CASE DoConnect
  <2>1. link' = "opening" /\ wire = <<>> /\ writes' = writes /\ connection' = connection
        /\ writes = <<>>
    BY <1>5, <1>7 DEF DoConnect, StreamInv, LinkInv, ConnectionsOK, peerVars, historyVars
  <2>2. WireOrder' /\ WritesOrder' /\ LastOrder'
    BY <1>1, <2>1, OrdersEmpty
  <2>3. ConnectionsOK'
    BY <1>1, <1>5, <2>1 DEF ConnectionsOK
  <2>4. QED BY <1>1, <1>4, <2>2, <2>3 DEF OrderInv
<1>8. CASE ConnectDone
  <2>1. /\ link = "opening" /\ link' = "up" /\ connection' = connection + 1
        /\ wire = <<>> /\ writes = <<>> /\ writes' = writes
    BY <1>5, <1>8 DEF ConnectDone, ConnectionsOK, peerVars
  <2>2. WireOrder' /\ WritesOrder'
    <3>1. 1..Len(<<>>) = {}
      OBVIOUS
    <3>2. QED BY <1>1, <2>1, <3>1 DEF WireOrder, WritesOrder
  <2>3. LastOrder'
    <3>1. ASSUME Len(sent) # 0 PROVE sent[Len(sent)].connection # connection + 1
      <4>1. Len(sent) \in 1..Len(sent)
        BY <3>1 DEF StreamInv, SentOK
      <4>2. /\ sent[Len(sent)].connection \in Nat
            /\ sent[Len(sent)].connection <= connection
        BY <1>5, <1>6, <4>1 DEF ConnectionsOK
      <4>3. QED BY <1>5, <4>2
    <3>2. QED BY <1>1, <2>1, <3>1 DEF LastOrder
  <2>4. ConnectionsOK'
    <3>1. \A i \in 1..Len(sent) : sent[i].connection <= connection + 1
      <4>1. ASSUME NEW i \in 1..Len(sent) PROVE sent[i].connection <= connection + 1
        <5>1. sent[i].connection \in Nat /\ sent[i].connection <= connection
          BY <1>5, <1>6 DEF ConnectionsOK
        <5>2. QED BY <1>5, <5>1
      <4>2. QED BY <4>1
    <3>2. QED BY <1>1, <1>5, <2>1, <3>1 DEF ConnectionsOK
  <2>5. QED BY <1>1, <1>4, <2>2, <2>3, <2>4 DEF OrderInv
<1>9. CASE LinkBreaks
  <2>1. link' = "down" /\ writes' = <<>> /\ connection' = connection
    BY <1>9 DEF LinkBreaks, historyVars
  <2>2. WireOrder => WireOrder'
    <3>1. \A id, n : OnWire(id, n)' <=> OnWire(id, n)
      BY <1>1 DEF OnWire
    <3>2. QED BY <1>1, <1>4, <3>1 DEF WireOrder, Before
  <2>3. WritesOrder' /\ LastOrder'
    <3>1. 1..Len(<<>>) = {}
      OBVIOUS
    <3>2. QED BY <2>1, <3>1 DEF WritesOrder, LastOrder
  <2>4. ConnectionsOK'
    BY <1>1, <1>5, <2>1 DEF ConnectionsOK
  <2>5. QED BY <1>1, <1>4, <2>2, <2>3, <2>4 DEF OrderInv
<1>10. QED BY <1>7, <1>8, <1>9

-----------------------------------------------------------------------------
(* A read completes.                                                       *)

\* A read completes with the first bytes under way.
LEMMA ReadArrives ==
  ASSUME StreamInv, ReadReady
  PROVE  /\ UNCHANGED <<link, writes, sent, connection, received, last, torn>>
         /\ Contents(read_buf') = Contents(read_buf)
         /\ FirstCell(read_buf, Of(last)) => FirstCell(read_buf', Of(last))
         /\ Lengths = {}
         /\ \E n \in 1..Len(wire) :
              /\ Lengths' = {n} /\ Len(wire') = Len(wire) - n
              /\ \A i \in 1..n : Batch(n)'[i] = wire[i]
              /\ \A i \in 1..(Len(wire) - n) : wire'[i] = wire[n + i]
<1>1. BytesOK /\ QueueInv /\ BufferOK(read_buf)
  BY RealBuffer DEF StreamInv
<1>2. PICK size \in 1..FreeSize(read_buf) : slab = SlabOf(read_buf, size)
  BY DEF StreamInv, ReadInv, ReadReady
<1>3. Queued("read") = {}
  BY <1>2 DEF StreamInv, ReadInv, SlabOf
<1>4. PICK l \in Nat : l = Len(wire) /\ wire \in Seq(Byte) /\ l # 0
  <2>1. wire \in Seq(Byte) /\ wire # <<>>
    BY <1>1 DEF BytesOK, ReadReady
  <2>2. Len(wire) \in Nat /\ Len(wire) # 0
    BY <2>1
  <2>3. QED BY <2>1, <2>2
<1>5. PICK t \in Nat : t = read_buf.tail /\ FreeSize(read_buf) = BufferLength - t
                       /\ t <= BufferLength
  <2>1. read_buf.tail \in 0..BufferLength /\ FreeSize(read_buf) = BufferLength - read_buf.tail
    BY <1>1, BufferFields
  <2>2. read_buf.tail \in Nat /\ read_buf.tail <= BufferLength
    BY <2>1, Constants
  <2>3. QED BY <2>1, <2>2
<1>6. PICK n \in Nat : n = IF l < size THEN l ELSE size
  <2>1. size \in Nat
    BY <1>2, <1>5, Constants
  <2>2. (IF l < size THEN l ELSE size) \in Nat
    BY <1>4, <2>1
  <2>3. QED BY <2>2
<1>7. /\ read_buf' = Filled(read_buf, t, SubSeq(wire, 1, n))
      /\ wire' = SubSeq(wire, n + 1, l)
      /\ ioq' = Append(ioq, [op |-> "read", length |-> n])
      /\ UNCHANGED <<link, writes, sent, connection, received, last, torn>>
  <2>1. UNCHANGED <<link, writes, sent, connection, received, last, torn>>
    BY DEF ReadReady, historyVars
  <2>2. PICK slot : slot = [at |-> t, size |-> size]
    OBVIOUS
  <2>3. slab = {slot} /\ slot.at = t /\ slot.size = size
    BY <1>2, <1>5, <2>2 DEF SlabOf
  <2>4. QED BY <1>4, <1>6, <2>1, <2>3 DEF ReadReady
<1>8. n \in 1..l /\ n >= 1 /\ n <= l /\ n \in 1..BufferLength /\ t + n <= BufferLength
  <2>1. size \in Nat /\ size >= 1 /\ size <= BufferLength - t
    BY <1>2, <1>5, Constants
  <2>2. n >= 1 /\ n <= l /\ n <= size
    BY <1>4, <1>6, <2>1
  <2>3. t + n <= BufferLength /\ n <= BufferLength /\ BufferLength \in Nat
    BY <1>5, <2>1, <2>2, Constants
  <2>4. QED BY <2>2, <2>3
<1>9. PICK bytes \in Seq(Byte) : /\ bytes = SubSeq(wire, 1, n) /\ Len(bytes) = n
                                 /\ \A i \in 1..n : bytes[i] = wire[i]
  <2>1. /\ 1 <= n + 1 /\ n <= Len(wire) /\ n - 1 + 1 = n
        /\ \A i \in 1..n : 1 + i - 1 = i
    BY <1>4, <1>8
  <2>2. PICK bytes : bytes = SubSeq(wire, 1, n)
    OBVIOUS
  <2>3. bytes \in Seq(Byte) /\ Len(bytes) = n /\ \A i \in 1..n : bytes[i] = wire[i]
    BY <1>4, <2>1, <2>2, Slice
  <2>4. QED BY <2>2, <2>3
<1>10. Len(wire') = l - n /\ \A i \in 1..(l - n) : wire'[i] = wire[n + i]
  <2>1. /\ n + 1 \in Nat /\ 1 <= n + 1 /\ n + 1 <= l + 1 /\ l - (n + 1) + 1 = l - n
        /\ \A i \in 1..(l - n) : (n + 1) + i - 1 = n + i
    BY <1>4, <1>8
  <2>2. QED BY <1>4, <1>7, <2>1, Slice
<1>11. PICK cells : cells = [c \in Cells |-> IF c \in t..(t + Len(bytes) - 1)
                                             THEN bytes[c - t + 1]
                                             ELSE read_buf.cells[c]]
  OBVIOUS
<1>12. read_buf'.cells = cells /\ read_buf'.head = read_buf.head /\ read_buf'.tail = t
  BY <1>1, <1>5, <1>7, <1>9, <1>11 DEF Filled, BufferOK, Buffers
<1>13. BufferOK(read_buf') /\ Size(read_buf') = Size(read_buf)
  <2>1. Len(bytes) <= FreeSize(read_buf)
    BY <1>5, <1>8, <1>9, Constants
  <2>2. \A i \in 1..Len(bytes) : RealByte(bytes[i])
    <3>1. \A i \in 1..n : i \in 1..l
      BY <1>4, <1>8
    <3>2. QED BY <1>1, <1>4, <1>9, <3>1 DEF BytesOK
  <2>3. QED BY <1>1, <1>5, <1>7, <1>9, <2>1, <2>2, RealBuffer, FilledReal
<1>14. \A c \in Cells : c < t => cells[c] = read_buf.cells[c]
  <2>1. ASSUME NEW c \in Cells, c < t PROVE cells[c] = read_buf.cells[c]
    <3>1. c \notin t..(t + Len(bytes) - 1)
      BY <1>5, <2>1, Constants
    <3>2. QED BY <1>11, <3>1
  <2>2. QED BY <2>1
<1>15. Contents(read_buf') = Contents(read_buf)
  <2>1. PICK s \in Nat, h \in Nat : s = Size(read_buf) /\ h = read_buf.head /\ h + s = t
    <3>1. /\ Size(read_buf) \in Nat /\ Size(read_buf) = t - read_buf.head
          /\ read_buf.head \in Nat
      BY <1>1, <1>5, BufferFields
    <3>2. read_buf.head + Size(read_buf) = t
      BY <3>1, <1>5
    <3>3. QED BY <3>1, <3>2
  <2>2. ASSUME NEW i \in 1..s PROVE cells[h + i - 1] = read_buf.cells[h + i - 1]
    <3>1. h + i - 1 \in Cells /\ h + i - 1 < t
      <4>1. h + i - 1 \in Nat /\ h + i - 1 < t
        BY <2>1
      <4>2. BufferLength \in Nat /\ Cells = 0..(BufferLength - 1) /\ t <= BufferLength
        BY <1>5, Constants
      <4>3. QED BY <4>1, <4>2
    <3>2. QED BY <1>14, <3>1
  <2>3. Contents(read_buf') = [i \in 1..s |-> cells[h + i - 1]]
    BY <1>12, <1>13, <2>1 DEF Contents
  <2>4. Contents(read_buf) = [i \in 1..s |-> read_buf.cells[h + i - 1]]
    BY <2>1 DEF Contents
  <2>5. QED BY <2>2, <2>3, <2>4
<1>16. FirstCell(read_buf, Of(last)) => FirstCell(read_buf', Of(last))
  <2>1. t > 0 => 0 \in Cells /\ 0 < t
    BY <1>5, Constants
  <2>2. QED BY <1>5, <1>12, <1>14, <2>1 DEF FirstCell
<1>17. Lengths = {} /\ Lengths' = {n}
  <2>1. PICK h \in Handlers : h = [op |-> "read", length |-> n] /\ h.op = "read" /\ h.length = n
    <3>1. PICK h : h = [op |-> "read", length |-> n]
      OBVIOUS
    <3>2. h \in Handlers /\ h.op = "read" /\ h.length = n
      BY <1>8, <3>1 DEF Handlers
    <3>3. QED BY <3>1, <3>2
  <2>2. /\ Queued("read")' = {Len(ioq) + 1}
        /\ ioq'[Len(ioq) + 1] = h
    BY <1>1, <1>3, <1>7, <2>1, Enqueued
  <2>3. Lengths' = { ioq'[m].length : m \in Queued("read")' }
    BY DEF Lengths
  <2>4. QED BY <1>3, <2>1, <2>2, <2>3 DEF Lengths
<1>18. \A i \in 1..n : Batch(n)'[i] = wire[i]
  <2>1. Batch(n)' = [i \in 1..n |-> cells[t + i - 1]]
    BY <1>12 DEF Batch
  <2>2. ASSUME NEW i \in 1..n PROVE cells[t + i - 1] = wire[i]
    <3>1. t + i - 1 \in Cells /\ t + i - 1 \in t..(t + Len(bytes) - 1) /\ (t + i - 1) - t + 1 = i
      <4>1. i \in Nat /\ 1 <= i /\ i <= n /\ Len(bytes) = n /\ BufferLength \in Nat
            /\ Cells = 0..(BufferLength - 1) /\ t + n <= BufferLength
        BY <1>8, <1>9, Constants
      <4>2. QED BY <4>1
    <3>2. cells[t + i - 1] = bytes[(t + i - 1) - t + 1]
      BY <1>11, <3>1
    <3>3. QED BY <1>9, <3>1, <3>2
  <2>3. QED BY <2>1, <2>2
<1>19. QED BY <1>4, <1>7, <1>8, <1>10, <1>15, <1>16, <1>17, <1>18

\* What it brings comes before what is left under way.
LEMMA ReadReadyOrder ==
  ASSUME StreamInv, OrderInv, ReadReady
  PROVE  OrderInv'
<1>1. /\ UNCHANGED <<link, writes, sent, connection, received, last, torn>>
      /\ Contents(read_buf') = Contents(read_buf)
      /\ FirstCell(read_buf, Of(last)) => FirstCell(read_buf', Of(last))
      /\ Lengths = {}
  BY ReadArrives
<1>2. PICK n \in 1..Len(wire) :
        /\ Lengths' = {n} /\ Len(wire') = Len(wire) - n
        /\ \A i \in 1..n : Batch(n)'[i] = wire[i]
        /\ \A i \in 1..(Len(wire) - n) : wire'[i] = wire[n + i]
  BY ReadArrives
<1>3. PICK l \in Nat : l = Len(wire) /\ n \in Nat /\ n <= l /\ l - n \in Nat
  <2>1. wire \in Seq(Byte)
    BY DEF StreamInv, BytesOK
  <2>2. Len(wire) \in Nat
    BY <2>1
  <2>3. n \in Nat /\ n <= Len(wire) /\ Len(wire) - n \in Nat
    BY <1>2, <2>2
  <2>4. QED BY <2>2, <2>3
<1>4. /\ ParsedOK => ParsedOK'
      /\ NoneMissed => NoneMissed'
      /\ \A id : Had(id)' <=> Had(id)
      /\ \A id : First(id)' <=> First(id)
  BY <1>1, ParsedKeeps
<1>5. ConnectionsOK'
  <2>1. link \notin {"closed", "opening"}
    <3>1. 1..Len(<<>>) = {}
      OBVIOUS
    <3>2. QED BY <1>2, <3>1 DEF OrderInv, ConnectionsOK
  <2>2. QED BY <1>1, <2>1 DEF OrderInv, ConnectionsOK
<1>6. Whole' => Whole
  BY <1>1 DEF Whole
<1>7. \A id : InBatch(id)' <=> \E i \in 1..n : wire[i] = <<id, 1>>
  <2>1. \A id : InBatch(id)' <=> \E i \in 1..n : Batch(n)'[i] = <<id, 1>>
    BY <1>2 DEF InBatch
  <2>2. QED BY <1>2, <2>1
<1>8. \A id : ~InBatch(id)
  BY <1>1 DEF InBatch
<1>9. ASSUME NEW id, NEW m \in Nat, OnWire(id, n + m) PROVE InBatch(id)' \/ OnWire(id, m)'
  <2>1. PICK j \in 1..l : j < n + m /\ wire[j] = <<id, 1>>
    BY <1>3, <1>9 DEF OnWire
  <2>2. CASE j \in 1..n
    BY <1>7, <2>1, <2>2
  <2>3. CASE j \notin 1..n
    <3>1. PICK k \in 1..(l - n) : k < m /\ j = n + k
      <4>1. j - n \in 1..(l - n) /\ j - n < m /\ j = n + (j - n)
        BY <1>3, <2>1, <2>3
      <4>2. QED BY <4>1
    <3>2. wire'[k] = <<id, 1>> /\ k \in 1..Len(wire')
      BY <1>2, <1>3, <2>1, <3>1
    <3>3. QED BY <3>1, <3>2 DEF OnWire
  <2>4. QED BY <2>2, <2>3
<1>10. ASSUME NEW id, Before(id) PROVE Before(id)'
  BY <1>4, <1>8, <1>10 DEF Before
<1>11. ASSUME Whole PROVE BatchOrder' /\ WireOrder' /\ WritesOrder' /\ LastOrder'
  <2>1. WireOrder /\ WritesOrder /\ LastOrder
    BY <1>11 DEF OrderInv
  <2>2. BatchOrder'
    <3>1. ASSUME NEW i \in 1..n, Place(wire[i]) = 1, NEW id, id = Of(wire[i])
          PROVE  First(id)' \/ Had(id - 1)' \/ \E j \in 1..n : j < i /\ wire[j] = <<id - 1, 1>>
      <4>1. i \in 1..Len(wire)
        BY <1>3
      <4>2. Before(id) \/ OnWire(id - 1, i)
        BY <2>1, <3>1, <4>1 DEF WireOrder
      <4>3. CASE Before(id)
        BY <1>4, <1>8, <4>3 DEF Before
      <4>4. CASE OnWire(id - 1, i)
        <5>1. PICK j \in 1..Len(wire) : j < i /\ wire[j] = <<id - 1, 1>>
          BY <4>4 DEF OnWire
        <5>2. j \in 1..n
          BY <1>3, <5>1
        <5>3. QED BY <5>1, <5>2
      <4>5. QED BY <4>2, <4>3, <4>4
    <3>2. PICK batch : batch = Batch(n)'
      OBVIOUS
    <3>3. \A i \in 1..n : batch[i] = wire[i]
      BY <1>2, <3>2
    <3>4. ASSUME NEW i \in 1..n, Place(batch[i]) = 1
          PROVE  \/ First(Of(batch[i]))' \/ Had(Of(batch[i]) - 1)'
                 \/ \E j \in 1..n : j < i /\ batch[j] = <<Of(batch[i]) - 1, 1>>
      BY <3>1, <3>3, <3>4
    <3>5. BatchOrder' <=> \A i \in 1..n : Place(batch[i]) = 1 =>
                            \/ First(Of(batch[i]))' \/ Had(Of(batch[i]) - 1)'
                            \/ \E j \in 1..n : j < i /\ batch[j] = <<Of(batch[i]) - 1, 1>>
      BY <1>2, <3>2 DEF BatchOrder, Place, Of
    <3>6. QED BY <3>4, <3>5
  <2>3. WireOrder'
    <3>1. ASSUME NEW i \in 1..Len(wire'), Place(wire'[i]) = 1, NEW id, id = Of(wire'[i])
          PROVE  Before(id)' \/ OnWire(id - 1, i)'
      <4>1. n + i \in 1..Len(wire) /\ wire'[i] = wire[n + i] /\ i \in Nat
        BY <1>2, <1>3
      <4>2. Before(id) \/ OnWire(id - 1, n + i)
        BY <2>1, <3>1, <4>1 DEF WireOrder
      <4>3. CASE Before(id)
        BY <1>10, <4>3
      <4>4. CASE OnWire(id - 1, n + i)
        BY <1>9, <4>1, <4>4 DEF Before
      <4>5. QED BY <4>2, <4>3, <4>4
    <3>2. QED BY <3>1 DEF WireOrder, Place, Of
  <2>4. PICK m \in Nat : n + m = Len(wire) + 1 /\ m = Len(wire') + 1
    <3>1. (l - n) + 1 \in Nat /\ n + ((l - n) + 1) = l + 1
      BY <1>3
    <3>2. QED BY <1>2, <1>3, <3>1
  <2>5. \A id, i : Unwritten(id, i)' <=> Unwritten(id, i)
    BY <1>1 DEF Unwritten
  <2>6. WritesOrder'
    <3>1. ASSUME NEW i \in 1..Len(writes), writes[i].next = 1, NEW id, id = writes[i].id
          PROVE  Before(id)' \/ OnWire(id - 1, m)' \/ Unwritten(id - 1, i)'
      <4>1. Before(id) \/ OnWire(id - 1, n + m) \/ Unwritten(id - 1, i)
        BY <2>1, <2>4, <3>1 DEF WritesOrder
      <4>2. QED BY <1>9, <1>10, <2>5, <4>1 DEF Before
    <3>2. QED BY <1>1, <2>4, <3>1 DEF WritesOrder
  <2>7. LastOrder'
    <3>1. ASSUME link = "up", NEW k, k = Len(sent), NEW w, w = Len(writes) + 1
          PROVE  \/ k = 0 \/ sent[k].connection # connection
                 \/ Had(k)' \/ InBatch(k)' \/ OnWire(k, m)' \/ Unwritten(k, w)'
      <4>1. \/ k = 0 \/ sent[k].connection # connection
            \/ Had(k) \/ OnWire(k, n + m) \/ Unwritten(k, w)
        BY <1>8, <2>1, <2>4, <3>1 DEF LastOrder
      <4>2. QED BY <1>4, <1>9, <2>5, <4>1
    <3>2. QED BY <1>1, <2>4, <3>1 DEF LastOrder
  <2>8. QED BY <2>2, <2>3, <2>6, <2>7
<1>12. QED BY <1>1, <1>4, <1>5, <1>6, <1>11 DEF OrderInv

-----------------------------------------------------------------------------
(* A packet is written.                                                    *)

\* It changes nothing about the packets before it.
LEMMA OlderSame ==
  ASSUME StreamInv, NEW body \in Bodies, Write(body)
  PROVE  /\ \A id \in 1..Len(sent) : /\ sent'[id] = sent[id] /\ id \in 1..Len(sent')
                                     /\ Image(id)' = Image(id)
                                     /\ First(id)' <=> First(id)
         /\ \A b : RealByte(b) => (Ends(b)' <=> Ends(b))
         /\ \A p : Intact(p) => Intact(p)'
         /\ Len(sent) \in Nat /\ Len(sent') = Len(sent) + 1
         /\ sent'[Len(sent) + 1].connection = connection
<1>1. /\ Len(sent) < MaxPackets /\ link = "up"
      /\ sent' = Append(sent, [body |-> body, connection |-> connection])
  BY DEF Write
<1>2. PICK packet \in [body : Bodies, connection : 1..MaxConnections] :
        packet = [body |-> body, connection |-> connection] /\ packet.connection = connection
  <2>1. connection \in 1..MaxConnections
    BY <1>1, Constants DEF StreamInv, LinkInv, FieldsOK
  <2>2. PICK packet : packet = [body |-> body, connection |-> connection]
    OBVIOUS
  <2>3. /\ packet \in [body : Bodies, connection : 1..MaxConnections]
        /\ packet.connection = connection
    BY <2>1, <2>2
  <2>4. QED BY <2>2, <2>3
<1>3. SentOK /\ Len(sent) \in Nat
  BY DEF StreamInv, SentOK
<1>4. /\ Len(sent') = Len(sent) + 1 /\ sent'[Len(sent')] = packet
      /\ \A id \in 1..Len(sent) : id \in 1..Len(sent') /\ PacketLength(id)' = PacketLength(id)
  BY <1>1, <1>2, <1>3, SentMore
<1>5. \A id \in 1..Len(sent) : sent'[id] = sent[id]
  <2>1. sent \in Seq([body : Bodies, connection : 1..MaxConnections])
    BY <1>3 DEF SentOK
  <2>2. sent' = Append(sent, packet)
    BY <1>1, <1>2
  <2>3. QED BY <2>1, <2>2, Longer
<1>6. ASSUME NEW id \in 1..Len(sent)
      PROVE  Image(id)' = Image(id) /\ (First(id)' <=> First(id))
  <2>1. id > 1 => id - 1 \in 1..Len(sent)
    BY <1>3
  <2>2. id <= 1 \/ id > 1
    BY <1>3
  <2>3. First(id)' <=> First(id)
    BY <1>5, <2>1, <2>2 DEF First
  <2>4. QED BY <1>4, <2>3 DEF Image
<1>7. ASSUME NEW b, RealByte(b) PROVE Ends(b)' <=> Ends(b)
  <2>1. b # NoByte => PacketLength(Of(b))' = PacketLength(Of(b))
    BY <1>4, <1>7 DEF RealByte, Written
  <2>2. QED BY <2>1 DEF Ends, Of, Place
<1>8. ASSUME NEW p, Intact(p) PROVE Intact(p)'
  <2>1. p.id \in 1..Len(sent)
    BY <1>8 DEF Intact
  <2>2. Image(p.id)' = Image(p.id) /\ PacketLength(p.id)' = PacketLength(p.id)
        /\ p.id \in 1..Len(sent')
    BY <1>4, <1>6, <2>1
  <2>3. QED BY <1>8, <2>2 DEF Intact
<1>9. sent'[Len(sent) + 1].connection = connection
  BY <1>2, <1>4
<1>10. QED BY <1>3, <1>4, <1>5, <1>6, <1>7, <1>8, <1>9

\* The first byte of a packet names one that was written.
LEMMA FirstWritten ==
  ASSUME SentOK, NEW b, RealByte(b), Place(b) = 1
  PROVE  Of(b) \in 1..Len(sent)
<1>1. Place(NoByte) = 0
  BY DEF NoByte, Place
<1>2. QED BY <1>1 DEF RealByte, Written

\* What a completed read has brought.
LEMMA BatchReal ==
  ASSUME StreamInv, NEW n \in Lengths
  PROVE  /\ n \in 1..FreeSize(read_buf) /\ Len(Batch(n)) = n
         /\ \A i \in 1..n : RealByte(Batch(n)[i])
<1>1. PICK m \in Queued("read") : n = ioq[m].length
  BY DEF Lengths
<1>2. ioq[m] \in Handlers /\ ioq[m].op = "read"
  BY <1>1 DEF StreamInv, QueueInv, Queued
<1>3. ioq[m].length \in 1..BufferLength /\ ioq[m].length <= FreeSize(read_buf)
  BY <1>1, <1>2 DEF Handlers, StreamInv, QueueInv
<1>4. n \in 1..FreeSize(read_buf)
  BY <1>1, <1>3, RealBuffer, Constants
<1>5. QED BY <1>4, ArrivingIs

\* A packet that is written is not one of those that were parsed.
LEMMA WriteParsed ==
  ASSUME StreamInv, NEW body \in Bodies, Write(body), ParsedOK
  PROVE  ParsedOK' /\ (NoneMissed => NoneMissed')
<1>1. UNCHANGED <<read_buf, received, last>>
  BY DEF Write, readerVars, historyVars
<1>2. /\ \A id \in 1..Len(sent) : Image(id)' = Image(id) /\ (First(id)' <=> First(id))
      /\ \A b : RealByte(b) => (Ends(b)' <=> Ends(b))
      /\ \A p : Intact(p) => Intact(p)'
  BY OlderSame
<1>3. PICK e : e = last /\ e = last' /\ RealByte(e)
  BY <1>1 DEF StreamInv, BytesOK
<1>4. Ends(last)' <=> Ends(last)
  <2>1. Ends(last)' <=> Ends(e)'
    BY <1>3 DEF Ends, Of, Place, PacketLength
  <2>2. QED BY <1>2, <1>3, <2>1
<1>5. InOrder(received)'
  <2>1. InOrder(received)
    BY DEF ParsedOK
  <2>2. QED BY <1>1, <1>2, <2>1 DEF InOrder
<1>6. ReceivedIds' = ReceivedIds
  BY <1>1 DEF ReceivedIds
<1>7. ~Ends(last) => Of(last) \in 1..Len(sent)
  BY <1>3 DEF Ends, RealByte, Written
<1>8. ~Ends(last) => Image(Of(last))' = Image(Of(last))
  <2>1. PICK k : k = Of(last) /\ k = Of(last')
    BY <1>1
  <2>2. ~Ends(last) => Image(k)' = Image(k)
    BY <1>2, <1>7, <2>1
  <2>3. QED BY <2>1, <2>2
<1>9. ParsedOK'
  <2>1. \A id \in ReceivedIds' : id < Of(last') \/ (id = Of(last') /\ Ends(last)')
    BY <1>1, <1>4, <1>6 DEF ParsedOK
  <2>2. Contents(read_buf') = IF Ends(last)' THEN <<>>
                              ELSE SubSeq(Image(Of(last))', 1, Place(last'))
    BY <1>1, <1>4, <1>8 DEF ParsedOK
  <2>3. FirstCell(read_buf', Of(last'))
    BY <1>1 DEF ParsedOK
  <2>4. QED BY <1>5, <2>1, <2>2, <2>3 DEF ParsedOK
<1>10. ASSUME NoneMissed PROVE NoneMissed'
  <2>1. \A id \in ReceivedIds : First(id)' <=> First(id)
    <3>1. ASSUME NEW id \in ReceivedIds PROVE id \in 1..Len(sent)
      <4>1. PICK i \in 1..Len(received) : id = received[i].id
        BY DEF ReceivedIds
      <4>2. QED BY <4>1 DEF ParsedOK, InOrder, Intact
    <3>2. QED BY <1>2, <3>1
  <2>2. ~Ends(last) => (First(Of(last))' <=> First(Of(last)))
    <3>1. PICK k : k = Of(last) /\ k = Of(last')
      BY <1>1
    <3>2. ~Ends(last) => (First(k)' <=> First(k))
      BY <1>2, <1>7, <3>1
    <3>3. First(Of(last))' <=> First(k)'
      BY <3>1 DEF First
    <3>4. QED BY <3>1, <3>2, <3>3
  <2>3. \A id \in ReceivedIds' : First(id)' \/ id - 1 \in ReceivedIds'
    BY <1>6, <1>10, <2>1 DEF NoneMissed
  <2>4. ~Ends(last)' => First(Of(last))' \/ Of(last') - 1 \in ReceivedIds'
    BY <1>1, <1>4, <1>6, <1>10, <2>2 DEF NoneMissed
  <2>5. QED BY <2>3, <2>4 DEF NoneMissed
<1>11. QED BY <1>9, <1>10

\* A packet is written after those of its connection.
LEMMA WriteOrder ==
  ASSUME StreamInv, OrderInv, NEW body \in Bodies, Write(body)
  PROVE  OrderInv'
<1>1. /\ link = "up"
      /\ writes' = Append(writes, [id |-> Len(sent'), next |-> 1])
      /\ UNCHANGED <<read_buf, ioq, link, wire, connection, received, last, torn>>
  BY DEF Write, readerVars, historyVars
<1>2. /\ \A id \in 1..Len(sent) : /\ sent'[id] = sent[id] /\ id \in 1..Len(sent')
                                  /\ First(id)' <=> First(id)
      /\ \A b : RealByte(b) => (Ends(b)' <=> Ends(b))
      /\ Len(sent) \in Nat /\ Len(sent') = Len(sent) + 1
      /\ sent'[Len(sent) + 1].connection = connection
  BY OlderSame
<1>3. SentOK /\ BytesOK
  BY DEF StreamInv
<1>4. ConnectionsOK'
  <2>1. PICK l \in Nat : l = Len(sent) /\ Len(sent') = l + 1
    BY <1>2
  <2>2. ASSUME NEW i \in 1..(l + 1) PROVE sent'[i].connection <= connection
    <3>1. CASE i = l + 1
      <4>1. connection \in Nat
        BY Constants DEF StreamInv, FieldsOK
      <4>2. QED BY <1>2, <2>1, <3>1, <4>1
    <3>2. CASE i # l + 1
      <4>1. i \in 1..l
        BY <2>1, <3>2
      <4>2. QED BY <1>2, <2>1, <4>1 DEF OrderInv, ConnectionsOK
    <3>3. QED BY <3>1, <3>2
  <2>3. ASSUME NEW i \in 1..(l + 1), NEW k \in 1..(l + 1), i <= k
        PROVE  sent'[i].connection <= sent'[k].connection
    <3>1. CASE k = l + 1
      BY <1>2, <2>1, <2>2, <3>1
    <3>2. CASE k # l + 1
      <4>1. i \in 1..l /\ k \in 1..l
        BY <2>1, <2>3, <3>2
      <4>2. QED BY <1>2, <2>1, <2>3, <4>1 DEF OrderInv, ConnectionsOK
    <3>3. QED BY <3>1, <3>2
  <2>4. QED BY <1>1, <2>1, <2>2, <2>3 DEF ConnectionsOK
<1>5. ~torn' => ParsedOK' /\ NoneMissed'
  BY <1>1, WriteParsed DEF OrderInv
<1>6. Lengths' = Lengths /\ \A n \in Lengths : Batch(n)' = Batch(n)
  BY <1>1 DEF Lengths, Queued, Batch
<1>7. PICK e : e = last /\ e = last' /\ RealByte(e)
  BY <1>1, <1>3 DEF BytesOK
<1>8. Ends(last)' <=> Ends(last)
  <2>1. Ends(last)' <=> Ends(e)'
    BY <1>7 DEF Ends, Of, Place, PacketLength
  <2>2. QED BY <1>2, <1>7, <2>1
<1>9. \A id : (Had(id)' <=> Had(id)) /\ (InBatch(id)' <=> InBatch(id))
  BY <1>1, <1>6, <1>8 DEF Had, ReceivedIds, InBatch
<1>10. \A id, n : OnWire(id, n)' <=> OnWire(id, n)
  BY <1>1 DEF OnWire
<1>11. Whole' => Whole
  <2>1. ASSUME NEW n \in Lengths PROVE Torn(Batch(n))' <=> Torn(Batch(n))
    <3>1. PICK batch : /\ batch = Batch(n) /\ Len(batch) = n /\ n \in Nat
                       /\ \A i \in 1..n : RealByte(batch[i])
      <4>1. n \in Nat
        BY BatchReal
      <4>2. QED BY <4>1, BatchReal
    <3>2. \A i \in 1..n : Continues(IF i = 1 THEN e ELSE batch[i - 1], batch[i])'
                            <=> Continues(IF i = 1 THEN e ELSE batch[i - 1], batch[i])
      <4>1. \A i \in 1..n : i # 1 => i - 1 \in 1..n
        BY <3>1
      <4>2. ASSUME NEW i \in 1..n, NEW b, b = IF i = 1 THEN e ELSE batch[i - 1]
            PROVE  Continues(b, batch[i])' <=> Continues(b, batch[i])
        <5>1. RealByte(b)
          BY <1>7, <3>1, <4>1, <4>2
        <5>2. Ends(b)' <=> Ends(b)
          BY <1>2, <5>1
        <5>3. QED BY <5>2 DEF Continues, Of, Place
      <4>3. QED BY <4>2
    <3>3. Torn(batch)' <=> Torn(batch)
      BY <1>7, <3>1, <3>2 DEF Torn
    <3>4. Torn(Batch(n))' <=> Torn(batch)'
      BY <1>6, <3>1 DEF Torn, Continues, Ends, Of, Place, PacketLength
    <3>5. QED BY <3>1, <3>3, <3>4
  <2>2. QED BY <1>1, <1>6, <2>1 DEF Whole
<1>12. ASSUME Whole PROVE BatchOrder' /\ WireOrder' /\ WritesOrder' /\ LastOrder'
  <2>1. BatchOrder /\ WireOrder /\ WritesOrder /\ LastOrder
    BY <1>12 DEF OrderInv
  <2>2. BatchOrder'
    <3>1. ASSUME NEW n \in Lengths, NEW i \in 1..n, Place(Batch(n)[i]) = 1
          PROVE  First(Of(Batch(n)[i]))' <=> First(Of(Batch(n)[i]))
      <4>1. PICK id \in 1..Len(sent) : id = Of(Batch(n)[i])
        BY <1>3, <3>1, BatchReal, FirstWritten
      <4>2. Of(Batch(n)[i])' = id
        BY <1>6, <4>1 DEF Of
      <4>3. First(id)' <=> First(id)
        BY <1>2
      <4>4. QED BY <4>1, <4>2, <4>3 DEF First
    <3>2. QED BY <1>6, <1>9, <2>1, <3>1 DEF BatchOrder, Of, Place
  <2>3. \A id \in 1..Len(sent) : Before(id)' <=> Before(id)
    BY <1>2, <1>9 DEF Before
  <2>4. WireOrder'
    <3>1. ASSUME NEW i \in 1..Len(wire), Place(wire[i]) = 1, NEW id, id = Of(wire[i])
          PROVE  Before(id)' \/ OnWire(id - 1, i)'
      <4>1. id \in 1..Len(sent)
        BY <1>3, <3>1, FirstWritten DEF BytesOK
      <4>2. Before(id) \/ OnWire(id - 1, i)
        BY <2>1, <3>1 DEF WireOrder
      <4>3. QED BY <1>10, <2>3, <4>1, <4>2
    <3>2. QED BY <1>1, <3>1 DEF WireOrder, Of, Place
  <2>5. PICK k \in Nat, m \in Nat : /\ k = Len(sent) /\ m = Len(writes)
                                    /\ Len(writes') = m + 1
                                    /\ writes'[m + 1].id = k + 1 /\ writes'[m + 1].next = 1
                                    /\ \A i \in 1..m : writes'[i] = writes[i]
    <3>1. PICK w : w = [id |-> Len(sent'), next |-> 1]
      OBVIOUS
    <3>2. w \in [id : Nat, next : Nat] /\ w.id = Len(sent) + 1 /\ w.next = 1
      BY <1>2, <3>1
    <3>3. writes \in Seq([id : Nat, next : Nat]) /\ writes' = Append(writes, w)
      BY <1>1, <1>3, <3>1 DEF BytesOK
    <3>4. /\ Len(writes) \in Nat /\ Len(writes') = Len(writes) + 1
          /\ writes'[Len(writes) + 1] = w /\ \A i \in 1..Len(writes) : writes'[i] = writes[i]
      BY <3>2, <3>3, Longer
    <3>5. QED BY <1>2, <3>2, <3>4
  <2>6. ASSUME NEW id, NEW i, Unwritten(id, i) PROVE Unwritten(id, i)'
    <3>1. PICK j \in 1..m : j < i /\ writes[j].id = id /\ writes[j].next = 1
      BY <2>5, <2>6 DEF Unwritten
    <3>2. j \in 1..(m + 1) /\ writes'[j] = writes[j]
      BY <2>5
    <3>3. QED BY <2>5, <3>1, <3>2 DEF Unwritten
  <2>7. PICK z \in Nat : z = Len(wire) + 1 /\ z = Len(wire') + 1
    <3>1. Len(wire) \in Nat
      BY <1>3 DEF BytesOK
    <3>2. QED BY <1>1, <3>1
  <2>8. WritesOrder'
    <3>1. ASSUME NEW i \in 1..m, writes[i].next = 1, NEW id, id = writes[i].id
          PROVE  Before(id)' \/ OnWire(id - 1, z)' \/ Unwritten(id - 1, i)'
      <4>1. id \in 1..Len(sent)
        BY <1>3, <2>5, <3>1 DEF BytesOK, Progress
      <4>2. Before(id) \/ OnWire(id - 1, z) \/ Unwritten(id - 1, i)
        BY <2>1, <2>5, <2>7, <3>1 DEF WritesOrder
      <4>3. QED BY <1>10, <2>3, <2>6, <4>1, <4>2
    <3>2. Before(k + 1)' \/ OnWire(k, z)' \/ Unwritten(k, m + 1)'
      <4>1. \/ k = 0 \/ sent[k].connection # connection
            \/ Had(k) \/ InBatch(k) \/ OnWire(k, z) \/ Unwritten(k, m + 1)
        BY <1>1, <2>1, <2>5, <2>7 DEF LastOrder
      <4>2. k + 1 - 1 = k /\ (k = 0 => k + 1 <= 1)
        BY <2>5
      <4>3. k # 0 => sent'[k] = sent[k]
        <5>1. k # 0 => k \in 1..k
          BY <2>5
        <5>2. QED BY <1>2, <2>5, <5>1
      <4>4. k = 0 \/ sent[k].connection # connection => First(k + 1)'
        BY <1>2, <2>5, <4>2, <4>3 DEF First
      <4>5. Had(k) \/ InBatch(k) => Before(k + 1)'
        BY <1>9, <4>2 DEF Before
      <4>6. QED BY <1>10, <2>6, <4>1, <4>4, <4>5 DEF Before
    <3>3. \A i \in 1..(m + 1) : i \in 1..m \/ i = m + 1
      BY <2>5
    <3>4. k + 1 - 1 = k
      BY <2>5
    <3>5. ASSUME NEW i \in 1..(m + 1), writes'[i].next = 1, NEW id, id = writes'[i].id
          PROVE  Before(id)' \/ OnWire(id - 1, z)' \/ Unwritten(id - 1, i)'
      BY <2>5, <3>1, <3>2, <3>3, <3>4, <3>5
    <3>6. QED BY <2>5, <2>7, <3>5 DEF WritesOrder
  <2>9. LastOrder'
    <3>1. m + 1 \in 1..(m + 1) /\ m + 1 < (m + 1) + 1
      BY <2>5
    <3>2. Unwritten(k + 1, (m + 1) + 1)'
      BY <2>5, <3>1 DEF Unwritten
    <3>3. QED BY <1>2, <2>5, <3>2 DEF LastOrder
  <2>10. QED BY <2>2, <2>4, <2>8, <2>9
<1>13. QED BY <1>1, <1>4, <1>5, <1>11, <1>12 DEF OrderInv

-----------------------------------------------------------------------------
(* A write goes on.                                                        *)

\* What the first write gives away, and what is left of the writes.
LEMMA TransmitIs ==
  ASSUME StreamInv, NEW n \in 1..(HeaderLength + MaxBodyLength), Transmit(n)
  PROVE  /\ UNCHANGED <<read_buf, ioq, link, sent, connection, received, last, torn>>
         /\ Len(wire) \in Nat /\ Len(wire') = Len(wire) + n /\ n \in Nat /\ n >= 1
         /\ \A i \in 1..Len(wire) : wire'[i] = wire[i]
         /\ Len(writes) \in Nat \ {0}
         /\ writes[1].next \in Nat /\ writes[1].next >= 1
         /\ \A k \in 1..n : wire'[Len(wire) + k] = <<writes[1].id, writes[1].next + k - 1>>
         /\ \A i \in 1..(Len(writes) - 1) : writes'[i] = writes[i + 1]
         /\ \/ Len(writes') = Len(writes) - 1
            \/ Len(writes') = Len(writes) /\ writes'[Len(writes)].next # 1
<1>1. SentOK /\ BytesOK
  BY DEF StreamInv
<1>2. /\ writes \in Seq([id : Nat, next : Nat]) /\ writes # <<>>
      /\ \A i \in 1..Len(writes) : Progress(writes[i])
  BY <1>1 DEF Transmit, BytesOK
<1>3. PICK w \in [id : Nat, next : Nat] : w = writes[1] /\ w = Head(writes) /\ Progress(w)
  <2>1. 1 \in 1..Len(writes) /\ Head(writes) = writes[1]
    BY <1>2
  <2>2. QED BY <1>2, <2>1, Element
<1>4. PICK id \in 1..Len(sent) : id = w.id
  BY <1>3 DEF Progress
<1>5. PICK length \in Nat : length = PacketLength(id)
  BY <1>1, PacketFits, Constants
<1>6. PICK next \in 1..length : next = w.next
  BY <1>3, <1>4, <1>5 DEF Progress
<1>7. PICK image \in Seq(Byte) : /\ image = Image(id) /\ Len(image) = length
                                 /\ \A i \in 1..length : image[i] = <<id, i>>
  BY <1>1, <1>5, ImageIs
<1>8. /\ n <= length - next + 1
      /\ wire' = wire \o SubSeq(image, next, next + n - 1)
      /\ writes' = IF n = length - next + 1
                   THEN Tail(writes)
                   ELSE Append(Tail(writes), [w EXCEPT !.next = next + n])
      /\ UNCHANGED <<read_buf, ioq, link, sent, connection, received, last, torn>>
  BY <1>3, <1>4, <1>6, <1>7 DEF Transmit, readerVars, historyVars
<1>9. /\ n \in Nat /\ n >= 1 /\ next \in Nat /\ 1 <= next /\ next <= length
      /\ next + n <= length + 1
  <2>1. n \in Nat /\ n >= 1
    BY Constants
  <2>2. n <= length - next + 1
    BY <1>8
  <2>3. QED BY <1>5, <1>6, <2>1, <2>2
<1>10. /\ Len(wire) \in Nat /\ Len(wire') = Len(wire) + n
       /\ \A i \in 1..Len(wire) : wire'[i] = wire[i]
       /\ \A k \in 1..n : wire'[Len(wire) + k] = <<id, next + k - 1>>
  <2>1. PICK upto \in Nat : /\ upto = next + n - 1 /\ next <= upto + 1 /\ upto <= length
                            /\ upto - next + 1 = n
    <3>1. /\ next + n - 1 \in Nat /\ next <= next + n - 1 + 1 /\ next + n - 1 <= length
          /\ (next + n - 1) - next + 1 = n
      BY <1>5, <1>9
    <3>2. QED BY <3>1
  <2>2. PICK bytes : bytes = SubSeq(image, next, upto)
    OBVIOUS
  <2>3. /\ bytes \in Seq(Byte) /\ Len(bytes) = n
        /\ \A i \in 1..n : bytes[i] = image[next + i - 1]
    <3>1. /\ next \in Nat /\ 1 <= next /\ next <= upto + 1 /\ upto <= Len(image)
          /\ upto - next + 1 = n
      BY <1>7, <1>9, <2>1
    <3>2. QED BY <2>2, <3>1, Slice
  <2>4. \A i \in 1..n : next + i - 1 \in 1..length
    BY <1>5, <1>9
  <2>5. \A i \in 1..n : bytes[i] = <<id, next + i - 1>>
    BY <1>7, <2>3, <2>4
  <2>6. wire \in Seq(Byte) /\ wire' = wire \o bytes
    BY <1>1, <1>8, <2>1, <2>2 DEF BytesOK
  <2>7. Len(wire) \in Nat
    BY <2>6
  <2>8. /\ Len(wire') = Len(wire) + Len(bytes)
        /\ \A i \in 1..Len(wire) : wire'[i] = wire[i]
        /\ \A k \in 1..Len(bytes) : wire'[Len(wire) + k] = bytes[k]
    <3>1. bytes \in Seq(Byte) /\ wire \in Seq(Byte)
      BY <2>3, <2>6
    <3>2. PICK new : new = wire \o bytes
      OBVIOUS
    <3>3. /\ Len(new) = Len(wire) + Len(bytes)
          /\ \A i \in 1..Len(wire) : new[i] = wire[i]
          /\ \A k \in 1..Len(bytes) : new[Len(wire) + k] = bytes[k]
      BY <3>1, <3>2, Joined
    <3>4. QED BY <2>6, <3>2, <3>3
  <2>9. QED BY <2>3, <2>5, <2>7, <2>8
<1>11. PICK rest \in Seq([id : Nat, next : Nat]) :
         /\ rest = Tail(writes) /\ Len(writes) \in Nat \ {0}
         /\ Len(rest) = Len(writes) - 1
         /\ \A i \in 1..Len(rest) : rest[i] = writes[i + 1]
  <2>1. PICK rest : rest = Tail(writes)
    OBVIOUS
  <2>2. /\ rest \in Seq([id : Nat, next : Nat]) /\ Len(writes) \in Nat \ {0}
        /\ Len(rest) = Len(writes) - 1
        /\ \A i \in 1..Len(rest) : rest[i] = writes[i + 1]
    BY <1>2, <2>1
  <2>3. QED BY <2>1, <2>2
<1>12. /\ \A i \in 1..(Len(writes) - 1) : writes'[i] = writes[i + 1]
       /\ \/ Len(writes') = Len(writes) - 1
          \/ Len(writes') = Len(writes) /\ writes'[Len(writes)].next # 1
  <2>1. CASE n = length - next + 1
    BY <1>8, <1>11, <2>1
  <2>2. CASE n # length - next + 1
    <3>1. PICK v \in [id : Nat, next : Nat] : /\ v = [w EXCEPT !.next = next + n]
                                              /\ v.next = next + n
      <4>1. PICK v : v = [w EXCEPT !.next = next + n]
        OBVIOUS
      <4>2. next + n \in Nat
        BY <1>9
      <4>3. v \in [id : Nat, next : Nat] /\ v.next = next + n
        BY <4>1, <4>2
      <4>4. QED BY <4>1, <4>3
    <3>2. writes' = Append(rest, v)
      BY <1>8, <1>11, <2>2, <3>1
    <3>3. /\ Len(rest) \in Nat /\ Len(writes') = Len(rest) + 1 /\ writes'[Len(rest) + 1] = v
          /\ \A i \in 1..Len(rest) : writes'[i] = rest[i]
      BY <3>2, Longer
    <3>4. v.next # 1
      BY <1>9, <3>1
    <3>5. Len(rest) + 1 = Len(writes)
      BY <1>11
    <3>6. QED BY <1>11, <3>3, <3>4, <3>5
  <2>3. QED BY <2>1, <2>2
<1>13. QED BY <1>3, <1>4, <1>6, <1>8, <1>9, <1>10, <1>11, <1>12

\* The bytes under way stay in the order of the writes.
LEMMA TransmitOrder ==
  ASSUME StreamInv, OrderInv, NEW n \in 1..(HeaderLength + MaxBodyLength), Transmit(n)
  PROVE  OrderInv'
<1>1. /\ UNCHANGED <<read_buf, ioq, link, sent, connection, received, last, torn>>
      /\ n \in Nat /\ n >= 1
  BY TransmitIs
<1>2. PICK l \in Nat : /\ l = Len(wire) /\ Len(wire') = l + n
                       /\ \A i \in 1..l : wire'[i] = wire[i]
  BY TransmitIs
<1>3. PICK m \in Nat : /\ m = Len(writes) /\ m # 0
                       /\ \A i \in 1..(m - 1) : writes'[i] = writes[i + 1]
                       /\ Len(writes') = m - 1 \/ (Len(writes') = m /\ writes'[m].next # 1)
  BY TransmitIs
<1>4. PICK w : w = writes[1].id
  OBVIOUS
<1>5. PICK next \in Nat : /\ next = writes[1].next /\ next >= 1
                           /\ \A k \in 1..n : wire'[l + k] = <<w, next + k - 1>>
  BY <1>2, <1>4, TransmitIs
<1>6. Lengths' = Lengths /\ \A k \in Lengths : Batch(k)' = Batch(k)
  BY <1>1 DEF Lengths, Queued, Batch
<1>7. /\ ParsedOK => ParsedOK'
      /\ NoneMissed => NoneMissed'
      /\ Whole' <=> Whole
      /\ \A id : Had(id)' <=> Had(id)
      /\ \A id : InBatch(id)' <=> InBatch(id)
      /\ \A id : First(id)' <=> First(id)
      /\ BatchOrder => BatchOrder'
  BY <1>1, <1>6, QuietKeeps
<1>8. ConnectionsOK'
  <2>1. link = "up"
    BY DEF Transmit
  <2>2. QED BY <1>1, <2>1 DEF OrderInv, ConnectionsOK
<1>9. \A id : Before(id)' <=> Before(id)
  BY <1>7 DEF Before
<1>10. ASSUME NEW id, NEW i \in Nat, NEW k \in Nat, i <= k, OnWire(id, i)
      PROVE  OnWire(id, k)'
  <2>1. PICK j \in 1..l : j < i /\ wire[j] = <<id, 1>>
    BY <1>2, <1>10 DEF OnWire
  <2>2. j \in 1..(l + n) /\ j < k /\ wire'[j] = <<id, 1>>
    BY <1>1, <1>2, <1>10, <2>1
  <2>3. QED BY <1>2, <2>2 DEF OnWire
<1>11. ASSUME NEW id, NEW i \in 1..m, Unwritten(id, i + 1)
       PROVE  OnWire(id, l + n + 1)' \/ Unwritten(id, i)'
  <2>1. PICK j \in 1..m : j < i + 1 /\ writes[j].id = id /\ writes[j].next = 1
    BY <1>3, <1>11 DEF Unwritten
  <2>2. CASE j = 1
    <3>1. wire'[l + 1] = <<id, 1>>
      <4>1. 1 \in 1..n /\ 1 + 1 - 1 = 1
        BY <1>1
      <4>2. next = 1 /\ w = id
        BY <1>4, <1>5, <2>1, <2>2
      <4>3. QED BY <1>5, <4>1, <4>2
    <3>2. l + 1 \in 1..(l + n) /\ l + 1 < l + n + 1
      BY <1>1
    <3>3. QED BY <1>2, <3>1, <3>2 DEF OnWire
  <2>3. CASE j # 1
    <3>1. PICK k \in 1..(m - 1) : j = k + 1 /\ k < i
      <4>1. j - 1 \in 1..(m - 1) /\ j = (j - 1) + 1 /\ j - 1 < i
        BY <2>1, <2>3
      <4>2. QED BY <4>1
    <3>2. writes'[k].id = id /\ writes'[k].next = 1
      BY <1>3, <2>1, <3>1
    <3>3. k \in 1..Len(writes')
      BY <1>3, <3>1
    <3>4. QED BY <3>1, <3>2, <3>3 DEF Unwritten
  <2>4. QED BY <2>2, <2>3
<1>12. PICK z \in Nat : z = l + n + 1 /\ z = Len(wire') + 1 /\ l + 1 <= z
  <2>1. l + n + 1 \in Nat /\ l + 1 <= l + n + 1
    BY <1>1
  <2>2. QED BY <1>2, <2>1
<1>13. ASSUME Whole PROVE WireOrder' /\ WritesOrder' /\ LastOrder'
  <2>1. WireOrder /\ WritesOrder /\ LastOrder
    BY <1>13 DEF OrderInv
  <2>2. ASSUME NEW i \in 1..(l + n), Place(wire'[i]) = 1, NEW id, id = Of(wire'[i])
        PROVE  Before(id)' \/ OnWire(id - 1, i)'
    <3>1. CASE i \in 1..l
      <4>1. Before(id) \/ OnWire(id - 1, i)
        BY <1>2, <2>1, <2>2, <3>1 DEF WireOrder
      <4>2. QED BY <1>9, <1>10, <3>1, <4>1
    <3>2. CASE i \notin 1..l
      <4>1. PICK k \in 1..n : i = l + k
        <5>1. i - l \in 1..n /\ i = l + (i - l)
          BY <1>1, <2>2, <3>2
        <5>2. QED BY <5>1
      <4>2. Of(wire'[i]) = w /\ Place(wire'[i]) = next + k - 1
        BY <1>5, <4>1 DEF Of, Place
      <4>3. next = 1 /\ k = 1 /\ id = w
        BY <1>1, <1>5, <2>2, <4>2
      <4>4. 1 \in 1..Len(writes) /\ writes[1].next = 1 /\ writes[1].id = id
        BY <1>3, <1>4, <1>5, <4>3
      <4>5. ~Unwritten(id - 1, 1)
        BY DEF Unwritten
      <4>6. Before(id) \/ OnWire(id - 1, l + 1)
        BY <1>2, <2>1, <4>4, <4>5 DEF WritesOrder
      <4>7. QED BY <1>9, <1>10, <4>1, <4>3, <4>6
    <3>3. QED BY <3>1, <3>2
  <2>3. WireOrder'
    BY <1>2, <2>2 DEF WireOrder, Of, Place
  <2>4. ASSUME NEW i \in 1..Len(writes'), writes'[i].next = 1, NEW id, id = writes'[i].id
        PROVE  Before(id)' \/ OnWire(id - 1, z)' \/ Unwritten(id - 1, i)'
    <3>1. i \in 1..(m - 1) /\ i + 1 \in 1..m /\ i \in 1..m
      BY <1>3, <2>4
    <3>2. writes[i + 1].next = 1 /\ writes[i + 1].id = id
      BY <1>3, <2>4, <3>1
    <3>3. Before(id) \/ OnWire(id - 1, l + 1) \/ Unwritten(id - 1, i + 1)
      BY <1>2, <1>3, <2>1, <3>1, <3>2 DEF WritesOrder
    <3>4. QED BY <1>9, <1>10, <1>11, <1>12, <3>1, <3>3
  <2>5. WritesOrder'
    BY <1>12, <2>4 DEF WritesOrder
  <2>6. ASSUME link = "up", NEW k, k = Len(sent), NEW x, x = Len(writes') + 1
        PROVE  \/ k = 0 \/ sent[k].connection # connection
               \/ Had(k)' \/ InBatch(k)' \/ OnWire(k, z)' \/ Unwritten(k, x)'
    <3>1. \/ k = 0 \/ sent[k].connection # connection
          \/ Had(k) \/ InBatch(k) \/ OnWire(k, l + 1) \/ Unwritten(k, m + 1)
      BY <1>2, <1>3, <2>1, <2>6 DEF LastOrder
    <3>2. Unwritten(k, m + 1) => OnWire(k, z)' \/ Unwritten(k, m)'
      <4>1. m \in 1..m
        BY <1>3
      <4>2. QED BY <1>11, <1>12, <4>1
    <3>3. Unwritten(k, m)' => Unwritten(k, x)'
      <4>1. x \in Nat /\ m <= x
        BY <1>3, <2>6
      <4>2. \A j \in 1..Len(writes') : j < m => j < x
        BY <1>3, <4>1
      <4>3. QED BY <4>2 DEF Unwritten
    <3>4. OnWire(k, l + 1) => OnWire(k, z)'
      BY <1>10, <1>12
    <3>5. QED BY <1>7, <3>1, <3>2, <3>3, <3>4
  <2>7. LastOrder'
    BY <1>1, <1>12, <2>6 DEF LastOrder
  <2>8. QED BY <2>3, <2>5, <2>7
<1>14. QED BY <1>1, <1>7, <1>8, <1>13 DEF OrderInv

-----------------------------------------------------------------------------
(* The reader stops.                                                       *)

\* What stop_impl leaves: an empty buffer, and a last byte that ends a packet.
LEMMA StopIs ==
  ASSUME StreamInv, OrderInv, RunStop
  PROVE  /\ UNCHANGED <<sent, connection, received, torn>>
         /\ link' = "closed" /\ wire' = <<>> /\ writes' = <<>>
         /\ Lengths' = Lengths
         /\ Contents(read_buf') = <<>>
         /\ read_buf'.cells = read_buf.cells /\ read_buf'.head = 0 /\ read_buf'.tail = 0
         /\ RealByte(last') /\ Of(last') = Of(last) /\ Ends(last')
         /\ Ends(last) => last' = last
<1>1. /\ Runs("stop") /\ Queues(AbortedByClose) /\ DoClose
      /\ read_buf' = Cleared(read_buf)
      /\ last' = IF last = NoByte THEN last ELSE <<Of(last), PacketLength(Of(last))>>
      /\ UNCHANGED <<sent, connection, received, torn>>
  BY DEF RunStop, StoppedBuffer
<1>2. SentOK /\ BufferOK(read_buf) /\ AllReal(read_buf) /\ RealByte(last)
  BY RealBuffer DEF StreamInv, BytesOK
<1>3. link' = "closed" /\ wire' = <<>> /\ writes' = <<>>
  <2>1. CASE connect_state = "disconnected"
    <3>1. link = "closed"
      BY <2>1 DEF StreamInv, LinkInv
    <3>2. QED BY <1>1, <2>1, <3>1 DEF DoClose, OrderInv, ConnectionsOK
  <2>2. CASE connect_state # "disconnected"
    BY <1>1, <2>2 DEF DoClose
  <2>3. QED BY <2>1, <2>2
<1>4. Lengths' = Lengths
  BY <1>1, AbortsOK, LengthsKept
<1>5. read_buf'.cells = read_buf.cells /\ read_buf'.head = 0 /\ read_buf'.tail = 0
  <2>1. PICK b : b = read_buf /\ BufferOK(b)
    BY <1>2
  <2>2. /\ Cleared(b).cells = b.cells /\ Cleared(b).head = 0 /\ Cleared(b).tail = 0
    BY <2>1 DEF Cleared, BufferOK, Buffers
  <2>3. QED BY <1>1, <2>1, <2>2
<1>6. Contents(read_buf') = <<>>
  <2>1. BufferOK(read_buf') /\ Size(read_buf') = 0
    BY <1>1, <1>2, ClearedReal
  <2>2. Contents(read_buf') \in Seq(Byte) /\ Len(Contents(read_buf')) = 0
    BY <2>1, ContentsType
  <2>3. QED BY <2>2
<1>7. CASE last = NoByte
  <2>1. last' = last /\ Ends(last')
    BY <1>1, <1>7 DEF Ends
  <2>2. QED BY <1>1, <1>2, <1>3, <1>4, <1>5, <1>6, <2>1
<1>8. CASE last # NoByte
  <2>1. Of(last) \in 1..Len(sent)
    BY <1>2, <1>8 DEF RealByte, Written
  <2>2. PICK id \in 1..Len(sent), place \in Nat : id = Of(last) /\ place = PacketLength(id)
    BY <1>2, <2>1, PacketFits, Constants
  <2>3. last' = <<id, place>>
    BY <1>1, <1>8, <2>2
  <2>4. Of(last') = id /\ Place(last') = place /\ Ends(last')
    BY <2>2, <2>3 DEF Of, Place, Ends
  <2>5. RealByte(last')
    <3>1. place \in 1..PacketLength(id)
      BY <1>2, <2>2, PacketFits, Constants
    <3>2. QED BY <1>2, <2>3, <3>1, WrittenReal
  <2>6. Ends(last) => last' = last
    <3>1. last \in Byte
      BY <1>2 DEF RealByte
    <3>2. last = <<Of(last), Place(last)>>
      BY <3>1, ByteIs
    <3>3. QED BY <1>8, <2>2, <2>3, <3>2 DEF Ends
  <2>7. QED BY <1>1, <1>3, <1>4, <1>5, <1>6, <2>2, <2>4, <2>5, <2>6
<1>9. QED BY <1>7, <1>8

\* A completed read that is queued when the reader stops is of the packets before,
\* and tears the stream, unless the buffer was empty.
LEMMA RunStopOrder ==
  ASSUME StreamInv, OrderInv, RunStop
  PROVE  OrderInv'
<1>1. /\ UNCHANGED <<sent, connection, received, torn>>
      /\ link' = "closed" /\ wire' = <<>> /\ writes' = <<>>
      /\ Lengths' = Lengths
      /\ Contents(read_buf') = <<>>
      /\ read_buf'.cells = read_buf.cells /\ read_buf'.head = 0 /\ read_buf'.tail = 0
  BY StopIs
<1>2. PICK e : /\ e = last' /\ RealByte(e) /\ Of(e) = Of(last) /\ Ends(e)
               /\ Ends(last) => e = last
  BY StopIs
<1>3. /\ Ends(last)' <=> Ends(e)
      /\ \A p : Intact(p)' <=> Intact(p)
      /\ \A id : First(id)' <=> First(id)
  BY <1>1, <1>2, EndsSame
<1>4. Ends(last)' /\ ReceivedIds' = ReceivedIds
  BY <1>1, <1>2, <1>3 DEF ReceivedIds
<1>5. ConnectionsOK'
  BY <1>1 DEF OrderInv, ConnectionsOK
<1>6. ASSUME ParsedOK PROVE ParsedOK'
  <2>1. InOrder(received)'
    BY <1>1, <1>3, <1>6 DEF ParsedOK, InOrder
  <2>2. \A id \in ReceivedIds' : id < Of(last') \/ (id = Of(last') /\ Ends(last)')
    BY <1>2, <1>4, <1>6 DEF ParsedOK
  <2>3. FirstCell(read_buf', Of(last'))
    BY <1>1 DEF FirstCell
  <2>4. QED BY <1>1, <1>4, <2>1, <2>2, <2>3 DEF ParsedOK
<1>7. NoneMissed => NoneMissed'
  BY <1>3, <1>4 DEF NoneMissed
<1>8. WireOrder' /\ WritesOrder' /\ LastOrder'
  BY <1>1, OrdersEmpty
<1>9. ASSUME Whole' PROVE BatchOrder'
  <2>1. ~torn /\ ParsedOK /\ NoneMissed
    BY <1>1, <1>9 DEF Whole, OrderInv
  <2>2. /\ SentOK /\ BufferOK(read_buf) /\ RealByte(last)
        /\ read_buf.tail \in Nat /\ read_buf.head \in Nat /\ read_buf.head <= read_buf.tail
        /\ Size(read_buf) = read_buf.tail - read_buf.head
    BY RealBuffer, BufferFields, Constants DEF StreamInv, BytesOK
  <2>3. CASE read_buf.tail = 0
    <3>1. \A n \in Lengths : Batch(n)' = Batch(n)
      BY <1>1, <2>3 DEF Batch
    <3>2. Contents(read_buf) = <<>>
      <4>1. Size(read_buf) = 0
        BY <2>2, <2>3
      <4>2. Contents(read_buf) \in Seq(Byte) /\ Len(Contents(read_buf)) = 0
        BY <2>2, <4>1, ContentsType
      <4>3. QED BY <4>2
    <3>3. Ends(last)
      <4>1. ASSUME ~Ends(last) PROVE FALSE
        <5>1. PICK place \in Nat : /\ place = Place(last) /\ Of(last) \in 1..Len(sent)
                                   /\ place # 0 /\ place <= PacketLength(Of(last))
          <6>1. Written(last) /\ last \in Byte
            BY <2>2, <4>1 DEF RealByte, Ends
          <6>2. /\ Of(last) \in 1..Len(sent) /\ Place(last) \in 1..PacketLength(Of(last))
                /\ PacketLength(Of(last)) \in Nat /\ Place(last) \in Nat
            BY <2>2, <6>1, EndsReal, ByteIs
          <6>3. Place(last) # 0 /\ Place(last) <= PacketLength(Of(last))
            BY <6>2
          <6>4. QED BY <6>2, <6>3
        <5>2. Contents(read_buf) = [i \in 1..place |-> <<Of(last), i>>]
          BY <2>1, <2>2, <4>1, <5>1, ImageFront DEF ParsedOK
        <5>3. Len(<<>>) = 0 /\ Len([i \in 1..place |-> <<Of(last), i>>]) = place
          BY <5>1
        <5>4. QED BY <3>2, <5>1, <5>2, <5>3
      <4>2. QED BY <4>1
    <3>4. UNCHANGED <<sent, received, last, torn>>
      BY <1>1, <1>2, <3>3
    <3>5. FirstCell(read_buf', Of(last))
      BY <1>1 DEF FirstCell
    <3>6. (Whole' <=> Whole) /\ (BatchOrder => BatchOrder')
      BY <1>1, <3>1, <3>2, <3>4, <3>5, QuietKeeps
    <3>7. QED BY <1>9, <3>6 DEF OrderInv
  <2>4. CASE read_buf.tail # 0
    <3>1. Of(read_buf.cells[0]) <= Of(last)
      BY <2>1, <2>2, <2>4 DEF ParsedOK, FirstCell
    <3>2. PICK b : b = read_buf.cells[0] /\ RealByte(b)
      <4>1. 0 \in Cells
        BY Constants
      <4>2. QED BY <4>1, RealBuffer DEF AllReal
    <3>3. ~Continues(e, b)
      <4>1. Of(b) \in Nat /\ Of(e) \in Nat
        BY <1>2, <3>2, ByteIs DEF RealByte
      <4>2. Continues(e, b) => Of(b) > Of(e)
        BY <1>2, <2>2, <3>2, ContinuesReal
      <4>3. QED BY <1>2, <3>1, <3>2, <4>1, <4>2
    <3>4. Lengths = {}
      <4>1. ASSUME NEW n \in Lengths PROVE FALSE
        <5>1. n \in Nat /\ n >= 1
          BY <4>1, BatchReal, RealBuffer
        <5>2. PICK batch : /\ batch = Batch(n)' /\ Len(batch) = n /\ batch[1] = b
          <6>1. Batch(n)' = [i \in 1..n |-> read_buf.cells[0 + i - 1]]
            BY <1>1 DEF Batch
          <6>2. PICK batch : batch = [i \in 1..n |-> read_buf.cells[0 + i - 1]]
            OBVIOUS
          <6>3. Len(batch) = n /\ batch[1] = read_buf.cells[0]
            BY <5>1, <6>2
          <6>4. QED BY <3>2, <6>1, <6>2, <6>3
        <5>3. ~Torn(Batch(n))'
          BY <1>1, <1>9, <4>1 DEF Whole
        <5>4. Continues(e, b)'
          <6>1. 1 \in 1..Len(batch)
            BY <5>1, <5>2
          <6>2. ~Torn(batch)'
            BY <5>2, <5>3 DEF Torn, Continues, Ends, Of, Place, PacketLength
          <6>3. QED BY <1>2, <5>2, <6>1, <6>2 DEF Torn, Continues, Ends, Of, Place, PacketLength
        <5>5. Continues(e, b)' <=> Continues(e, b)
          BY <1>1 DEF Continues, Ends, Of, Place, PacketLength
        <5>6. QED BY <3>3, <5>4, <5>5
      <4>2. QED BY <4>1
    <3>5. QED BY <1>1, <3>4 DEF BatchOrder
  <2>5. QED BY <2>3, <2>4
<1>10. QED BY <1>1, <1>5, <1>6, <1>7, <1>8, <1>9 DEF OrderInv

-----------------------------------------------------------------------------
(* The theorem about the stream.                                           *)

\* At first nothing is written.
LEMMA OrderStarts ==
  ASSUME Init
  PROVE  OrderInv
<1>1. /\ read_buf = Fresh(NoByte) /\ ioq = <<>> /\ wire = <<>> /\ writes = <<>>
      /\ sent = <<>> /\ received = <<>> /\ last = NoByte /\ link = "closed"
  BY DEF Init
<1>2. 1..Len(<<>>) = {} /\ Len(<<>>) = 0 /\ 2..0 = {} /\ 1..0 = {}
  OBVIOUS
<1>3. Ends(last)
  BY <1>1 DEF Ends
<1>4. ReceivedIds = {} /\ Lengths = {}
  BY <1>1, <1>2 DEF ReceivedIds, Lengths, Queued
<1>5. ConnectionsOK
  BY <1>1, <1>2 DEF ConnectionsOK
<1>6. InOrder(received)
  <2>1. <<>> \in Seq(Packets)
    OBVIOUS
  <2>2. QED BY <1>1, <1>2, <2>1 DEF InOrder
<1>7. Contents(read_buf) = <<>> /\ FirstCell(read_buf, Of(last))
  <2>1. BufferOK(read_buf) /\ read_buf.head = 0 /\ read_buf.tail = 0
    BY <1>1, StreamStarts, RealBuffer DEF Fresh
  <2>2. Size(read_buf) = 0
    BY <2>1 DEF Size
  <2>3. Contents(read_buf) \in Seq(Byte) /\ Len(Contents(read_buf)) = 0
    BY <2>1, <2>2, ContentsType
  <2>4. QED BY <2>1, <2>3 DEF FirstCell
<1>8. ParsedOK /\ NoneMissed
  BY <1>3, <1>4, <1>6, <1>7 DEF ParsedOK, NoneMissed
<1>9. BatchOrder /\ WireOrder /\ WritesOrder /\ LastOrder
  BY <1>1, <1>2, <1>4 DEF BatchOrder, WireOrder, WritesOrder, LastOrder
<1>10. QED BY <1>5, <1>8, <1>9 DEF OrderInv

\* Every step keeps the order.
LEMMA OrderSteps ==
  ASSUME StreamInv, OrderInv, [Next]_vars
  PROVE  OrderInv'
<1>1. CASE RunRead
  BY <1>1, RunReadOrder
<1>2. CASE RunReadError \/ RunWriteError
  BY <1>2, RunErrorOrder
<1>3. CASE RunStop
  BY <1>3, RunStopOrder
<1>4. CASE RunConnected
  BY <1>4, RunConnectedOrder
<1>5. CASE CallStop \/ WriteFails \/ ReadFails
  BY <1>5, QueuesOrder
<1>6. CASE DoConnect \/ ConnectDone \/ LinkBreaks
  BY <1>6, LinkOrder
<1>7. CASE \E body \in Bodies : Write(body)
  BY <1>7, WriteOrder
<1>8. CASE \E n \in 1..(HeaderLength + MaxBodyLength) : Transmit(n)
  BY <1>8, TransmitOrder
<1>9. CASE ReadReady
  BY <1>9, ReadReadyOrder
<1>10. CASE UNCHANGED vars
  <2>1. UNCHANGED <<read_buf, ioq, link, wire, writes, sent, connection, received, last, torn>>
    BY <1>10 DEF vars, readerVars, peerVars, historyVars
  <2>2. Lengths' = Lengths /\ \A n \in Lengths : Batch(n)' = Batch(n)
    BY <2>1 DEF Lengths, Queued, Batch
  <2>3. /\ ParsedOK => ParsedOK'
        /\ NoneMissed => NoneMissed'
        /\ Whole' <=> Whole
        /\ \A id : Had(id)' <=> Had(id)
        /\ \A id : InBatch(id)' <=> InBatch(id)
        /\ \A id : First(id)' <=> First(id)
        /\ BatchOrder => BatchOrder'
    BY <2>1, <2>2, QuietKeeps
  <2>4. /\ WireOrder => WireOrder'
        /\ WritesOrder => WritesOrder'
        /\ LastOrder => LastOrder'
    BY <2>1, <2>3, OrdersKept
  <2>5. ConnectionsOK'
    BY <2>1 DEF OrderInv, ConnectionsOK
  <2>6. QED BY <2>1, <2>3, <2>4, <2>5 DEF OrderInv
<1>11. QED
  BY <1>1, <1>2, <1>3, <1>4, <1>5, <1>6, <1>7, <1>8, <1>9, <1>10 DEF Next

LEMMA OrderInvariant == Spec => [](StreamInv /\ OrderInv)
<1>1. Init => StreamInv /\ OrderInv
  BY StreamStarts, OrderStarts
<1>2. StreamInv /\ OrderInv /\ [Next]_vars => (StreamInv /\ OrderInv)'
  BY StreamSteps, OrderSteps
<1>3. QED BY <1>1, <1>2, PTL DEF Spec

\* None is missed before one that was received, back to the first of its connection.
LEMMA NoneLeftOut ==
  ASSUME StreamInv, ConnectionsOK, ParsedOK, NoneMissed,
         NEW id \in 1..Len(sent), NEW later \in ReceivedIds, id < later,
         sent[id].connection = sent[later].connection
  PROVE  id \in ReceivedIds
<1>1. later \in 1..Len(sent)
  <2>1. PICK i \in 1..Len(received) : later = received[i].id
    BY DEF ReceivedIds
  <2>2. QED BY <2>1 DEF ParsedOK, InOrder, Intact
<1>2. PICK l \in Nat : l = Len(sent) /\ later \in 1..l /\ id \in 1..l
  BY <1>1 DEF StreamInv, SentOK
<1>3. \A i \in 1..l : sent[i].connection \in Nat
  <2>1. ASSUME NEW i \in 1..l PROVE sent[i].connection \in Nat
    <3>1. sent[i] \in [body : Bodies, connection : 1..MaxConnections]
      BY <1>2, Element DEF StreamInv, SentOK
    <3>2. QED BY <3>1, Constants
  <2>2. QED BY <2>1
<1> DEFINE S == { m \in Nat : id <= later - m => later - m \in ReceivedIds }
<1>4. 0 \in S
  BY <1>2
<1>5. ASSUME NEW m \in Nat, m \in S PROVE m + 1 \in S
  <2> SUFFICES ASSUME id <= later - (m + 1)
               PROVE  later - (m + 1) \in ReceivedIds
    OBVIOUS
  <2>1. PICK k \in 1..l : /\ k = later - m /\ k - 1 = later - (m + 1) /\ k <= later
                          /\ id <= k - 1 /\ k - 1 \in 1..l /\ ~(k <= 1)
    <3>1. /\ later - m \in 1..l /\ (later - m) - 1 = later - (m + 1) /\ later - m <= later
          /\ id <= (later - m) - 1 /\ (later - m) - 1 \in 1..l /\ ~(later - m <= 1)
      BY <1>2
    <3>2. QED BY <3>1
  <2>2. k \in ReceivedIds
    BY <1>2, <1>5, <2>1
  <2>3. sent[k - 1].connection = sent[k].connection
    <3>1. PICK a \in Nat, b \in Nat, c \in Nat, d \in Nat :
            /\ a = sent[id].connection /\ b = sent[k - 1].connection
            /\ c = sent[k].connection /\ d = sent[later].connection
      BY <1>2, <1>3, <2>1
    <3>2. a <= b /\ b <= c /\ c <= d /\ a = d
      <4>1. k - 1 <= k
        BY <1>2, <2>1
      <4>2. QED BY <1>2, <2>1, <3>1, <4>1 DEF ConnectionsOK
    <3>3. b = c
      BY <3>2
    <3>4. QED BY <3>1, <3>3
  <2>4. k - 1 \in ReceivedIds
    BY <2>1, <2>2, <2>3 DEF NoneMissed, First
  <2>5. QED BY <2>1, <2>4
<1>6. later - id \in Nat /\ later - (later - id) = id
  BY <1>2
<1> HIDE DEF S
<1>7. Nat \subseteq S
  BY <1>4, <1>5, Induction
<1>8. later - id \in S
  BY <1>6, <1>7
<1>9. id <= later - (later - id) => later - (later - id) \in ReceivedIds
  BY <1>8 DEF S
<1>10. QED BY <1>2, <1>6, <1>9

(* As long as the bytes that reach the buffer are whole packets one after  *)
(* the other, process_packet finds the packets that were written, in order *)
(* and with their own bodies, and misses none of a connection, however     *)
(* async_write and async_read_some cut and interleave them, wherever       *)
(* io_buffer moved them, and whatever stop_impl, errors and new            *)
(* connections came between: for any buffer, header, bodies, and any       *)
(* number of packets, writes and connections.                              *)
THEOREM StreamExact == Spec => []WholeStreamExact
<1>1. ASSUME StreamInv, OrderInv PROVE WholeStreamExact
  <2>1. SUFFICES ASSUME ~torn PROVE
          /\ \A i \in 1..Len(received) : Intact(received[i])
          /\ \A i \in 2..Len(received) : received[i - 1].id < received[i].id
          /\ \A id \in 1..Len(sent), later \in ReceivedIds :
               id < later /\ sent[id].connection = sent[later].connection
                 => id \in ReceivedIds
          /\ Contents(read_buf) = IF Ends(last) THEN <<>>
                                  ELSE SubSeq(Image(Of(last)), 1, Place(last))
    BY DEF WholeStreamExact
  <2>2. ConnectionsOK /\ ParsedOK /\ NoneMissed
    BY <1>1, <2>1 DEF OrderInv
  <2>3. \A id \in 1..Len(sent), later \in ReceivedIds :
               id < later /\ sent[id].connection = sent[later].connection
                 => id \in ReceivedIds
    BY <1>1, <2>2, NoneLeftOut
  <2>4. QED BY <2>2, <2>3 DEF ParsedOK, InOrder
<1>2. QED BY <1>1, OrderInvariant, PTL
=============================================================================
