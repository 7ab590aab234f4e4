------------------------ MODULE PacketTrackerProofs ------------------------
(***************************************************************************)
(* Proofs about PacketTracker.tla for every window, every clock bound and  *)
(* every set of packet ids: the ring keeps its invariant, and implements   *)
(* the sliding window of RecentPackets.tla.                                *)
(*                                                                         *)
(* The invariant speaks of seconds, not of buckets: the seconds that the   *)
(* ring stands for are first_tick..first_tick + Window - 1, the bucket of  *)
(* second t is t % Window, and the lemmas about remainders make that a     *)
(* bijection.                                                              *)
(***************************************************************************)
EXTENDS PacketTracker, TLAPS

-----------------------------------------------------------------------------
(* Remainders by a positive W: W consecutive seconds fall in W different   *)
(* buckets, and an index may be advanced before or after the remainder is  *)
(* taken.                                                                  *)

(* A remainder is a bucket number. *)
LEMMA ModRange ==
    ASSUME NEW W \in Nat \ {0}, NEW n \in Nat
    PROVE  n % W \in 0..W - 1
  OBVIOUS

(* A number is its quotient's multiple of W plus its remainder. *)
LEMMA DivMod ==
    ASSUME NEW W \in Nat \ {0}, NEW n \in Nat
    PROVE  n \div W \in Nat /\ n = W * (n \div W) + (n % W)
  OBVIOUS

(* A positive multiple of W is at least W. *)
LEMMA MultipleAtLeast ==
    ASSUME NEW W \in Nat \ {0}, NEW k \in Int, k >= 1
    PROVE  W * k >= W
  OBVIOUS

(* Quotient and remainder are unique. *)
LEMMA UniqueRemainder ==
    ASSUME NEW W \in Nat \ {0}, NEW a \in Int, NEW b \in Int,
           NEW r \in 0..W - 1, NEW s \in 0..W - 1,
           W * a + r = W * b + s
    PROVE  a = b /\ r = s
  <1>1. W * b - W * a = W * (b - a) /\ W * a - W * b = W * (a - b)
    OBVIOUS
  <1>2. b - a < 1 /\ a - b < 1
    BY <1>1, MultipleAtLeast
  <1> QED
    BY <1>2

(* What is below W is its own remainder, and W added to it changes nothing. *)
LEMMA SmallMod ==
    ASSUME NEW W \in Nat \ {0}, NEW b \in 0..W - 1
    PROVE  b % W = b /\ (b + W) % W = b
  <1>1. b = W * (b \div W) + (b % W) /\ b \div W \in Nat /\ b % W \in 0..W - 1
    <2>1. b \in Nat
      OBVIOUS
    <2> QED
      BY <2>1, DivMod, ModRange
  <1>2. /\ b + W = W * ((b + W) \div W) + ((b + W) % W)
        /\ (b + W) \div W \in Nat
        /\ (b + W) % W \in 0..W - 1
    <2>1. b + W \in Nat
      OBVIOUS
    <2> QED
      BY <2>1, DivMod, ModRange
  <1>3. W * 0 + b = b /\ W * 1 + b = b + W
    OBVIOUS
  <1>4. b % W = b
    BY <1>1, <1>3, UniqueRemainder
  <1>5. (b + W) % W = b
    BY <1>2, <1>3, UniqueRemainder
  <1> QED
    BY <1>4, <1>5

(* Advancing an index after the remainder is taken, or before. *)
LEMMA ModAdd ==
    ASSUME NEW W \in Nat \ {0}, NEW t \in Nat, NEW k \in Nat
    PROVE  ((t % W) + k) % W = (t + k) % W
  <1> DEFINE r == t % W
             a == t \div W
             s == (r + k) % W
             q == (r + k) \div W
             u == (t + k) % W
             b == (t + k) \div W
  <1>1. a \in Nat /\ r \in 0..W - 1 /\ t = W * a + r
    BY DivMod, ModRange
  <1>2. r + k \in Nat /\ t + k \in Nat
    BY <1>1
  <1>3. q \in Nat /\ s \in 0..W - 1 /\ r + k = W * q + s
    BY <1>2, DivMod, ModRange
  <1>4. b \in Nat /\ u \in 0..W - 1 /\ t + k = W * b + u
    BY <1>2, DivMod, ModRange
  <1> HIDE DEF r, a, s, q, u, b
  <1>5. W * (a + q) = W * a + W * q
    BY <1>1, <1>3
  <1>6. W * (a + q) + s = W * b + u
    BY <1>1, <1>3, <1>4, <1>5
  <1>7. a + q \in Int /\ b \in Int /\ s \in 0..W - 1 /\ u \in 0..W - 1
    BY <1>1, <1>3, <1>4
  <1> DEFINE c == a + q
  <1> HIDE DEF c
  <1>8. s = u
    <2>1. c \in Int /\ W * c + s = W * b + u
      BY <1>6, <1>7 DEF c
    <2> QED
      BY <2>1, <1>7, UniqueRemainder
  <1> QED
    BY <1>8 DEF r, s, u

(* Two seconds less than W apart have different buckets. *)
LEMMA ModInjective ==
    ASSUME NEW W \in Nat \ {0}, NEW t \in Nat, NEW u \in Nat,
           t - u < W, u - t < W, t % W = u % W
    PROVE  t = u
  <1> DEFINE r == t % W
             a == t \div W
             b == u \div W
  <1>1. /\ a \in Nat /\ b \in Nat /\ r \in 0..W - 1
        /\ t = W * a + r /\ u = W * b + r
    BY DivMod, ModRange
  <1> HIDE DEF r, a, b
  <1>2. W * b - W * a = W * (b - a) /\ W * a - W * b = W * (a - b)
    BY <1>1
  <1>3. b - a < 1 /\ a - b < 1
    BY <1>1, <1>2, MultipleAtLeast
  <1>4. a = b
    BY <1>1, <1>3
  <1> QED
    BY <1>1, <1>4

-----------------------------------------------------------------------------
(* The invariant.                                                          *)

Inv ==
    /\ TypeOK
    /\ IndexFollowsTick
    /\ RingMatchesSet
    /\ RecordedInItsSecond

-----------------------------------------------------------------------------
(* The window after it moved on, in seconds: it ends no later than Window  *)
(* seconds after it starts, contains the present second, and the bucket    *)
(* that on_receive_packet computes is that of the present second.          *)
LEMMA WindowMoves ==
    ASSUME TypeOK, IndexFollowsTick
    PROVE  /\ Span \in Nat /\ LiveTick \in Nat /\ first_tick <= LiveTick
           /\ LiveTick <= now /\ now - LiveTick < Window
           /\ Span > 0 => now - LiveTick = Window - 1
           /\ LiveTick \in 0..MaxTick
           /\ LiveIndex = LiveTick % Window
           /\ LiveIndex \in Buckets
           /\ BucketOfNow = now % Window
           /\ BucketOfNow \in Buckets
  <1> USE TrackerAssumption
  <1>1. now \in Nat /\ first_tick \in Nat /\ first_tick <= now /\ now <= MaxTick
    BY DEF TypeOK, IndexFollowsTick
  <1>2. /\ Span \in Nat /\ LiveTick \in Nat /\ first_tick <= LiveTick
        /\ LiveTick <= now /\ now - LiveTick < Window
        /\ Span > 0 => now - LiveTick = Window - 1
        /\ LiveTick \in 0..MaxTick
    BY <1>1 DEF Span, Offset, LiveTick
  <1>3. LiveIndex = LiveTick % Window
    BY <1>1, <1>2, ModAdd DEF LiveIndex, LiveTick, IndexFollowsTick
  <1>4. BucketOfNow = now % Window
    <2> DEFINE k == now - LiveTick
    <2>1. k \in Nat /\ LiveTick + k = now
      BY <1>1, <1>2
    <2>2. BucketOfNow = (LiveIndex + k) % Window
      BY DEF BucketOfNow
    <2> HIDE DEF k
    <2> QED
      BY <1>2, <1>3, <2>1, <2>2, ModAdd
  <1> QED
    BY <1>1, <1>2, <1>3, <1>4, ModRange DEF Buckets

(* What is emptied is part of the ring. *)
LEMMA ExpiredAreBuckets ==
    ASSUME TypeOK
    PROVE  ExpiredBuckets \subseteq Buckets
  <1>1. \A i \in Buckets : first_tick + i \in Nat
    BY TrackerAssumption DEF TypeOK, Buckets
  <1>2. \A i \in Buckets : (first_tick + i) % Window \in Buckets
    BY <1>1, TrackerAssumption, ModRange DEF Buckets
  <1> QED
    BY <1>2 DEF ExpiredBuckets

(* A second that stays in the window keeps its bucket, and a bucket that   *)
(* is emptied is that of a second that left the window.                    *)
LEMMA KeptBuckets ==
    ASSUME TypeOK, IndexFollowsTick,
           NEW t \in LiveTick..first_tick + Window - 1
    PROVE  (t % Window) \notin ExpiredBuckets
  <1> USE TrackerAssumption
  <1>1. /\ now \in Nat /\ first_tick \in Nat /\ Span \in Nat /\ t \in Nat
        /\ LiveTick = first_tick + Span
    BY WindowMoves DEF TypeOK, LiveTick
  <1>2. SUFFICES ASSUME NEW i \in Buckets, i < Span,
                        (first_tick + i) % Window = t % Window
                 PROVE  FALSE
    BY DEF ExpiredBuckets
  <1>3. first_tick + i \in Nat /\ first_tick + i < t
        /\ t - (first_tick + i) < Window /\ (first_tick + i) - t < Window
    BY <1>1, <1>2 DEF Buckets
  <1> QED
    BY <1>1, <1>2, <1>3, ModInjective

(* The seconds that leave the window are emptied. *)
LEMMA EmptiedBuckets ==
    ASSUME TypeOK, IndexFollowsTick,
           NEW t \in first_tick..first_tick + Window - 1, t < LiveTick
    PROVE  (t % Window) \in ExpiredBuckets
  <1> USE TrackerAssumption
  <1>1. first_tick \in Nat /\ Span \in Nat /\ LiveTick = first_tick + Span
    BY WindowMoves DEF TypeOK, LiveTick
  <1>2. t - first_tick \in Buckets /\ t - first_tick < Span
        /\ first_tick + (t - first_tick) = t
    BY <1>1 DEF Buckets
  <1> QED
    BY <1>2 DEF ExpiredBuckets

(* Expiry keeps the set and the ring in step.                              *)
LEMMA LiveMatches ==
    ASSUME TypeOK, RingMatchesSet
    PROVE  /\ LiveArray \in [Buckets -> SUBSET Ids]
           /\ LiveIds \in SUBSET Ids
           /\ LiveIds = UNION { LiveArray[b] : b \in Buckets }
           /\ \A a, b \in Buckets : a # b =>
                LiveArray[a] \intersect LiveArray[b] = {}
  <1>1. /\ LiveArray \in [Buckets -> SUBSET Ids]
        /\ LiveIds \in SUBSET Ids
    BY DEF TypeOK, LiveArray, LiveIds
  <1>2. \A a, b \in Buckets : a # b => LiveArray[a] \intersect LiveArray[b] = {}
    BY DEF RingMatchesSet, LiveArray
  <1>3. ExpiredBuckets \subseteq Buckets
    BY ExpiredAreBuckets
  <1>4. ASSUME NEW id \in LiveIds
        PROVE  id \in UNION { LiveArray[b] : b \in Buckets }
    BY DEF LiveIds, LiveArray, RingMatchesSet
  <1>5. ASSUME NEW b \in Buckets, NEW id \in LiveArray[b]
        PROVE  id \in LiveIds
    <2>1. b \notin ExpiredBuckets /\ id \in packet_time_index_array[b]
      BY <1>5 DEF LiveArray
    <2>2. id \in recently_packet_ids
      BY <2>1 DEF RingMatchesSet
    <2>3. \A a \in ExpiredBuckets : id \notin packet_time_index_array[a]
      BY <1>3, <2>1 DEF RingMatchesSet
    <2> QED
      BY <2>2, <2>3 DEF LiveIds
  <1> QED
    BY <1>1, <1>2, <1>4, <1>5

-----------------------------------------------------------------------------
(* The initial states satisfy the invariant.                               *)
LEMMA InitInv == Init => Inv
  <1> SUFFICES ASSUME Init PROVE Inv
    OBVIOUS
  <1> USE TrackerAssumption
  <1>1. TypeOK
    BY DEF Init, TypeOK, Buckets
  <1>2. IndexFollowsTick
    <2>1. 0 % Window = 0
      BY SmallMod
    <2> QED
      BY <2>1 DEF Init, IndexFollowsTick
  <1>3. RingMatchesSet
    BY DEF Init, RingMatchesSet
  <1>4. RecordedInItsSecond
    BY DEF Init, RecordedInItsSecond
  <1> QED
    BY <1>1, <1>2, <1>3, <1>4 DEF Inv

(* Time passes, and the ring does not notice.                              *)
LEMMA SecondInv == Inv /\ Second => Inv'
  <1> SUFFICES ASSUME Inv, Second PROVE Inv'
    OBVIOUS
  <1> USE TrackerAssumption
  <1>1. TypeOK'
    BY DEF Inv, TypeOK, Second, Buckets
  <1>2. IndexFollowsTick'
    BY DEF Inv, TypeOK, IndexFollowsTick, Second
  <1>3. RingMatchesSet'
    BY DEF Inv, RingMatchesSet, Second
  <1>4. RecordedInItsSecond'
    <2>1. /\ RecordedInItsSecond /\ now \in Nat /\ received_at \in [Ids -> Nat]
          /\ recently_packet_ids \subseteq Ids
      BY DEF Inv, TypeOK
    <2> QED
      BY <2>1 DEF Second, RecordedInItsSecond
  <1> QED
    BY <1>1, <1>2, <1>3, <1>4 DEF Inv

(* clear() keeps the place of the ring and drops its records.              *)
LEMMA ClearInv == Inv /\ Clear => Inv'
  <1> SUFFICES ASSUME Inv, Clear PROVE Inv'
    OBVIOUS
  <1> USE TrackerAssumption
  <1>1. TypeOK'
    BY DEF Inv, TypeOK, Clear, Buckets
  <1>2. IndexFollowsTick'
    BY DEF Inv, IndexFollowsTick, Clear
  <1>3. RingMatchesSet'
    BY DEF Inv, RingMatchesSet, Clear
  <1>4. RecordedInItsSecond'
    BY DEF Clear, RecordedInItsSecond
  <1> QED
    BY <1>1, <1>2, <1>3, <1>4 DEF Inv

(* What is left before the packet itself is looked at was recorded in the  *)
(* window, and is in the bucket of that second.                            *)
LEMMA LiveInItsSecond ==
    ASSUME Inv, NEW id \in LiveIds
    PROVE  /\ received_at[id] \in LiveTick..LiveTick + Window - 1
           /\ received_at[id] <= now
           /\ id \in LiveArray[received_at[id] % Window]
  <1> USE TrackerAssumption
  <1> DEFINE t == received_at[id]
  <1>1. /\ TypeOK /\ IndexFollowsTick /\ id \in recently_packet_ids
        /\ t \in first_tick..first_tick + Window - 1 /\ t <= now
        /\ id \in packet_time_index_array[t % Window]
        /\ \A b \in ExpiredBuckets : id \notin packet_time_index_array[b]
    BY DEF Inv, RecordedInItsSecond, LiveIds
  <1>2. first_tick \in Nat /\ LiveTick \in Nat /\ first_tick <= LiveTick
        /\ now \in Nat /\ now - LiveTick < Window
    BY <1>1, WindowMoves DEF TypeOK
  <1> HIDE DEF t
  <1>3. ~(t < LiveTick)
    BY <1>1, EmptiedBuckets
  <1>4. t \in LiveTick..first_tick + Window - 1
    BY <1>1, <1>2, <1>3
  <1>5. t % Window \in Buckets /\ t % Window \notin ExpiredBuckets
    <2>1. t \in Nat
      BY <1>2, <1>4
    <2> QED
      BY <1>1, <1>4, <2>1, KeptBuckets, ModRange DEF Buckets
  <1>6. id \in LiveArray[t % Window]
    BY <1>1, <1>5 DEF LiveArray
  <1>7. t \in LiveTick..LiveTick + Window - 1
    BY <1>1, <1>2, <1>4
  <1> QED
    BY <1>1, <1>6, <1>7 DEF t

(* A call moves the window, and records a packet that is not in it in the  *)
(* bucket of the present second, and only there.                           *)
LEMMA OnReceivePacketInv ==
    ASSUME Inv, NEW id \in Ids, OnReceivePacket(id)
    PROVE  Inv'
  <1> USE TrackerAssumption
  <1>1. TypeOK /\ IndexFollowsTick /\ RingMatchesSet
    BY DEF Inv
  <1>2. /\ LiveTick \in Nat /\ LiveTick <= now /\ now - LiveTick < Window
        /\ LiveTick \in 0..MaxTick /\ LiveIndex \in Buckets
        /\ LiveIndex = LiveTick % Window
        /\ BucketOfNow = now % Window /\ BucketOfNow \in Buckets
    BY <1>1, WindowMoves
  <1>3. /\ LiveArray \in [Buckets -> SUBSET Ids]
        /\ LiveIds \in SUBSET Ids
        /\ LiveIds = UNION { LiveArray[b] : b \in Buckets }
        /\ \A a, b \in Buckets : a # b =>
             LiveArray[a] \intersect LiveArray[b] = {}
    BY <1>1, LiveMatches
  <1>4. /\ now' = now /\ first_tick' = LiveTick /\ first_index' = LiveIndex
        /\ result' = <<id, id \in LiveIds>>
        /\ recently_packet_ids' = LiveIds \union {id}
        /\ packet_time_index_array' =
             IF id \in LiveIds
             THEN LiveArray
             ELSE [LiveArray EXCEPT ![BucketOfNow] = @ \union {id}]
    BY DEF OnReceivePacket
  <1>5. TypeOK'
    <2>1. packet_time_index_array' \in [Buckets -> SUBSET Ids]
      BY <1>2, <1>3, <1>4
    <2>2. now' \in 0..MaxTick /\ first_tick' \in 0..MaxTick
          /\ first_index' \in Buckets /\ recently_packet_ids' \in SUBSET Ids
          /\ received_at' \in [Ids -> 0..MaxTick]
      BY <1>1, <1>2, <1>3, <1>4 DEF TypeOK, OnReceivePacket
    <2>3. result' \in Ids \X BOOLEAN
      <3>1. (id \in LiveIds) \in BOOLEAN
        OBVIOUS
      <3> DEFINE duplicate == id \in LiveIds
      <3>2. result' = <<id, duplicate>> /\ duplicate \in BOOLEAN
        BY <1>4, <3>1
      <3> HIDE DEF duplicate
      <3> QED
        BY <3>2
    <2> QED
      BY <2>1, <2>2, <2>3 DEF TypeOK
  <1>6. IndexFollowsTick'
    BY <1>2, <1>4 DEF IndexFollowsTick
  <1>7. RingMatchesSet'
    <2>1. CASE id \in LiveIds
      BY <1>3, <1>4, <2>1 DEF RingMatchesSet
    <2>2. CASE id \notin LiveIds
      <3>1. \A b \in Buckets : id \notin LiveArray[b]
        BY <1>3, <2>2
      <3>2. \A b \in Buckets : packet_time_index_array'[b] =
              IF b = BucketOfNow THEN LiveArray[b] \union {id} ELSE LiveArray[b]
        BY <1>3, <1>4, <2>2
      <3>3. LiveIds \union {id} =
              UNION { packet_time_index_array'[b] : b \in Buckets }
        <4>1. \A x : x \in LiveIds <=> \E b \in Buckets : x \in LiveArray[b]
          BY <1>3
        <4>2. \A x : x \in LiveIds \union {id} <=>
                \E b \in Buckets : x \in packet_time_index_array'[b]
          BY <1>2, <3>2, <4>1
        <4> QED
          BY <4>2
      <3>4. \A a, b \in Buckets : a # b =>
              packet_time_index_array'[a] \intersect packet_time_index_array'[b]
                = {}
        BY <1>3, <3>1, <3>2
      <3> QED
        BY <1>4, <3>3, <3>4 DEF RingMatchesSet
    <2> QED
      BY <2>1, <2>2
  <1>8. RecordedInItsSecond'
    <2>1. /\ received_at' = IF id \in LiveIds
                            THEN received_at ELSE [received_at EXCEPT ![id] = now]
          /\ received_at \in [Ids -> 0..MaxTick] /\ now \in Nat
      BY <1>1 DEF OnReceivePacket, TypeOK
    <2> SUFFICES ASSUME NEW p \in LiveIds \union {id}
                 PROVE  /\ received_at'[p] \in LiveTick..LiveTick + Window - 1
                        /\ received_at'[p] <= now
                        /\ p \in packet_time_index_array'[received_at'[p] % Window]
      BY <1>4 DEF RecordedInItsSecond
    <2>2. CASE p \in LiveIds
      <3>1. received_at'[p] = received_at[p]
        BY <1>3, <2>1, <2>2
      <3> DEFINE t == received_at[p]
      <3>2. /\ t \in LiveTick..LiveTick + Window - 1 /\ t <= now
            /\ p \in LiveArray[t % Window]
        BY <2>2, LiveInItsSecond
      <3> HIDE DEF t
      <3>3. t % Window \in Buckets
        <4>1. t \in Nat
          BY <1>2, <3>2
        <4> QED
          BY <4>1, ModRange DEF Buckets
      <3>4. p \in packet_time_index_array'[t % Window]
        BY <1>3, <1>4, <3>2, <3>3
      <3> QED
        BY <3>1, <3>2, <3>4 DEF t
    <2>3. CASE p \notin LiveIds
      <3>1. p = id /\ received_at'[p] = now
        BY <2>1, <2>3
      <3>2. now \in LiveTick..LiveTick + Window - 1
        BY <1>2, <2>1
      <3>3. p \in packet_time_index_array'[BucketOfNow]
        BY <1>2, <1>3, <1>4, <2>3, <3>1
      <3> QED
        BY <1>2, <2>1, <3>1, <3>2, <3>3
    <2> QED
      BY <2>2, <2>3
  <1> QED
    BY <1>5, <1>6, <1>7, <1>8 DEF Inv

(* Inv is preserved by every step.                                         *)
LEMMA NextInv == Inv /\ [Next]_vars => Inv'
  <1> SUFFICES ASSUME Inv, [Next]_vars PROVE Inv'
    OBVIOUS
  <1>1. CASE Second
    BY <1>1, SecondInv
  <1>2. CASE Clear
    BY <1>2, ClearInv
  <1>3. ASSUME NEW id \in Ids, OnReceivePacket(id) PROVE Inv'
    BY <1>3, OnReceivePacketInv
  <1>4. CASE UNCHANGED vars
    BY <1>4 DEF vars, Inv, TypeOK, IndexFollowsTick, RingMatchesSet,
                RecordedInItsSecond
  <1> QED
    BY <1>1, <1>2, <1>3, <1>4 DEF Next

(* Types, for every window: the tracker's fields stay in their ranges.     *)
THEOREM TrackerTypeOK == Spec => []TypeOK
  <1>1. Inv => TypeOK
    BY DEF Inv
  <1> QED
    BY <1>1, InitInv, NextInv, PTL DEF Spec

(* The two ways of finding the bucket of a second, first_tick_ % 60 when   *)
(* expiring and first_index_ when recording, never drift apart.            *)
THEOREM TrackerIndex == Spec => []IndexFollowsTick
  <1>1. Inv => IndexFollowsTick
    BY DEF Inv
  <1> QED
    BY <1>1, InitInv, NextInv, PTL DEF Spec

(* The set and the ring always hold the same packets, each in one bucket.  *)
THEOREM TrackerRing == Spec => []RingMatchesSet
  <1>1. Inv => RingMatchesSet
    BY DEF Inv
  <1> QED
    BY <1>1, InitInv, NextInv, PTL DEF Spec

(* Every packet is in the bucket of the second it was recorded in, however *)
(* often and how far the window moved since.                               *)
THEOREM TrackerRecords == Spec => []RecordedInItsSecond
  <1>1. Inv => RecordedInItsSecond
    BY DEF Inv
  <1> QED
    BY <1>1, InitInv, NextInv, PTL DEF Spec

-----------------------------------------------------------------------------
(* A packet of the set has one second of the window, and it is that second *)
(* whose bucket holds it.                                                  *)
LEMMA OneTick ==
    ASSUME NEW array, NEW start \in Nat, NEW id, NEW t \in start..start + Window - 1,
           \A a, b \in Buckets : a # b => array[a] \intersect array[b] = {},
           id \in array[t % Window]
    PROVE  TickIn(array, start, id) = t
  <1> USE TrackerAssumption
  <1> DEFINE u == TickIn(array, start, id)
  <1>1. u \in start..start + Window - 1 /\ id \in array[u % Window]
    BY DEF TickIn
  <1> HIDE DEF u
  <1>2. t \in Nat /\ u \in Nat /\ t - u < Window /\ u - t < Window
    BY <1>1
  <1>3. t % Window \in Buckets /\ u % Window \in Buckets
    BY <1>2, ModRange DEF Buckets
  <1>4. t % Window = u % Window
    BY <1>1, <1>3
  <1> QED
    BY <1>2, <1>4, ModInjective DEF u

(* The second a packet was recorded in is in the window and not ahead.     *)
LEMMA RecordTickFacts ==
    ASSUME Inv, NEW id \in recently_packet_ids
    PROVE  /\ RecordTick(id) \in first_tick..first_tick + Window - 1
           /\ id \in packet_time_index_array[RecordTick(id) % Window]
           /\ RecordTick(id) <= now
  <1> USE TrackerAssumption
  <1>1. /\ received_at[id] \in first_tick..first_tick + Window - 1
        /\ received_at[id] <= now /\ first_tick \in Nat
        /\ id \in packet_time_index_array[received_at[id] % Window]
    BY DEF Inv, TypeOK, RecordedInItsSecond
  <1>2. RecordTick(id) = received_at[id]
    BY <1>1, OneTick DEF RecordTick, Inv, RingMatchesSet
  <1> QED
    BY <1>1, <1>2

(* Lazy expiry is exact: the packets a call still knows are those recorded *)
(* less than Window seconds ago.                                           *)
LEMMA LiveIsRecent ==
    ASSUME Inv, NEW id \in Ids
    PROVE  id \in LiveIds <=> AgeOf(id) < Window
  <1> USE TrackerAssumption
  <1>1. /\ TypeOK /\ IndexFollowsTick /\ RingMatchesSet
        /\ first_tick \in Nat /\ now \in Nat
    BY DEF Inv, TypeOK
  <1>2. /\ LiveTick \in Nat /\ now - LiveTick < Window /\ LiveTick <= now
        /\ Span > 0 => now - LiveTick = Window - 1
        /\ Span \in Nat /\ LiveTick = first_tick + Span
    BY <1>1, WindowMoves DEF LiveTick
  <1>3. CASE id \notin recently_packet_ids
    BY <1>3 DEF LiveIds, AgeOf
  <1>4. CASE id \in recently_packet_ids
    <2> DEFINE t == RecordTick(id)
    <2>1. /\ t \in first_tick..first_tick + Window - 1
          /\ id \in packet_time_index_array[t % Window]
          /\ t <= now
      BY <1>4, RecordTickFacts
    <2>2. t \in Nat /\ t % Window \in Buckets
      <3>1. t \in Nat
        BY <1>1, <2>1
      <3> QED
        BY <3>1, ModRange DEF Buckets
    <2>3. AgeOf(id) < Window <=> now - t < Window
      BY <1>1, <1>4, <2>2 DEF AgeOf
    <2> HIDE DEF t
    <2>4. CASE t >= LiveTick
      <3>1. now - t < Window
        BY <1>1, <1>2, <2>2, <2>4
      <3>2. t \in LiveTick..first_tick + Window - 1
        BY <1>1, <1>2, <2>1, <2>4
      <3>3. t % Window \notin ExpiredBuckets
        BY <1>1, <3>2, KeptBuckets
      <3>4. \A b \in ExpiredBuckets : id \notin packet_time_index_array[b]
        BY <1>1, <2>1, <2>2, <3>3, ExpiredAreBuckets DEF RingMatchesSet
      <3> QED
        BY <1>4, <2>3, <3>1, <3>4 DEF LiveIds
    <2>5. CASE t < LiveTick
      <3>1. ~(now - t < Window)
        BY <1>1, <1>2, <2>1, <2>2, <2>5
      <3>2. t % Window \in ExpiredBuckets
        BY <1>1, <2>1, <2>5, EmptiedBuckets
      <3> QED
        BY <2>1, <2>3, <3>1, <3>2 DEF LiveIds
    <2> QED
      BY <1>2, <2>2, <2>4, <2>5
  <1> QED
    BY <1>3, <1>4

-----------------------------------------------------------------------------
(* A second that passes ages every record by one.                          *)
LEMMA SecondImplements ==
    ASSUME Inv, Second
    PROVE  RecentPacketsOf!Second
  <1> USE TrackerAssumption
  <1>1. ASSUME NEW id \in Ids
        PROVE  AgeOf(id)' = IF AgeOf(id) < Window THEN AgeOf(id) + 1 ELSE Window
    <2>1. /\ now' = now + 1 /\ now \in Nat
          /\ recently_packet_ids' = recently_packet_ids
          /\ RecordTick(id)' = RecordTick(id)
      BY DEF Second, Inv, TypeOK, RecordTick, TickIn
    <2>2. CASE id \in recently_packet_ids
      <3>1. RecordTick(id) \in Int
        BY <2>2, RecordTickFacts DEF Inv, TypeOK
      <3> QED
        BY <2>1, <2>2, <3>1 DEF AgeOf
    <2>3. CASE id \notin recently_packet_ids
      BY <2>1, <2>3 DEF AgeOf
    <2> QED
      BY <2>2, <2>3
  <1>2. [id \in Ids |-> AgeOf(id)]' =
          RecentPacketsOf!Aged([id \in Ids |-> AgeOf(id)])
    BY <1>1 DEF RecentPacketsOf!Aged
  <1>3. result' = result
    BY DEF Second
  <1> QED
    BY <1>2, <1>3 DEF RecentPacketsOf!Second

(* clear() forgets every record.                                           *)
LEMMA ClearImplements ==
    ASSUME Inv, Clear
    PROVE  RecentPacketsOf!Clear
  <1>1. \A id \in Ids : AgeOf(id)' = Window
    BY DEF Clear, AgeOf
  <1>2. [id \in Ids |-> AgeOf(id)]' = RecentPacketsOf!Forgotten(Ids)
    BY <1>1 DEF RecentPacketsOf!Forgotten
  <1>3. result' = result
    BY DEF Clear
  <1> QED
    BY <1>2, <1>3 DEF RecentPacketsOf!Clear

(* A call answers by the age of the packet's record, keeps the ages of the *)
(* records it knows, and records a new packet with age zero.               *)
LEMMA OnReceivePacketImplements ==
    ASSUME Inv, Inv', NEW id \in Ids, OnReceivePacket(id)
    PROVE  RecentPacketsOf!OnReceivePacket(id)
  <1> USE TrackerAssumption
  <1> DEFINE age == [x \in Ids |-> AgeOf(x)]
  <1>1. /\ TypeOK /\ IndexFollowsTick /\ RingMatchesSet
        /\ first_tick \in Nat /\ now \in Nat
    BY DEF Inv, TypeOK
  <1>2. /\ LiveTick \in Nat /\ LiveTick <= now /\ now - LiveTick < Window
        /\ first_tick <= LiveTick
        /\ BucketOfNow = now % Window /\ BucketOfNow \in Buckets
    BY <1>1, WindowMoves
  <1>3. /\ LiveArray \in [Buckets -> SUBSET Ids]
        /\ LiveIds = UNION { LiveArray[b] : b \in Buckets }
    BY <1>1, LiveMatches
  <1>4. /\ now' = now /\ first_tick' = LiveTick
        /\ result' = <<id, id \in LiveIds>>
        /\ recently_packet_ids' = LiveIds \union {id}
        /\ packet_time_index_array' =
             IF id \in LiveIds
             THEN LiveArray
             ELSE [LiveArray EXCEPT ![BucketOfNow] = @ \union {id}]
    BY DEF OnReceivePacket
  <1>5. \A a, b \in Buckets : a # b =>
          packet_time_index_array'[a] \intersect packet_time_index_array'[b] = {}
    BY DEF Inv, RingMatchesSet
  <1>6. \A b \in Buckets : LiveArray[b] \subseteq packet_time_index_array'[b]
    BY <1>2, <1>3, <1>4
  <1>7. result' = <<id, RecentPacketsOf!Seen(age, id)>>
    <2>1. (id \in LiveIds) = (age[id] < Window)
      BY LiveIsRecent
    <2> QED
      BY <1>4, <2>1 DEF RecentPacketsOf!Seen
  <1>8. ASSUME NEW x \in Ids, x \in LiveIds
        PROVE  AgeOf(x)' = AgeOf(x)
    <2> DEFINE t == RecordTick(x)
    <2>1. x \in recently_packet_ids /\ AgeOf(x) < Window
      BY <1>8, LiveIsRecent DEF LiveIds
    <2>2. /\ t \in first_tick..first_tick + Window - 1
          /\ x \in packet_time_index_array[t % Window] /\ t <= now
      BY <2>1, RecordTickFacts
    <2>3. t \in Nat /\ t % Window \in Buckets
      <3>1. t \in Nat
        BY <1>1, <2>2
      <3> QED
        BY <3>1, ModRange DEF Buckets
    <2> HIDE DEF t
    <2>4. t % Window \notin ExpiredBuckets
      BY <1>8, <2>2 DEF LiveIds
    <2>5. t >= LiveTick
      <3>1. CASE t < LiveTick
        BY <1>1, <2>2, <2>4, <3>1, EmptiedBuckets
      <3> QED
        BY <1>2, <2>3, <3>1
    <2>6. x \in packet_time_index_array'[t % Window]
      BY <1>6, <2>2, <2>3, <2>4 DEF LiveArray
    <2>7. t \in LiveTick..LiveTick + Window - 1
      BY <1>1, <1>2, <2>2, <2>3, <2>5
    <2>8. TickIn(packet_time_index_array', LiveTick, x) = t
      BY <1>2, <1>5, <2>6, <2>7, OneTick
    <2>9. RecordTick(x)' = RecordTick(x)
      BY <1>4, <2>8 DEF RecordTick, TickIn, t
    <2> QED
      BY <1>4, <1>8, <2>1, <2>9 DEF AgeOf
  <1>9. ASSUME id \notin LiveIds
        PROVE  AgeOf(id)' = 0
    <2>1. id \in packet_time_index_array'[now % Window]
      BY <1>2, <1>3, <1>4, <1>9
    <2>2. now \in LiveTick..LiveTick + Window - 1
      BY <1>1, <1>2
    <2>3. TickIn(packet_time_index_array', LiveTick, id) = now
      BY <1>2, <1>5, <2>1, <2>2, OneTick
    <2>4. RecordTick(id)' = now
      BY <1>4, <2>3 DEF RecordTick, TickIn
    <2> QED
      BY <1>1, <1>4, <2>4 DEF AgeOf
  <1>10. ASSUME NEW x \in Ids, x \notin LiveIds, x # id
         PROVE  AgeOf(x)' = AgeOf(x)
    <2>1. AgeOf(x)' = Window
      BY <1>4, <1>10 DEF AgeOf
    <2>2. ~(AgeOf(x) < Window)
      BY <1>10, LiveIsRecent
    <2>3. AgeOf(x) = Window
      <3>1. CASE x \in recently_packet_ids /\ now - RecordTick(x) < Window
        BY <2>2, <3>1 DEF AgeOf
      <3>2. CASE ~(x \in recently_packet_ids /\ now - RecordTick(x) < Window)
        BY <3>2 DEF AgeOf
      <3> QED
        BY <3>1, <3>2
    <2> QED
      BY <2>1, <2>3
  <1>11. age' = RecentPacketsOf!Recorded(age, id)
    <2>1. CASE id \in LiveIds
      <3>1. AgeOf(id) < Window
        BY <2>1, LiveIsRecent
      <3>2. \A x \in Ids : AgeOf(x)' = AgeOf(x)
        BY <1>8, <1>10, <2>1
      <3> QED
        BY <3>1, <3>2 DEF RecentPacketsOf!Recorded, RecentPacketsOf!Seen
    <2>2. CASE id \notin LiveIds
      <3>1. ~(AgeOf(id) < Window)
        BY <2>2, LiveIsRecent
      <3>2. \A x \in Ids : AgeOf(x)' = IF x = id THEN 0 ELSE AgeOf(x)
        BY <1>8, <1>9, <1>10, <2>2
      <3> QED
        BY <3>1, <3>2 DEF RecentPacketsOf!Recorded, RecentPacketsOf!Seen
    <2> QED
      BY <2>1, <2>2
  <1> QED
    BY <1>7, <1>11 DEF RecentPacketsOf!OnReceivePacket

(* A new tracker is an empty window.                                       *)
LEMMA InitImplements == Init => RecentPacketsOf!Init
  BY DEF Init, AgeOf, RecentPacketsOf!Init, RecentPacketsOf!Forgotten

(* Every step of the ring is a step of the window, or changes neither the  *)
(* age of a record nor an answer.                                          *)
LEMMA NextImplements ==
    Inv /\ Inv' /\ [Next]_vars => [RecentPacketsOf!Next]_(RecentPacketsOf!vars)
  <1> SUFFICES ASSUME Inv, Inv', [Next]_vars
               PROVE  [RecentPacketsOf!Next]_(RecentPacketsOf!vars)
    OBVIOUS
  <1>1. CASE Second
    BY <1>1, SecondImplements DEF RecentPacketsOf!Next
  <1>2. CASE Clear
    BY <1>2, ClearImplements DEF RecentPacketsOf!Next
  <1>3. ASSUME NEW id \in Ids, OnReceivePacket(id)
        PROVE  RecentPacketsOf!Next
    BY <1>3, OnReceivePacketImplements DEF RecentPacketsOf!Next
  <1>4. CASE UNCHANGED vars
    BY <1>4 DEF vars, RecentPacketsOf!vars, AgeOf, RecordTick, TickIn
  <1> QED
    BY <1>1, <1>2, <1>3, <1>4 DEF Next

(* The ring of buckets implements the sliding window: for every window,    *)
(* every start of the clock and every pattern of calls and pauses,         *)
(* on_receive_packet answers "duplicate" exactly for the packets recorded  *)
(* less than Window seconds ago.                                           *)
THEOREM TrackerImplementsWindow == Spec => ImplementsRecentPackets
  BY InitInv, NextInv, InitImplements, NextImplements, PTL
     DEF Spec, ImplementsRecentPackets, RecentPacketsOf!Spec
=============================================================================
