--------------------------- MODULE PacketTracker ---------------------------
(***************************************************************************)
(* recently_packet_tracker_t (recently_packet_tracker.hpp/.cpp): the set   *)
(* of the packets received in the last Window seconds, and a ring of       *)
(* Window buckets, one per second, that says when each one entered it.     *)
(* Expiry is lazy: nothing happens while time passes, and the next call    *)
(* drops the buckets that fell out of the window, however long that took.  *)
(***************************************************************************)
EXTENDS Integers

CONSTANTS
    Ids,        \* the (cmd, seq) pairs that packet_id() tells apart
    Window,     \* max_packet_life_time_in_seconds
    StartTicks, \* values steady_clock may have, in seconds, at construction
    MaxTick     \* bound: the last value of steady_clock that is modelled

ASSUME TrackerAssumption ==
    /\ Window \in Nat \ {0}
    /\ MaxTick \in Nat
    /\ StartTicks \subseteq 0..MaxTick

VARIABLES
    now,                      \* steady_clock::now(), in whole seconds
    first_tick,               \* the second the ring starts at
    first_index,              \* the bucket of that second
    recently_packet_ids,
    packet_time_index_array,  \* a bucket is the set of its vector's elements
    result,                   \* history: the last call, <<id, duplicate>>
    received_at               \* history: when each packet was last recorded

vars == <<now, first_tick, first_index, recently_packet_ids,
          packet_time_index_array, result, received_at>>

Buckets == 0..Window - 1

Init ==
    /\ now \in StartTicks
    /\ first_tick = 0
    /\ first_index = 0
    /\ recently_packet_ids = {}
    /\ packet_time_index_array = [b \in Buckets |-> {}]
    /\ result = <<>>
    /\ received_at = [id \in Ids |-> 0]

-----------------------------------------------------------------------------
(* The window moves on: what one call does before it looks at its packet.  *)

Offset == now - first_tick

\* Mutant: the window is a second too long.
SpanShort == IF Offset > Window THEN Offset - Window ELSE 0

\* The seconds the window moves on by.
Span == IF Offset > Window - 1 THEN Offset + 1 - Window ELSE 0

\* The buckets of the Span oldest seconds, all of them if the tracker idled.
ExpiredBuckets ==
    { (first_tick + i) % Window : i \in {j \in Buckets : j < Span} }

LiveIds ==
    recently_packet_ids
      \ UNION { packet_time_index_array[b] : b \in ExpiredBuckets }

\* Mutant: the packets are erased from the set and the bucket is not cleared.
LiveArrayKept == packet_time_index_array

LiveArray ==
    [b \in Buckets |-> IF b \in ExpiredBuckets THEN {}
                                               ELSE packet_time_index_array[b]]

\* Mutants: the index is not wrapped around, or not advanced.
LiveIndexUnwrapped == first_index + Span
LiveIndexKept == first_index

LiveIndex == (first_index + Span) % Window

LiveTick == first_tick + Span

\* Mutant: the offset is that from before the window moved on.
BucketOfOldOffset == (LiveIndex + Offset) % Window

\* The bucket of the current second, from an offset taken anew.
BucketOfNow == (LiveIndex + (now - LiveTick)) % Window

-----------------------------------------------------------------------------
OnReceivePacket(id) ==
    /\ first_tick' = LiveTick
    /\ first_index' = LiveIndex
    /\ result' = <<id, id \in LiveIds>>
    /\ recently_packet_ids' = LiveIds \union {id}
    /\ packet_time_index_array' =
         IF id \in LiveIds
         THEN LiveArray
         ELSE [LiveArray EXCEPT ![BucketOfNow] = @ \union {id}]
    /\ received_at' = IF id \in LiveIds THEN received_at
                                        ELSE [received_at EXCEPT ![id] = now]
    /\ UNCHANGED now

\* The ring keeps its first second: only the records go.
Clear ==
    /\ recently_packet_ids' = {}
    /\ packet_time_index_array' = [b \in Buckets |-> {}]
    /\ UNCHANGED <<now, first_tick, first_index, result, received_at>>

Second ==
    /\ now < MaxTick
    /\ now' = now + 1
    /\ UNCHANGED <<first_tick, first_index, recently_packet_ids,
                   packet_time_index_array, result, received_at>>

Next == Second \/ Clear \/ \E id \in Ids : OnReceivePacket(id)

Spec == Init /\ [][Next]_vars

-----------------------------------------------------------------------------
TypeOK ==
    /\ now \in 0..MaxTick
    /\ first_tick \in 0..MaxTick
    /\ first_index \in Buckets
    /\ recently_packet_ids \in SUBSET Ids
    /\ packet_time_index_array \in [Buckets -> SUBSET Ids]
    /\ result \in {<<>>} \union (Ids \X BOOLEAN)
    /\ received_at \in [Ids -> 0..MaxTick]

(* Buckets are written through first_index_ (line 39) and emptied through  *)
(* first_tick_ (line 20): the two ways to find the bucket of a second      *)
(* agree after any sequence of calls and pauses.                           *)
IndexFollowsTick ==
    /\ first_tick <= now
    /\ first_index = first_tick % Window

(* The set and the ring hold the same packets and a packet is in one       *)
(* bucket only: none outlives the bucket that would expire it, and none is *)
(* dropped from the set while its record is still in the ring.             *)
RingMatchesSet ==
    /\ recently_packet_ids = UNION { packet_time_index_array[b] : b \in Buckets }
    /\ \A a, b \in Buckets : a # b =>
         packet_time_index_array[a] \intersect packet_time_index_array[b] = {}

(* Every packet of the set is in the bucket of the very second in which it *)
(* was recorded, and that second is in the window: after calls and pauses  *)
(* of any length, a bucket found through an offset from before the window  *)
(* moved (lines 13 and 29) would be that of an older second, and the       *)
(* packet would be forgotten early.                                        *)
RecordedInItsSecond ==
    \A id \in recently_packet_ids :
      /\ received_at[id] \in first_tick..first_tick + Window - 1
      /\ received_at[id] <= now
      /\ id \in packet_time_index_array[received_at[id] % Window]

-----------------------------------------------------------------------------
\* The second of the window from start whose bucket holds a packet.
TickIn(array, start, id) ==
    CHOOSE t \in start..start + Window - 1 : id \in array[t % Window]

\* The second a packet of the set was recorded in.
RecordTick(id) == TickIn(packet_time_index_array, first_tick, id)

AgeOf(id) ==
    IF id \in recently_packet_ids /\ now - RecordTick(id) < Window
    THEN now - RecordTick(id)
    ELSE Window

RecentPacketsOf == INSTANCE RecentPackets WITH age <- [id \in Ids |-> AgeOf(id)]

(* The ring is a sliding window of exactly Window seconds: on_receive_packet *)
(* answers "duplicate" if and only if the packet was recorded less than      *)
(* Window seconds ago, whatever the pauses between the calls.                *)
ImplementsRecentPackets == RecentPacketsOf!Spec
=============================================================================
