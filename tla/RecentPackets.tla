--------------------------- MODULE RecentPackets ---------------------------
(***************************************************************************)
(* The abstract specification of recently_packet_tracker_t: a sliding      *)
(* window of exactly Window seconds over the packets that were recorded.   *)
(***************************************************************************)
EXTENDS DedupWindow

CONSTANTS
    Ids      \* the (cmd, seq) pairs that packet_id() tells apart

VARIABLES
    age,     \* seconds since each packet was recorded
    result   \* the last call of on_receive_packet: <<id, duplicate>>, or <<>>

vars == <<age, result>>

Init == age = Forgotten(Ids) /\ result = <<>>

Second == age' = Aged(age) /\ UNCHANGED result

OnReceivePacket(id) ==
    /\ result' = <<id, Seen(age, id)>>
    /\ age' = Recorded(age, id)

Clear == age' = Forgotten(Ids) /\ UNCHANGED result

Next == Second \/ Clear \/ \E id \in Ids : OnReceivePacket(id)

Spec == Init /\ [][Next]_vars
=============================================================================
