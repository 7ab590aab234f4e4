---------------------------- MODULE DedupWindow ----------------------------
(***************************************************************************)
(* What a recently_packet_tracker_t promises to the client and to the      *)
(* sessions that use it: a packet is a duplicate if and only if it was     *)
(* recorded less than Window seconds ago.  The tracker is seen as one      *)
(* function, age: the whole seconds since a packet was recorded, with      *)
(* Window standing for "so long ago, or never".  PacketTracker.tla is the  *)
(* code's bucket ring, and is shown to implement RecentPackets.tla, the    *)
(* state machine over these operators.                                     *)
(***************************************************************************)
EXTENDS Integers

CONSTANTS
    Window  \* max_packet_life_time_in_seconds

ASSUME WindowAssumption == Window \in Nat \ {0}

Ages(ids) == [ids -> 0..Window]

\* Nothing is recorded: a tracker just built, or just cleared.
Forgotten(ids) == [id \in ids |-> Window]

Seen(age, id) == age[id] < Window

\* Mutant: the packet is looked up and not entered.
NotRecorded(age, id) == age

\* Recording happens once: a duplicate does not refresh its record.
Recorded(age, id) == IF Seen(age, id) THEN age ELSE [age EXCEPT ![id] = 0]

\* One second passes.
Aged(age) == [id \in DOMAIN age |->
                IF age[id] < Window THEN age[id] + 1 ELSE Window]
=============================================================================
