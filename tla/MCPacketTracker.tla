-------------------------- MODULE MCPacketTracker --------------------------
(* A ring of three seconds over a clock of eleven: the tracker is used,    *)
(* idles for less than, exactly and far more than a window, and starts     *)
(* both in the first seconds of the clock and long after them.             *)
EXTENDS PacketTracker

Starts == {0, 1, 4, 7}
=============================================================================
