----------------------------- MODULE OrderedIds -----------------------------
(***************************************************************************)
(* Ids in ascending order.  write_packets_ is a list: packets are appended *)
(* to it as their ids are given out, and the resend check walks it from    *)
(* the front.  Timers that expire in one second do so as they were started.*)
(***************************************************************************)
EXTENDS Naturals, Sequences

\* The ids up to max, in order.
Ascending(ids, max) ==
    LET upto[n \in 0..max] ==
          IF n = 0 THEN <<>>
          ELSE IF n \in ids THEN Append(upto[n - 1], n) ELSE upto[n - 1]
    IN  upto[max]
=============================================================================
