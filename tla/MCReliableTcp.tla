--------------------------- MODULE MCReliableTcp ---------------------------
(* Values for the constants of ReliableTcp.tla.                            *)
EXTENDS ReliableTcp

CONSTANTS app, news

OneThread == {app}

NewsOf == [p \in Pushes |-> news]

TwoTries == {[tries |-> 2, interval_seconds |-> 1]}
=============================================================================
