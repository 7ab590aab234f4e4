------------------------ MODULE MCReliableTcpServer ------------------------
(* Values for the constants of ReliableTcpServer.tla.                      *)
EXTENDS ReliableTcpServer

CONSTANTS t1, t2, r1, r2, query

OneThread == {t1}
TwoThreads == {t1, t2}

QueryOf == [r \in Requests |-> query]
=============================================================================
