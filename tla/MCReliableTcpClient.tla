------------------------ MODULE MCReliableTcpClient ------------------------
(* Values for the constants of ReliableTcpClient.tla.                      *)
EXTENDS ReliableTcpClient

CONSTANTS t1, t2, p1, p2, news

OneThread == {t1}
TwoThreads == {t1, t2}

NewsOf == [p \in Pushes |-> news]

\* No attempt after the first, asked for as 0 tries; and a resend.
Opt(tries, interval) == [tries |-> tries, interval_seconds |-> interval]
NoOpts == {}
ResendOpts == {Opt(2, 1)}
MixedOpts == {Opt(0, 1), Opt(2, 2)}
=============================================================================
