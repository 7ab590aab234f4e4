--------------------------- MODULE RequestService ---------------------------
(***************************************************************************)
(* What the client and the server promise together, of requests and of     *)
(* notifications, seen from the application at both ends.  A request that  *)
(* is sent again on a connection reaches the processor once; on the next   *)
(* connection it may reach it again.  It is answered only after it was     *)
(* processed, and is called back once.  A notification is called back at   *)
(* most once: it is not sent again on the next connection.                 *)
(***************************************************************************)
EXTENDS Naturals

CONSTANTS
    Requests, Notifications,
    Sessions    \* the connections the server accepts

VARIABLES
    outcome,    \* of each request, for the one who sent it
    processed,  \* how often each session gave each request to its processor
    published,  \* the notifications published
    notified    \* how often each notification was called back

vars == <<outcome, processed, published, notified>>

Init ==
    /\ outcome = [i \in Requests |-> "unsent"]
    /\ processed = [s \in Sessions |-> [i \in Requests |-> 0]]
    /\ published = {}
    /\ notified = [p \in Notifications |-> 0]

Send(i) ==
    /\ outcome[i] = "unsent"
    /\ outcome' = [outcome EXCEPT ![i] = "pending"]
    /\ UNCHANGED <<processed, published, notified>>

\* Also after the client has given the request up.
Process(s, i) ==
    /\ outcome[i] # "unsent" /\ processed[s][i] = 0
    /\ processed' = [processed EXCEPT ![s][i] = 1]
    /\ UNCHANGED <<outcome, published, notified>>

Answer(i) ==
    /\ outcome[i] = "pending"
    /\ \E s \in Sessions : processed[s][i] = 1
    /\ outcome' = [outcome EXCEPT ![i] = "answered"]
    /\ UNCHANGED <<processed, published, notified>>

\* Whether they were processed or not.  One check of the client may give up
\* several requests at once.
Fail(requests) ==
    /\ requests # {} /\ \A i \in requests : outcome[i] = "pending"
    /\ outcome' = [i \in Requests |-> IF i \in requests THEN "failed"
                                                       ELSE outcome[i]]
    /\ UNCHANGED <<processed, published, notified>>

Publish(p) ==
    /\ p \notin published
    /\ published' = published \union {p}
    /\ UNCHANGED <<outcome, processed, notified>>

Notify(p) ==
    /\ p \in published /\ notified[p] = 0
    /\ notified' = [notified EXCEPT ![p] = 1]
    /\ UNCHANGED <<outcome, processed, published>>

Next ==
    \/ \E i \in Requests : Send(i) \/ Answer(i)
    \/ \E requests \in SUBSET Requests : Fail(requests)
    \/ \E s \in Sessions, i \in Requests : Process(s, i)
    \/ \E p \in Notifications : Publish(p) \/ Notify(p)

Spec == Init /\ [][Next]_vars
=============================================================================
