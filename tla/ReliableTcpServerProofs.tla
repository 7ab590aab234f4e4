---------------------- MODULE ReliableTcpServerProofs ----------------------
(***************************************************************************)
(* Proofs about ReliableTcpServer.tla, for every number of threads,        *)
(* sessions, requests and notifications.                                   *)
(*                                                                         *)
(* Acceptor: stop() closes it, nothing opens it again, and every handler   *)
(* of async_accept looks at it, so that the invariant follows its state    *)
(* and not the calls that are made.  Types: one lemma for each action.     *)
(* Then requests, notifications and the timer, each with the invariant     *)
(* that relates what a session has to what has happened.                   *)
(***************************************************************************)
EXTENDS ReliableTcpServer, OrderedIdsProofs, TLAPS

\* The counters of the acceptor.
CountsOK == accepting \in Nat /\ accepted \in [Outcomes -> Nat]

Underway == accepting + accepted["ok"] + accepted["failed"]

\* Before the first stop() has done anything, no stop_impl is due.
NotStopped == ~stopped => stopping = {} /\ acceptor_open

\* A closed acceptor has taken the sessions with it.
ClosedIsEmpty == ~acceptor_open => DOMAIN sessions = {}

\* An open acceptor of a server at rest was never used.
AtRest ==
    ~started /\ stopping = {} /\ acceptor_open =>
      DOMAIN sessions = {} /\ Underway = 0

Inv ==
    /\ CountsOK
    /\ NotStopped
    /\ ClosedIsEmpty
    /\ AtRest
    /\ AcceptsUntilStopped

-----------------------------------------------------------------------------
\* The initial state: an open acceptor that is not used.
LEMMA InitInv == Init => Inv
  BY DEF Init, Inv, CountsOK, NotStopped, ClosedIsEmpty, AtRest, Underway,
         AcceptsUntilStopped, Outcomes

\* start() on an acceptor that is closed fails once, and is not repeated.
LEMMA StartInv == ASSUME Inv, NEW t \in Threads, Start(t) PROVE Inv'
<1>1. started' = TRUE /\ stopped' = stopped /\ stopping' = stopping
  BY DEF Start, historyVars
<1>2. acceptor_open' = acceptor_open /\ sessions' = sessions
  BY DEF Start
<1>3. CountsOK' /\ Underway' > 0
  <2>1. CASE acceptor_open
    BY <2>1 DEF Start, DoAccept, Inv, CountsOK, Underway, Outcomes
  <2>2. CASE ~acceptor_open
    BY <2>2 DEF Start, DoAccept, Inv, CountsOK, Underway, Outcomes
  <2>3. QED BY <2>1, <2>2
<1>4. QED
  BY <1>1, <1>2, <1>3 DEF Inv, CountsOK, NotStopped, ClosedIsEmpty, AtRest,
     Underway, AcceptsUntilStopped

LEMMA CallStopInv == ASSUME Inv, NEW t \in Threads, CallStop(t) PROVE Inv'
<1>1. stopped' /\ stopping' # {}
  BY DEF CallStop
<1>2. UNCHANGED <<acceptor_open, accepting, accepted, sessions>>
  BY DEF CallStop, acceptVars
<1>3. QED
  BY <1>1, <1>2 DEF Inv, CountsOK, NotStopped, ClosedIsEmpty, AtRest, Underway,
     AcceptsUntilStopped

LEMMA StopImplInv == ASSUME Inv, NEW t \in Threads, StopImpl(t) PROVE Inv'
<1>1. stopped' /\ stopped
  BY DEF StopImpl, historyVars, Inv, NotStopped
<1>2. ~acceptor_open' /\ DOMAIN sessions' = {}
  BY DEF StopImpl
<1>3. CountsOK'
  BY DEF StopImpl, Inv, CountsOK, Outcomes
<1>4. QED
  BY <1>1, <1>2, <1>3 DEF Inv, NotStopped, ClosedIsEmpty, AtRest,
     AcceptsUntilStopped

\* The accept loop: one completion is consumed, and an accept is under way
\* again unless the acceptor was closed.
LEMMA RunAcceptInv ==
  ASSUME Inv, NEW outcome \in Outcomes, RunAccept(outcome) PROVE Inv'
<1>1. UNCHANGED <<started, stopped, stopping, acceptor_open>>
  BY DEF RunAccept, historyVars
<1>2. accepted[outcome] > 0 /\ Underway > 0
  BY DEF RunAccept, Inv, CountsOK, Underway, Outcomes
<1>3. CountsOK'
  BY DEF RunAccept, Inv, CountsOK, Outcomes
<1>4. acceptor_open => Underway' > 0
  BY <1>3 DEF RunAccept, Inv, CountsOK, Underway, StillOpen, AcceptsAgain,
     Outcomes
<1>5. ~acceptor_open => sessions' = sessions
  BY DEF RunAccept, StillOpen
<1>6. ~started /\ stopping = {} => ~acceptor_open
  BY <1>2 DEF Inv, AtRest
<1>7. started /\ ~stopped => acceptor_open
  BY DEF Inv, NotStopped
<1>8. AcceptsUntilStopped'
  BY <1>1, <1>4, <1>7 DEF AcceptsUntilStopped, Underway
<1>9. QED
  BY <1>1, <1>3, <1>5, <1>6, <1>8 DEF Inv, NotStopped, ClosedIsEmpty, AtRest

\* A completion of async_accept becomes ready.
LEMMA AcceptCompletesInv ==
  ASSUME Inv, AcceptReady \/ AcceptFails PROVE Inv'
<1>1. UNCHANGED <<started, stopped, stopping, acceptor_open, sessions>>
  BY DEF AcceptReady, AcceptFails, historyVars, serverVars
<1>2. CountsOK' /\ Underway' = Underway
  BY DEF AcceptReady, AcceptFails, Inv, CountsOK, Underway, Outcomes
<1>3. QED
  BY <1>1, <1>2 DEF Inv, NotStopped, ClosedIsEmpty, AtRest, Underway,
     AcceptsUntilStopped

\* What every other step leaves alone, and how it may change the sessions.
Undisturbed ==
    /\ UNCHANGED <<started, stopped, stopping, acceptor_open, accepting,
                   accepted>>
    /\ DOMAIN sessions = {} => DOMAIN sessions' = {}

LEMMA UndisturbedInv == ASSUME Inv, Undisturbed PROVE Inv'
  BY DEF Undisturbed, Inv, CountsOK, NotStopped, ClosedIsEmpty, AtRest, Underway,
     AcceptsUntilStopped

\* The rest of the API.
LEMMA OtherCalls ==
  ASSUME \/ \E cmd \in Cmds :
              RegisterReqProcessor(cmd) \/ UnregisterReqProcessor(cmd)
         \/ \E s \in Sessions, r \in Requests : SendRspForReq(s, r)
         \/ PublishNotification
  PROVE  Undisturbed
<1>1. CASE \E cmd \in Cmds :
             RegisterReqProcessor(cmd) \/ UnregisterReqProcessor(cmd)
  BY <1>1 DEF RegisterReqProcessor, UnregisterReqProcessor, Undisturbed,
     acceptVars, historyVars
<1>2. CASE \E s \in Sessions, r \in Requests : SendRspForReq(s, r)
  BY <1>2 DEF SendRspForReq, Undisturbed, serverVars, acceptVars, historyVars
<1>3. CASE PublishNotification
  BY <1>3 DEF PublishNotification, Undisturbed, acceptVars, historyVars
<1>4. QED BY <1>1, <1>2, <1>3

\* The handlers of the sessions and of the timers, and the passing of time.
LEMMA OtherHandlers ==
  ASSUME \/ \E s \in Sessions :
              \/ RunReadRequest(s) \/ RunReadPush(s) \/ RunReadError(s)
              \/ RunSessionTimer(s)
         \/ \E t \in 1..MaxTimers : RunTimer(t)
         \/ Second
  PROVE  Undisturbed
<1>1. CASE \E s \in Sessions : RunReadRequest(s)
  BY <1>1 DEF RunReadRequest, TakesPacket, Undisturbed, acceptVars
<1>2. CASE \E s \in Sessions : RunReadPush(s)
  BY <1>2 DEF RunReadPush, TakesPacket, Undisturbed, acceptVars, historyVars
<1>3. CASE \E s \in Sessions : RunReadError(s)
  BY <1>3 DEF RunReadError, Undisturbed, acceptVars, historyVars
<1>4. CASE \E s \in Sessions : RunSessionTimer(s)
  BY <1>4 DEF RunSessionTimer, Undisturbed, acceptVars, historyVars
<1>5. CASE \E t \in 1..MaxTimers : RunTimer(t)
  BY <1>5 DEF RunTimer, Undisturbed, acceptVars, historyVars
<1>6. CASE Second
  BY <1>6 DEF Second, Undisturbed, acceptVars
<1>7. QED BY <1>1, <1>2, <1>3, <1>4, <1>5, <1>6

\* Clients and connections.
LEMMA OtherNetwork ==
  ASSUME \/ ClientConnects
         \/ \E s \in Sessions :
              \/ LinkBreaks(s) \/ ClientReceives(s)
              \/ \E packet : ClientSends(s, packet)
  PROVE  Undisturbed
<1>1. CASE ClientConnects
  BY <1>1 DEF ClientConnects, Undisturbed, serverVars, historyVars
<1>2. CASE \E s \in Sessions : LinkBreaks(s)
  BY <1>2 DEF LinkBreaks, Undisturbed, serverVars, acceptVars, historyVars
<1>3. CASE \E s \in Sessions : ClientReceives(s)
  BY <1>3 DEF ClientReceives, Undisturbed, serverVars, acceptVars, historyVars
<1>4. CASE \E s \in Sessions : \E packet : ClientSends(s, packet)
  BY <1>4 DEF ClientSends, Undisturbed, serverVars, acceptVars, historyVars
<1>5. QED BY <1>1, <1>2, <1>3, <1>4

LEMMA NextInv == Inv /\ [Next]_vars => Inv'
<1> SUFFICES ASSUME Inv, [Next]_vars PROVE Inv'
  OBVIOUS
<1>1. CASE CallAPI
  <2>1. CASE \E t \in Threads : Start(t) \/ CallStop(t) \/ StopImpl(t)
    BY <2>1, StartInv, CallStopInv, StopImplInv
  <2>2. CASE ~ \E t \in Threads : Start(t) \/ CallStop(t) \/ StopImpl(t)
    BY <1>1, <2>2, OtherCalls, UndisturbedInv DEF CallAPI
  <2>3. QED BY <2>1, <2>2
<1>2. CASE RunHandler
  <2>1. CASE \E outcome \in Outcomes : RunAccept(outcome)
    BY <2>1, RunAcceptInv
  <2>2. CASE ~ \E outcome \in Outcomes : RunAccept(outcome)
    BY <1>2, <2>2, OtherHandlers, UndisturbedInv DEF RunHandler
  <2>3. QED BY <2>1, <2>2
<1>3. CASE Second
  BY <1>3, OtherHandlers, UndisturbedInv
<1>4. CASE Network
  <2>1. CASE AcceptReady \/ AcceptFails
    BY <2>1, AcceptCompletesInv
  <2>2. CASE ~(AcceptReady \/ AcceptFails)
    <3>1. \/ ClientConnects
          \/ \E s \in Sessions :
               \/ LinkBreaks(s) \/ ClientReceives(s)
               \/ \E packet : ClientSends(s, packet)
      BY <1>4, <2>2 DEF Network
    <3>2. QED BY <3>1, OtherNetwork, UndisturbedInv
  <2>3. QED BY <2>1, <2>2
<1>5. CASE UNCHANGED vars
  <2>1. Undisturbed
    BY <1>5 DEF vars, serverVars, acceptVars, historyVars, Undisturbed
  <2>2. QED BY <2>1, UndisturbedInv
<1>6. QED BY <1>1, <1>2, <1>3, <1>4, <1>5 DEF Next

LEMMA InvAlways == Spec => []Inv
  BY InitInv, NextInv, PTL DEF Spec

-----------------------------------------------------------------------------
(* Once every stop() has returned, a server that nobody started since has  *)
(* no session and gets none, however its threads' calls, accepted          *)
(* connections and timers were interleaved.                                *)
THEOREM ServerStops == Spec => []StoppedHasNoSessions
<1>1. Inv => StoppedHasNoSessions
  BY DEF Inv, ClosedIsEmpty, AtRest, StoppedHasNoSessions, Idle
<1>2. QED BY <1>1, InvAlways, PTL

(* A server that was started and never stopped has an accept under way or  *)
(* about to complete, after any number of accepts that failed.             *)
THEOREM ServerAccepts == Spec => []AcceptsUntilStopped
<1>1. Inv => AcceptsUntilStopped
  BY DEF Inv
<1>2. QED BY <1>1, InvAlways, PTL

-----------------------------------------------------------------------------
(* Types.  The one fact that is needed beyond them is that there is room   *)
(* for the sessions of the connections that are under way.                 *)

Room == cur_session_id + backlog + accepted["ok"] <= MaxSessions

\* The records of the model, and what TypeOK says, part by part.
Info == [cur_tries : 1..ResendTries, since : 0..ResendInterval]
WritePackets == UNION { [ps -> Info] : ps \in SUBSET PushIds }
Connection == [ link : {"closed", "up", "down"},
                to_server : Seq(ToServer), to_client : Seq(ToClient) ]

FieldsOK ==
    /\ started \in BOOLEAN /\ acceptor_open \in BOOLEAN /\ stopped \in BOOLEAN
    /\ stopping \subseteq Threads
    /\ req_2_processor \subseteq Cmds
    /\ taken \subseteq Sessions \X Requests
    /\ repeated \subseteq Sessions \X Requests

CountersOK ==
    /\ cur_session_id \in 0..MaxSessions
    /\ cur_seq \in 0..MaxPushes
    /\ backlog \in Nat
    /\ CountsOK
    /\ Room

TimersOK ==
    /\ cur_timer_id \in 0..MaxTimers
    /\ check_timer_id \in 0..cur_timer_id
    /\ DOMAIN timers \subseteq 1..cur_timer_id
    /\ \A t \in DOMAIN timers : timers[t] \in {"armed", "due"}

SessionsOK ==
    /\ DOMAIN sessions \subseteq 1..cur_session_id
    /\ \A s \in DOMAIN sessions : sessions[s] \in SessionType

ConnOK == conn \in [Sessions -> Connection]

HistoryOK ==
    /\ served \in [Sessions -> Ages(Requests)]
    /\ waited \in [Sessions -> [PushIds -> 0..Patience]]

TypeInv ==
    FieldsOK /\ CountersOK /\ TimersOK /\ SessionsOK /\ ConnOK /\ HistoryOK

LEMMA TypeInvIsTypeOK == TypeInv => TypeOK
  BY DEF TypeInv, FieldsOK, CountersOK, CountsOK, TimersOK, SessionsOK, ConnOK,
     HistoryOK, TypeOK, Connection

\* What the assumptions say of the numbers.
LEMMA Numbers ==
  /\ Window \in Nat \ {0} /\ HeartbeatInterval \in Nat
  /\ ResendTries \in Nat \ {0} /\ ResendInterval \in Nat /\ Patience \in Nat
  /\ MaxSessions \in Nat /\ MaxPushes \in Nat /\ MaxTimers \in Nat
  BY WindowAssumption, ServerAssumption DEF Patience

-----------------------------------------------------------------------------
(* Trackers, notifications, sessions and connections keep their types.     *)

LEMMA ForgottenType == ASSUME NEW ids PROVE Forgotten(ids) \in Ages(ids)
  BY Numbers DEF Forgotten, Ages

LEMMA RecordedType ==
  ASSUME NEW ids, NEW age \in Ages(ids), NEW id \in ids
  PROVE  Recorded(age, id) \in Ages(ids)
  BY Numbers DEF Recorded, Ages

LEMMA AgedType ==
  ASSUME NEW ids, NEW age \in Ages(ids)
  PROVE  Aged(age) \in Ages(ids)
  BY Numbers DEF Aged, Ages

LEMMA CappedType ==
  ASSUME NEW cap \in Nat, NEW n \in 0..cap PROVE Capped(n, cap) \in 0..cap
  BY DEF Capped

LEMMA WritePacketsMade ==
  ASSUME NEW ps \in SUBSET PushIds, NEW f \in [ps -> Info]
  PROVE  f \in WritePackets
  BY DEF WritePackets

LEMMA WritePacketsParts ==
  ASSUME NEW f \in WritePackets
  PROVE  DOMAIN f \subseteq PushIds /\ f \in [DOMAIN f -> Info]
<1>1. PICK ps \in SUBSET PushIds : f \in [ps -> Info]
  BY DEF WritePackets
<1>2. QED BY <1>1

LEMMA SessionParts ==
  ASSUME NEW x \in SessionType
  PROVE  /\ x.last_recv \in 0..HeartbeatInterval
         /\ x.rencently_packet_tracker \in Ages(Requests)
         /\ x.write_packets \in WritePackets
         /\ x.read_pending \in BOOLEAN
         /\ x.check_timer \in {"armed", "due"}
  BY DEF SessionType, WritePackets, Info

\* The updates that handlers make to a session.
LEMMA SessionUpdates ==
  ASSUME NEW x \in SessionType,
         NEW age \in 0..HeartbeatInterval, NEW tracker \in Ages(Requests),
         NEW packets \in WritePackets, NEW timer \in {"armed", "due"}
  PROVE  /\ [x EXCEPT !.last_recv = age] \in SessionType
         /\ [x EXCEPT !.rencently_packet_tracker = tracker,
                      !.last_recv = age] \in SessionType
         /\ [x EXCEPT !.write_packets = packets] \in SessionType
         /\ [x EXCEPT !.write_packets = packets,
                      !.last_recv = age] \in SessionType
         /\ [x EXCEPT !.read_pending = FALSE] \in SessionType
         /\ [x EXCEPT !.check_timer = timer,
                      !.write_packets = packets] \in SessionType
         /\ [x EXCEPT !.last_recv = age, !.rencently_packet_tracker = tracker,
                      !.check_timer = timer,
                      !.write_packets = packets] \in SessionType
<1>1. x \in [ last_recv : 0..HeartbeatInterval,
              rencently_packet_tracker : Ages(Requests),
              write_packets : WritePackets,
              read_pending : BOOLEAN, check_timer : {"armed", "due"} ]
  BY DEF SessionType, WritePackets, Info
<1>2. SessionType = [ last_recv : 0..HeartbeatInterval,
              rencently_packet_tracker : Ages(Requests),
              write_packets : WritePackets,
              read_pending : BOOLEAN, check_timer : {"armed", "due"} ]
  BY DEF SessionType, WritePackets, Info
<1>3. QED BY <1>1, <1>2

LEMMA NewSessionType == NewSession \in SessionType
<1>1. [p \in {} |-> {}] \in WritePackets
  <2>1. {} \in SUBSET PushIds /\ [p \in {} |-> {}] \in [{} -> Info]
    OBVIOUS
  <2>2. QED BY <2>1, WritePacketsMade
<1>2. Forgotten(Requests) \in Ages(Requests)
  BY ForgottenType
<1>3. QED BY <1>1, <1>2, Numbers DEF NewSession, SessionType, WritePackets, Info

LEMMA PacketTypes ==
  /\ \A r \in Requests : Request(r) \in ToServer /\ Response(r) \in ToClient
  /\ \A p \in PushIds : Ack(p) \in ToServer /\ Push(p) \in ToClient
  /\ Heartbeat \in ToServer
  BY DEF ToServer, ToClient, Request, Response, Ack, Push, Heartbeat

LEMMA PacketIds ==
  /\ \A m \in ToServer : m.kind = "request" => m.id \in Requests
  /\ \A m \in ToClient : m.kind = "push" => m.id \in PushIds
  BY DEF ToServer, ToClient, Heartbeat

LEMMA ConnectionsMade ==
  NoConnection \in Connection /\ NewConnection \in Connection
<1>1. <<>> \in Seq(ToServer) /\ <<>> \in Seq(ToClient)
  OBVIOUS
<1>2. NoConnection \in Connection
  BY <1>1 DEF NoConnection, Connection
<1>3. QED BY <1>2 DEF NewConnection, Connection

LEMMA WrittenType ==
  ASSUME NEW c \in Connection, NEW packets \in Seq(ToClient)
  PROVE  Written(c, packets) \in Connection
<1>1. c.to_client \o packets \in Seq(ToClient)
  BY DEF Connection
<1>2. QED BY <1>1 DEF Written, Connection

LEMMA ConnWithoutType ==
  ASSUME ConnOK, NEW ids PROVE ConnWithout(ids) \in [Sessions -> Connection]
  BY ConnectionsMade DEF ConnOK, ConnWithout

\* The notifications of a session.
LEMMA PendingType ==
  ASSUME SessionsOK, NEW s \in DOMAIN sessions
  PROVE  /\ Pending(s) = DOMAIN sessions[s].write_packets
         /\ Pending(s) \subseteq PushIds
         /\ \A p \in Pending(s) : sessions[s].write_packets[p] \in Info
  BY SessionParts, WritePacketsParts DEF SessionsOK, Pending

-----------------------------------------------------------------------------
(* Every step keeps the types.                                             *)

LEMMA InitTypes == Init => TypeInv
<1> SUFFICES ASSUME Init PROVE TypeInv
  OBVIOUS
<1>1. FieldsOK /\ TimersOK
  <2>1. FieldsOK
    BY DEF Init, FieldsOK
  <2>2. DOMAIN timers = {} /\ cur_timer_id = 0 /\ check_timer_id = 0
    BY DEF Init
  <2>3. QED BY <2>1, <2>2, Numbers DEF TimersOK
<1>2. CountersOK
  BY Numbers DEF Init, CountersOK, CountsOK, Room, Outcomes
<1>3. SessionsOK
  BY DEF Init, SessionsOK
<1>4. ConnOK
  BY ConnectionsMade DEF Init, ConnOK
<1>5. HistoryOK
  BY ForgottenType, Numbers DEF Init, HistoryOK
<1>6. QED BY <1>1, <1>2, <1>3, <1>4, <1>5 DEF TypeInv

LEMMA StartTypes ==
  ASSUME TypeInv, NEW t \in Threads, Start(t) PROVE TypeInv'
<1>1. FieldsOK'
  BY DEF TypeInv, FieldsOK, Start, historyVars
<1>2. CountersOK'
  <2>1. CountsOK' /\ accepted["ok"]' = accepted["ok"]
    BY DEF TypeInv, CountersOK, CountsOK, Start, DoAccept, Outcomes
  <2>2. UNCHANGED <<cur_session_id, cur_seq, backlog>>
    BY DEF Start
  <2>3. QED BY <2>1, <2>2 DEF TypeInv, CountersOK, Room
<1>3. TimersOK'
  <2>1. cur_timer_id' \in 0..MaxTimers /\ check_timer_id' \in 0..cur_timer_id'
    BY Numbers DEF TypeInv, TimersOK, Start
  <2>2. DOMAIN timers' \subseteq 1..cur_timer_id'
    BY Numbers DEF TypeInv, TimersOK, Start
  <2>3. \A i \in DOMAIN timers' : timers'[i] \in {"armed", "due"}
    BY DEF TypeInv, TimersOK, Start
  <2>4. QED BY <2>1, <2>2, <2>3 DEF TimersOK
<1>4. SessionsOK' /\ ConnOK' /\ HistoryOK'
  BY DEF TypeInv, SessionsOK, ConnOK, HistoryOK, Start, historyVars
<1>5. QED BY <1>1, <1>2, <1>3, <1>4 DEF TypeInv

LEMMA CallStopTypes ==
  ASSUME TypeInv, NEW t \in Threads, CallStop(t) PROVE TypeInv'
<1>1. FieldsOK'
  BY DEF TypeInv, FieldsOK, CallStop, acceptVars
<1>2. CountersOK' /\ TimersOK'
  BY DEF TypeInv, CountersOK, CountsOK, Room, TimersOK, CallStop, acceptVars,
     timerVars
<1>3. SessionsOK' /\ ConnOK' /\ HistoryOK'
  BY DEF TypeInv, SessionsOK, ConnOK, HistoryOK, CallStop
<1>4. QED BY <1>1, <1>2, <1>3 DEF TypeInv

LEMMA StopImplTypes ==
  ASSUME TypeInv, NEW t \in Threads, StopImpl(t) PROVE TypeInv'
<1>1. FieldsOK'
  BY DEF TypeInv, FieldsOK, StopImpl, historyVars
<1>2. CountersOK'
  <2>1. CountsOK' /\ accepted["ok"]' = accepted["ok"] /\ accepted["ok"] \in Nat
    BY DEF TypeInv, CountersOK, CountsOK, StopImpl, Outcomes
  <2>2. UNCHANGED <<cur_session_id, cur_seq>> /\ backlog' = 0
    BY DEF StopImpl
  <2>3. QED BY <2>1, <2>2, Numbers DEF TypeInv, CountersOK, Room
<1>3. TimersOK'
  BY Numbers DEF TypeInv, TimersOK, StopImpl
<1>4. SessionsOK' /\ HistoryOK'
  BY DEF TypeInv, SessionsOK, HistoryOK, StopImpl, historyVars
<1>5. ConnOK'
  BY ConnWithoutType DEF TypeInv, StopImpl, ConnOK
<1>6. QED BY <1>1, <1>2, <1>3, <1>4, <1>5 DEF TypeInv

LEMMA RegistrationTypes ==
  ASSUME TypeInv, NEW cmd \in Cmds,
         RegisterReqProcessor(cmd) \/ UnregisterReqProcessor(cmd)
  PROVE  TypeInv'
<1>1. FieldsOK'
  BY DEF TypeInv, FieldsOK, RegisterReqProcessor, UnregisterReqProcessor,
     acceptVars, historyVars
<1>2. CountersOK' /\ TimersOK'
  BY DEF TypeInv, CountersOK, CountsOK, Room, TimersOK, RegisterReqProcessor,
     UnregisterReqProcessor, acceptVars, timerVars
<1>3. SessionsOK' /\ ConnOK' /\ HistoryOK'
  BY DEF TypeInv, SessionsOK, ConnOK, HistoryOK, RegisterReqProcessor,
     UnregisterReqProcessor, historyVars
<1>4. QED BY <1>1, <1>2, <1>3 DEF TypeInv

LEMMA SendRspTypes ==
  ASSUME TypeInv, NEW s \in Sessions, NEW r \in Requests, SendRspForReq(s, r)
  PROVE  TypeInv'
<1>1. FieldsOK'
  BY DEF TypeInv, FieldsOK, SendRspForReq, serverVars, acceptVars, historyVars
<1>2. CountersOK' /\ TimersOK'
  BY DEF TypeInv, CountersOK, CountsOK, Room, TimersOK, SendRspForReq,
     serverVars, acceptVars, timerVars
<1>3. SessionsOK' /\ HistoryOK'
  BY DEF TypeInv, SessionsOK, HistoryOK, SendRspForReq, serverVars, historyVars
<1>4. ConnOK'
  <2>1. <<Response(r)>> \in Seq(ToClient)
    BY PacketTypes
  <2>2. Written(conn[s], <<Response(r)>>) \in Connection
    BY <2>1, WrittenType DEF TypeInv, ConnOK
  <2>3. QED BY <2>2 DEF TypeInv, ConnOK, SendRspForReq
<1>5. QED BY <1>1, <1>2, <1>3, <1>4 DEF TypeInv

LEMMA PublishTypes == ASSUME TypeInv, PublishNotification PROVE TypeInv'
<1>1. FieldsOK'
  BY DEF TypeInv, FieldsOK, PublishNotification, acceptVars, historyVars
<1>2. cur_seq' \in 0..MaxPushes /\ cur_seq' \in PushIds
  BY Numbers DEF TypeInv, CountersOK, PublishNotification, PushIds
<1>3. CountersOK' /\ TimersOK'
  BY <1>2 DEF TypeInv, CountersOK, CountsOK, Room, TimersOK,
     PublishNotification, acceptVars, timerVars
<1>4. SessionsOK'
  <2>1. DOMAIN sessions' = DOMAIN sessions /\ cur_session_id' = cur_session_id
    BY DEF PublishNotification
  <2>2. ASSUME NEW s \in DOMAIN sessions PROVE sessions'[s] \in SessionType
    <3> DEFINE packets == [p \in Pending(s) \union {cur_seq'} |->
                  IF p = cur_seq' THEN [cur_tries |-> 1, since |-> 0]
                                  ELSE sessions[s].write_packets[p]]
    <3>1. [cur_tries |-> 1, since |-> 0] \in Info
      BY Numbers DEF Info
    <3>2. Pending(s) \union {cur_seq'} \in SUBSET PushIds
      BY <1>2, PendingType DEF TypeInv
    <3>3. packets \in [Pending(s) \union {cur_seq'} -> Info]
      BY <3>1, PendingType DEF TypeInv
    <3>4. packets \in WritePackets
      BY <3>2, <3>3, WritePacketsMade
    <3>5. sessions'[s] = [sessions[s] EXCEPT !.write_packets = packets]
      BY DEF PublishNotification
    <3> HIDE DEF packets
    <3>6. sessions[s] \in SessionType
      BY DEF TypeInv, SessionsOK
    <3>7. QED BY <3>4, <3>5, <3>6, SessionUpdates, SessionParts
  <2>3. QED BY <2>1, <2>2 DEF TypeInv, SessionsOK
<1>5. ConnOK'
  <2>1. <<Push(cur_seq')>> \in Seq(ToClient)
    BY <1>2, PacketTypes
  <2>2. \A s \in Sessions : Written(conn[s], <<Push(cur_seq')>>) \in Connection
    BY <2>1, WrittenType DEF TypeInv, ConnOK
  <2>3. QED BY <2>2 DEF TypeInv, ConnOK, PublishNotification
<1>6. HistoryOK'
  BY DEF TypeInv, HistoryOK, PublishNotification, historyVars
<1>7. QED BY <1>1, <1>3, <1>4, <1>5, <1>6 DEF TypeInv

LEMMA RunAcceptTypes ==
  ASSUME TypeInv, NEW o \in Outcomes, RunAccept(o) PROVE TypeInv'
<1>1. FieldsOK' /\ TimersOK' /\ HistoryOK'
  BY DEF TypeInv, FieldsOK, TimersOK, HistoryOK, RunAccept, historyVars,
     timerVars
<1>2. accepting' \in Nat /\ accepted' \in [Outcomes -> Nat]
  BY DEF TypeInv, CountersOK, CountsOK, RunAccept
<1>3. UNCHANGED <<cur_seq, backlog>>
  BY DEF RunAccept
<1>4. CASE StillOpen /\ o = "ok"
  <2>1. /\ cur_session_id' = cur_session_id + 1
        /\ accepted["ok"]' = accepted["ok"] - 1 /\ accepted["ok"] > 0
        /\ accepted["ok"] \in Nat
    BY <1>4 DEF TypeInv, CountersOK, CountsOK, RunAccept, Outcomes
  <2>2. CountersOK' /\ cur_session_id' \in Sessions
    BY <1>2, <1>3, <2>1, Numbers
       DEF TypeInv, CountersOK, CountsOK, Room, Sessions
  <2>3. SessionsOK'
    <3>1. DOMAIN sessions' = DOMAIN sessions \union {cur_session_id'}
      BY <1>4 DEF RunAccept
    <3>2. DOMAIN sessions' \subseteq 1..cur_session_id'
      BY <2>1, <3>1, Numbers DEF TypeInv, CountersOK, SessionsOK
    <3>3. \A s \in DOMAIN sessions' : sessions'[s] \in SessionType
      BY <1>4, NewSessionType DEF RunAccept, TypeInv, SessionsOK
    <3>4. QED BY <3>2, <3>3 DEF SessionsOK
  <2>4. ConnOK'
    BY <1>4, <2>2, ConnectionsMade DEF RunAccept, TypeInv, ConnOK
  <2>5. QED BY <1>1, <2>2, <2>3, <2>4 DEF TypeInv
<1>5. CASE ~(StillOpen /\ o = "ok")
  <2>1. UNCHANGED <<cur_session_id, sessions, conn>>
    BY <1>5 DEF RunAccept
  <2>2. accepted["ok"]' <= accepted["ok"] /\ accepted["ok"] \in Nat
    BY DEF TypeInv, CountersOK, CountsOK, RunAccept, Outcomes
  <2>3. CountersOK'
    BY <1>2, <1>3, <2>1, <2>2, Numbers
       DEF TypeInv, CountersOK, CountsOK, Room, Outcomes
  <2>4. SessionsOK' /\ ConnOK'
    BY <2>1 DEF TypeInv, SessionsOK, ConnOK
  <2>5. QED BY <1>1, <2>3, <2>4 DEF TypeInv
<1>6. QED BY <1>4, <1>5

\* Taking a packet leaves a connection.
LEMMA TakesPacketType ==
  ASSUME TypeInv, NEW s \in Sessions, NEW kind, TakesPacket(s, kind)
  PROVE  /\ ConnOK'
         /\ s \in DOMAIN sessions /\ sessions[s] \in SessionType
         /\ Head(conn[s].to_server) \in ToServer
         /\ Head(conn[s].to_server).kind = kind
<1>1. s \in DOMAIN sessions /\ sessions[s] \in SessionType
  BY DEF TakesPacket, TypeInv, SessionsOK
<1>2. conn[s] \in Connection /\ conn[s].to_server \in Seq(ToServer)
  BY DEF TypeInv, ConnOK, Connection
<1>3. conn[s].to_server # <<>> /\ Head(conn[s].to_server).kind = kind
  BY DEF TakesPacket
<1>4. /\ Head(conn[s].to_server) \in ToServer
      /\ Tail(conn[s].to_server) \in Seq(ToServer)
  BY <1>2, <1>3
<1>5. [conn[s] EXCEPT !.to_server = Tail(conn[s].to_server)] \in Connection
  BY <1>2, <1>4 DEF Connection
<1>6. ConnOK'
  <2>1. conn' = [conn EXCEPT
                   ![s] = [conn[s] EXCEPT !.to_server = Tail(conn[s].to_server)]]
    BY DEF TakesPacket, TypeInv, ConnOK
  <2>2. QED BY <1>5, <2>1 DEF TypeInv, ConnOK
<1>7. QED BY <1>1, <1>3, <1>4, <1>6

\* Changing one session.
LEMMA OneSession ==
  ASSUME SessionsOK, NEW s \in DOMAIN sessions, NEW x \in SessionType,
         sessions' = [sessions EXCEPT ![s] = x], cur_session_id' = cur_session_id
  PROVE  SessionsOK'
  BY DEF SessionsOK

LEMMA ReadRequestTypes ==
  ASSUME TypeInv, NEW s \in Sessions, RunReadRequest(s) PROVE TypeInv'
<1> DEFINE r == Head(conn[s].to_server).id
           tracker == sessions[s].rencently_packet_tracker
           age == IF Seen(tracker, r) THEN sessions[s].last_recv ELSE 0
           x == [sessions[s] EXCEPT
                   !.rencently_packet_tracker = Recorded(tracker, r),
                   !.last_recv = age]
<1>1. /\ ConnOK' /\ r \in Requests
      /\ s \in DOMAIN sessions /\ sessions[s] \in SessionType
  BY TakesPacketType, PacketIds DEF RunReadRequest
<1>2. FieldsOK'
  BY <1>1 DEF TypeInv, FieldsOK, RunReadRequest, acceptVars
<1>3. CountersOK' /\ TimersOK'
  BY DEF TypeInv, CountersOK, CountsOK, Room, TimersOK, RunReadRequest,
     acceptVars, timerVars
<1>4. SessionsOK'
  <2>1. x \in SessionType
    <3>1. age \in 0..HeartbeatInterval
      BY <1>1, SessionParts, Numbers
    <3>2. Recorded(tracker, r) \in Ages(Requests)
      BY <1>1, SessionParts, RecordedType
    <3> HIDE DEF age, r
    <3>3. QED BY <1>1, <3>1, <3>2, SessionParts, SessionUpdates
  <2>2. sessions' = [sessions EXCEPT ![s] = x]
    BY <1>1 DEF RunReadRequest
  <2> HIDE DEF x
  <2>3. QED BY <1>1, <2>1, <2>2, OneSession DEF TypeInv, RunReadRequest
<1>5. HistoryOK'
  <2>1. served[s] \in Ages(Requests)
    BY DEF TypeInv, HistoryOK
  <2>2. [served[s] EXCEPT ![r] = 0] \in Ages(Requests)
    BY <1>1, <2>1, Numbers DEF Ages
  <2>3. \/ served' = served
        \/ served' = [served EXCEPT ![s] = [served[s] EXCEPT ![r] = 0]]
    BY DEF RunReadRequest, TypeInv, HistoryOK
  <2>4. QED BY <2>2, <2>3 DEF TypeInv, HistoryOK, RunReadRequest
<1>6. QED BY <1>1, <1>2, <1>3, <1>4, <1>5 DEF TypeInv

LEMMA ReadPushTypes ==
  ASSUME TypeInv, NEW s \in Sessions, RunReadPush(s) PROVE TypeInv'
<1>1. ConnOK' /\ s \in DOMAIN sessions /\ sessions[s] \in SessionType
  BY TakesPacketType DEF RunReadPush
<1>2. FieldsOK' /\ HistoryOK'
  BY DEF TypeInv, FieldsOK, HistoryOK, RunReadPush, acceptVars, historyVars
<1>3. CountersOK' /\ TimersOK'
  BY DEF TypeInv, CountersOK, CountsOK, Room, TimersOK, RunReadPush,
     acceptVars, timerVars
<1>4. SessionsOK'
  <2>1. CASE TakesPacket(s, "ack")
    <3> DEFINE p == Head(conn[s].to_server).id
               rest == [q \in Pending(s) \ {p} |-> sessions[s].write_packets[q]]
               x == [sessions[s] EXCEPT !.write_packets = rest, !.last_recv = 0]
    <3>1. Pending(s) \ {p} \in SUBSET PushIds /\ rest \in [Pending(s) \ {p} -> Info]
      BY <1>1, PendingType DEF TypeInv
    <3>2. rest \in WritePackets
      BY <3>1, WritePacketsMade
    <3>3. x \in SessionType
      <4>1. 0 \in 0..HeartbeatInterval
        BY Numbers
      <4> HIDE DEF rest
      <4>2. QED BY <1>1, <3>2, <4>1, SessionParts, SessionUpdates
    <3>4. Head(conn[s].to_server).kind = "ack"
      BY <2>1 DEF TakesPacket
    <3>5. sessions' = [sessions EXCEPT ![s] = x]
      BY <1>1, <3>4 DEF RunReadPush, TakesPacket
    <3> HIDE DEF x
    <3>6. QED BY <1>1, <3>3, <3>5, OneSession DEF TypeInv, RunReadPush
  <2>2. CASE TakesPacket(s, "heartbeat")
    <3> DEFINE x == [sessions[s] EXCEPT !.last_recv = 0]
    <3>1. x \in SessionType
      <4>1. 0 \in 0..HeartbeatInterval
        BY Numbers
      <4>2. QED BY <1>1, <4>1, SessionParts, SessionUpdates
    <3>2. Head(conn[s].to_server).kind = "heartbeat"
      BY <2>2 DEF TakesPacket
    <3>3. sessions' = [sessions EXCEPT ![s] = x]
      BY <1>1, <3>2 DEF RunReadPush, TakesPacket
    <3> HIDE DEF x
    <3>4. QED BY <1>1, <3>1, <3>3, OneSession DEF TypeInv, RunReadPush
  <2>3. QED BY <2>1, <2>2 DEF RunReadPush
<1>5. QED BY <1>1, <1>2, <1>3, <1>4 DEF TypeInv

LEMMA ReadErrorTypes ==
  ASSUME TypeInv, NEW s \in Sessions, RunReadError(s) PROVE TypeInv'
<1>1. FieldsOK' /\ HistoryOK' /\ ConnOK'
  BY DEF TypeInv, FieldsOK, HistoryOK, ConnOK, RunReadError, acceptVars,
     historyVars
<1>2. CountersOK' /\ TimersOK'
  BY DEF TypeInv, CountersOK, CountsOK, Room, TimersOK, RunReadError,
     acceptVars, timerVars
<1>3. SessionsOK'
  <2> DEFINE x == [sessions[s] EXCEPT !.read_pending = FALSE]
  <2>1. s \in DOMAIN sessions /\ sessions[s] \in SessionType
    BY DEF RunReadError, TypeInv, SessionsOK
  <2>2. x \in SessionType
    BY <2>1, SessionParts, SessionUpdates
  <2>3. sessions' = [sessions EXCEPT ![s] = x]
    BY DEF RunReadError
  <2> HIDE DEF x
  <2>4. QED BY <2>1, <2>2, <2>3, OneSession DEF TypeInv, RunReadError
<1>4. QED BY <1>1, <1>2, <1>3 DEF TypeInv

\* What the resend check leaves in a session.
LEMMA ResentType ==
  ASSUME TypeInv, NEW s \in DOMAIN sessions
  PROVE  /\ \A p \in Due(s) \ Exhausted(s) :
              Retried(sessions[s].write_packets[p]) \in Info
         /\ Resent(s) \in Seq(PushIds)
<1>1. ASSUME NEW p \in Due(s) \ Exhausted(s)
      PROVE  Retried(sessions[s].write_packets[p]) \in Info
  <2> DEFINE info == sessions[s].write_packets[p]
  <2>1. info \in Info /\ ~(info.cur_tries >= ResendTries)
    BY PendingType DEF TypeInv, Due, Exhausted
  <2>2. info.cur_tries + 1 \in 1..ResendTries /\ 0 \in 0..ResendInterval
    BY <2>1, Numbers DEF Info
  <2> HIDE DEF info
  <2>3. Retried(info) \in Info
    BY <2>1, <2>2 DEF Retried, Info
  <2>4. QED BY <2>3 DEF info
<1>2. Resent(s) \in Seq(PushIds)
  <2>1. Resent(s) \in Seq((Due(s) \ Exhausted(s)) \intersect (1..MaxPushes))
    BY AscendingType, Numbers DEF Resent
  <2>2. QED BY <2>1, SeqWider DEF PushIds
<1>3. QED BY <1>1, <1>2

LEMMA SessionTimerTypes ==
  ASSUME TypeInv, NEW s \in Sessions, RunSessionTimer(s) PROVE TypeInv'
<1>1. s \in DOMAIN sessions /\ sessions[s] \in SessionType
  BY DEF RunSessionTimer, TypeInv, SessionsOK
<1>2. FieldsOK' /\ HistoryOK'
  BY DEF TypeInv, FieldsOK, HistoryOK, RunSessionTimer, acceptVars, historyVars
<1>3. CountersOK' /\ TimersOK'
  BY DEF TypeInv, CountersOK, CountsOK, Room, TimersOK, RunSessionTimer,
     acceptVars, timerVars
<1>4. SessionsOK'
  <2> DEFINE kept == [p \in Pending(s) \ Exhausted(s) |->
                  IF p \in Due(s) THEN Retried(sessions[s].write_packets[p])
                                  ELSE sessions[s].write_packets[p]]
             x == [sessions[s] EXCEPT !.check_timer = SessionTimerAgain,
                                      !.write_packets = kept]
  <2>1. kept \in [Pending(s) \ Exhausted(s) -> Info]
    BY <1>1, PendingType, ResentType DEF TypeInv
  <2>2. kept \in WritePackets
    BY <1>1, <2>1, PendingType, WritePacketsMade DEF TypeInv
  <2>3. sessions' = [sessions EXCEPT ![s] = x]
    BY <1>1 DEF RunSessionTimer
  <2> HIDE DEF kept
  <2>4. x \in SessionType
    BY <1>1, <2>2, SessionParts, SessionUpdates DEF SessionTimerAgain
  <2> HIDE DEF x
  <2>5. QED BY <1>1, <2>3, <2>4, OneSession DEF TypeInv, RunSessionTimer
<1>5. ConnOK'
  <2> DEFINE packets == [n \in 1..Len(Resent(s)) |-> Push(Resent(s)[n])]
  <2>1. packets \in Seq(ToClient)
    <3>1. \A n \in 1..Len(Resent(s)) : Push(Resent(s)[n]) \in ToClient
      BY <1>1, ResentType, PacketTypes
    <3>2. Len(Resent(s)) \in Nat
      BY <1>1, ResentType
    <3>3. QED BY <3>1, <3>2
  <2>2. Written(conn[s], packets) \in Connection
    BY <2>1, WrittenType DEF TypeInv, ConnOK
  <2>3. conn' = [conn EXCEPT ![s] = Written(conn[s], packets)]
    BY DEF RunSessionTimer
  <2> HIDE DEF packets
  <2>4. QED BY <2>2, <2>3 DEF TypeInv, ConnOK
<1>6. QED BY <1>2, <1>3, <1>4, <1>5 DEF TypeInv

LEMMA TimerTypes ==
  ASSUME TypeInv, NEW t \in 1..MaxTimers, RunTimer(t) PROVE TypeInv'
<1>1. FieldsOK' /\ HistoryOK'
  BY DEF TypeInv, FieldsOK, HistoryOK, RunTimer, acceptVars, historyVars
<1>2. CountersOK' /\ TimersOK'
  BY DEF TypeInv, CountersOK, CountsOK, Room, TimersOK, RunTimer, acceptVars,
     Rearmed
<1>3. SessionsOK'
  BY DEF TypeInv, SessionsOK, RunTimer
<1>4. ConnOK'
  BY ConnWithoutType DEF TypeInv, RunTimer, ConnOK
<1>5. QED BY <1>1, <1>2, <1>3, <1>4 DEF TypeInv

\* A session that grows a second older.
Aging(s) ==
    [sessions[s] EXCEPT
       !.last_recv = Capped(@, HeartbeatInterval),
       !.rencently_packet_tracker = Aged(@),
       !.check_timer = IF @ = "armed" THEN "due" ELSE @,
       !.write_packets =
          [p \in Pending(s) |-> Older(sessions[s].write_packets[p])]]

LEMMA SecondTypes == ASSUME TypeInv, Second PROVE TypeInv'
<1>1. FieldsOK' /\ ConnOK'
  BY DEF TypeInv, FieldsOK, ConnOK, Second, acceptVars
<1>2. CountersOK' /\ TimersOK'
  BY DEF TypeInv, CountersOK, CountsOK, Room, TimersOK, Second, acceptVars
<1>3. SessionsOK'
  <2>1. ASSUME NEW s \in DOMAIN sessions PROVE Aging(s) \in SessionType
    <3> DEFINE x == sessions[s]
               older == [p \in Pending(s) |-> Older(x.write_packets[p])]
               timer == IF x.check_timer = "armed" THEN "due" ELSE x.check_timer
    <3>1. x \in SessionType
      BY DEF TypeInv, SessionsOK
    <3>2. \A info \in Info : Older(info) \in Info
      BY CappedType, Numbers DEF Older, Info
    <3>3. older \in [Pending(s) -> Info]
      BY <3>2, PendingType DEF TypeInv
    <3>4. older \in WritePackets
      BY <3>3, PendingType, WritePacketsMade DEF TypeInv
    <3>5. /\ Capped(x.last_recv, HeartbeatInterval) \in 0..HeartbeatInterval
          /\ Aged(x.rencently_packet_tracker) \in Ages(Requests)
          /\ timer \in {"armed", "due"}
      BY <3>1, SessionParts, CappedType, AgedType, Numbers
    <3>6. [x EXCEPT !.last_recv = Capped(x.last_recv, HeartbeatInterval),
                    !.rencently_packet_tracker =
                       Aged(x.rencently_packet_tracker),
                    !.check_timer = timer,
                    !.write_packets = older] \in SessionType
      BY <3>1, <3>4, <3>5, SessionUpdates
    <3>7. QED BY <3>6 DEF Aging
  <2>2. sessions' = [s \in DOMAIN sessions |-> Aging(s)]
    BY DEF Second, Aging
  <2>3. QED BY <2>1, <2>2 DEF TypeInv, SessionsOK, Second
<1>4. HistoryOK'
  <2>1. served' \in [Sessions -> Ages(Requests)]
    BY AgedType DEF TypeInv, HistoryOK, Second
  <2>2. waited' \in [Sessions -> [PushIds -> 0..Patience]]
    BY CappedType, Numbers DEF TypeInv, HistoryOK, Second
  <2>3. QED BY <2>1, <2>2 DEF HistoryOK
<1>5. QED BY <1>1, <1>2, <1>3, <1>4 DEF TypeInv

LEMMA AcceptorTypes ==
  ASSUME TypeInv, ClientConnects \/ AcceptReady \/ AcceptFails PROVE TypeInv'
<1>1. FieldsOK' /\ TimersOK' /\ SessionsOK' /\ ConnOK' /\ HistoryOK'
  BY DEF TypeInv, FieldsOK, TimersOK, SessionsOK, ConnOK, HistoryOK,
     ClientConnects, AcceptReady, AcceptFails, serverVars, timerVars, historyVars
<1>2. CountersOK'
  <2>1. UNCHANGED <<cur_session_id, cur_seq>>
    BY DEF ClientConnects, AcceptReady, AcceptFails, serverVars
  <2>2. backlog' \in Nat /\ CountsOK'
    BY DEF TypeInv, CountersOK, CountsOK, ClientConnects, AcceptReady,
       AcceptFails, Outcomes
  <2>3. Room'
    BY Numbers DEF TypeInv, CountersOK, CountsOK, Room, ClientConnects,
       AcceptReady, AcceptFails, Outcomes, serverVars
  <2>4. QED BY <2>1, <2>2, <2>3 DEF TypeInv, CountersOK
<1>3. QED BY <1>1, <1>2 DEF TypeInv

LEMMA ConnectionTypes ==
  ASSUME TypeInv, NEW s \in Sessions,
         \/ LinkBreaks(s) \/ ClientReceives(s)
         \/ \E packet \in ToServer : ClientSends(s, packet)
  PROVE  TypeInv'
<1>1. FieldsOK' /\ SessionsOK' /\ HistoryOK'
  BY DEF TypeInv, FieldsOK, SessionsOK, HistoryOK, LinkBreaks, ClientReceives,
     ClientSends, serverVars, acceptVars, historyVars
<1>2. CountersOK' /\ TimersOK'
  BY DEF TypeInv, CountersOK, CountsOK, Room, TimersOK, LinkBreaks,
     ClientReceives, ClientSends, serverVars, acceptVars, timerVars
<1>3. conn[s] \in Connection /\ conn \in [Sessions -> Connection]
  BY DEF TypeInv, ConnOK
<1>4. PICK c \in Connection : conn' = [conn EXCEPT ![s] = c]
  <2>1. CASE LinkBreaks(s)
    <3>1. [conn[s] EXCEPT !.link = "down"] \in Connection
      BY <1>3 DEF Connection
    <3>2. conn' = [conn EXCEPT ![s] = [conn[s] EXCEPT !.link = "down"]]
      BY <1>3, <2>1 DEF LinkBreaks
    <3>3. QED BY <3>1, <3>2
  <2>2. CASE ClientReceives(s)
    <3> DEFINE m == Head(conn[s].to_client)
               added == IF m.kind = "push"
                        THEN Append(conn[s].to_server, Ack(m.id))
                        ELSE conn[s].to_server
               c == [conn[s] EXCEPT !.to_client = Tail(conn[s].to_client),
                                    !.to_server = added]
    <3>1. /\ conn[s].to_client \in Seq(ToClient) /\ conn[s].to_client # <<>>
          /\ conn[s].to_server \in Seq(ToServer)
      BY <1>3, <2>2 DEF Connection, ClientReceives
    <3>2. m \in ToClient /\ Tail(conn[s].to_client) \in Seq(ToClient)
      BY <3>1
    <3>3. m.kind = "push" => Ack(m.id) \in ToServer
      BY <3>2, PacketIds, PacketTypes
    <3>4. added \in Seq(ToServer)
      BY <3>1, <3>3
    <3>5. conn' = [conn EXCEPT ![s] = c]
      BY <1>3, <2>2 DEF ClientReceives
    <3> HIDE DEF added
    <3>6. c \in Connection
      BY <1>3, <3>2, <3>4 DEF Connection
    <3>7. QED BY <3>5, <3>6
  <2>3. CASE \E packet \in ToServer : ClientSends(s, packet)
    <3>1. PICK packet \in ToServer : ClientSends(s, packet)
      BY <2>3
    <3> DEFINE c == [conn[s] EXCEPT
                       !.to_server = Append(conn[s].to_server, packet)]
    <3>2. Append(conn[s].to_server, packet) \in Seq(ToServer)
      BY <1>3 DEF Connection
    <3>3. c \in Connection
      BY <1>3, <3>2 DEF Connection
    <3>4. conn' = [conn EXCEPT ![s] = c]
      BY <1>3, <3>1 DEF ClientSends
    <3>5. QED BY <3>3, <3>4
  <2>4. QED BY <2>1, <2>2, <2>3
<1>5. ConnOK'
  BY <1>3, <1>4 DEF ConnOK
<1>6. QED BY <1>1, <1>2, <1>5 DEF TypeInv

LEMMA NextTypes == TypeInv /\ [Next]_vars => TypeInv'
<1> SUFFICES ASSUME TypeInv, [Next]_vars PROVE TypeInv'
  OBVIOUS
<1>1. CASE CallAPI
  BY <1>1, StartTypes, CallStopTypes, StopImplTypes, RegistrationTypes,
     SendRspTypes, PublishTypes DEF CallAPI
<1>2. CASE RunHandler
  BY <1>2, RunAcceptTypes, ReadRequestTypes, ReadPushTypes, ReadErrorTypes,
     SessionTimerTypes, TimerTypes DEF RunHandler
<1>3. CASE Second
  BY <1>3, SecondTypes
<1>4. CASE Network
  BY <1>4, AcceptorTypes, ConnectionTypes, PacketTypes DEF Network
<1>5. CASE UNCHANGED vars
  BY <1>5 DEF TypeInv, FieldsOK, CountersOK, CountsOK, Room, TimersOK,
     SessionsOK, ConnOK, HistoryOK, vars, serverVars, timerVars, acceptVars,
     historyVars
<1>6. QED BY <1>1, <1>2, <1>3, <1>4, <1>5 DEF Next

LEMMA TypesAlways == Spec => []TypeInv
  BY InitTypes, NextTypes, PTL DEF Spec

(* Every field of the server, of its sessions and of their connections     *)
(* keeps its type: ids stay within what was given out, attempts within     *)
(* their number, and what travels is what the other end may receive.       *)
THEOREM ServerTypeOK == Spec => []TypeOK
  BY TypesAlways, TypeInvIsTypeOK, PTL

-----------------------------------------------------------------------------
(* A request is processed once in a window.  The tracker of a session and  *)
(* the history of callbacks are two clocks for one request: the tracker is *)
(* reset by every request that arrives, the history only by those that are *)
(* called back, so that the tracker never shows the greater age.           *)

\* Ids are not given out twice: nothing was served under one to come.
Heard ==
    \A s \in Sessions : \A r \in Requests :
      /\ s \in DOMAIN sessions =>
           sessions[s].rencently_packet_tracker[r] <= served[s][r]
      /\ s > cur_session_id => served[s][r] = Window

OnceInv == TypeInv /\ Heard /\ ProcessedOnce

LEMMA InitOnce == Init => OnceInv
  BY InitTypes DEF Init, OnceInv, Heard, ProcessedOnce, Forgotten

\* Steps that leave the trackers of the sessions that remain, and the history.
TrackersKept ==
    /\ UNCHANGED <<served, repeated, cur_session_id>>
    /\ DOMAIN sessions' \subseteq DOMAIN sessions
    /\ \A s \in DOMAIN sessions' :
         sessions'[s].rencently_packet_tracker =
           sessions[s].rencently_packet_tracker

LEMMA TrackersKeptOnce ==
  ASSUME OnceInv, TrackersKept PROVE Heard' /\ ProcessedOnce'
  BY DEF OnceInv, Heard, ProcessedOnce, TrackersKept

LEMMA OtherTrackers ==
  ASSUME TypeInv,
         \/ CallAPI \/ Network \/ UNCHANGED vars
         \/ \E s \in Sessions :
              RunReadPush(s) \/ RunReadError(s) \/ RunSessionTimer(s)
         \/ \E t \in 1..MaxTimers : RunTimer(t)
  PROVE  TrackersKept
<1>1. CASE \E t \in Threads : Start(t) \/ CallStop(t) \/ StopImpl(t)
  BY <1>1 DEF Start, CallStop, StopImpl, TrackersKept, historyVars
<1>2. CASE \E cmd \in Cmds :
             RegisterReqProcessor(cmd) \/ UnregisterReqProcessor(cmd)
  BY <1>2 DEF RegisterReqProcessor, UnregisterReqProcessor, TrackersKept,
     historyVars
<1>3. CASE \E s \in Sessions, r \in Requests : SendRspForReq(s, r)
  BY <1>3 DEF SendRspForReq, TrackersKept, serverVars, historyVars
<1>4. CASE PublishNotification
  <2>1. \A s \in DOMAIN sessions : sessions[s] \in SessionType
    BY DEF TypeInv, SessionsOK
  <2>2. QED BY <1>4, <2>1 DEF PublishNotification, TrackersKept, historyVars,
     SessionType
<1>5. CASE Network \/ UNCHANGED vars
  BY <1>5 DEF Network, ClientConnects, AcceptReady, AcceptFails, LinkBreaks,
     ClientReceives, ClientSends, vars, TrackersKept, serverVars, historyVars
<1>6. CASE \E s \in Sessions :
             RunReadPush(s) \/ RunReadError(s) \/ RunSessionTimer(s)
  <2>1. PICK s \in Sessions :
          RunReadPush(s) \/ RunReadError(s) \/ RunSessionTimer(s)
    BY <1>6
  <2>2. s \in DOMAIN sessions /\ sessions[s] \in SessionType
    BY <2>1 DEF RunReadPush, TakesPacket, RunReadError, RunSessionTimer,
       TypeInv, SessionsOK
  <2>3. /\ sessions'[s].rencently_packet_tracker =
             sessions[s].rencently_packet_tracker
        /\ DOMAIN sessions' = DOMAIN sessions
        /\ \A u \in DOMAIN sessions : u # s => sessions'[u] = sessions[u]
    BY <2>1, <2>2 DEF RunReadPush, RunReadError, RunSessionTimer, SessionType
  <2>4. UNCHANGED <<served, repeated, cur_session_id>>
    BY <2>1 DEF RunReadPush, RunReadError, RunSessionTimer, historyVars
  <2>5. QED BY <2>3, <2>4 DEF TrackersKept
<1>7. CASE \E t \in 1..MaxTimers : RunTimer(t)
  BY <1>7 DEF RunTimer, TrackersKept, historyVars
<1>8. QED BY <1>1, <1>2, <1>3, <1>4, <1>5, <1>6, <1>7 DEF CallAPI

\* The session of a new connection knows nothing, and nothing was served to it.
LEMMA RunAcceptOnce ==
  ASSUME OnceInv, NEW o \in Outcomes, RunAccept(o)
  PROVE  Heard' /\ ProcessedOnce'
<1>1. UNCHANGED <<served, repeated>>
  BY DEF RunAccept, historyVars
<1>2. CASE StillOpen /\ o = "ok"
  <2>1. /\ cur_session_id' = cur_session_id + 1 /\ cur_session_id \in Nat
        /\ DOMAIN sessions' = DOMAIN sessions \union {cur_session_id'}
        /\ cur_session_id' \notin DOMAIN sessions
    BY <1>2, Numbers
       DEF RunAccept, OnceInv, TypeInv, CountersOK, SessionsOK
  <2>2. /\ sessions'[cur_session_id'] = NewSession
        /\ \A s \in DOMAIN sessions : sessions'[s] = sessions[s]
    BY <1>2, <2>1 DEF RunAccept
  <2>3. ASSUME NEW s \in Sessions, NEW r \in Requests
        PROVE  /\ s \in DOMAIN sessions' =>
                    sessions'[s].rencently_packet_tracker[r] <= served'[s][r]
               /\ s > cur_session_id' => served'[s][r] = Window
    <3>1. s > cur_session_id => served[s][r] = Window
      BY DEF OnceInv, Heard
    <3>2. CASE s = cur_session_id'
      <4>1. NewSession.rencently_packet_tracker[r] = Window
        BY DEF NewSession, Forgotten
      <4>2. served[s][r] = Window
        BY <2>1, <3>1, <3>2
      <4>3. QED BY <1>1, <2>1, <2>2, <3>2, <4>1, <4>2, Numbers
    <3>3. CASE s # cur_session_id'
      BY <1>1, <2>1, <2>2, <3>1, <3>3 DEF OnceInv, Heard, Sessions
    <3>4. QED BY <3>2, <3>3
  <2>4. QED BY <1>1, <2>3 DEF Heard, OnceInv, ProcessedOnce
<1>3. CASE ~(StillOpen /\ o = "ok")
  BY <1>1, <1>3 DEF RunAccept, Heard, OnceInv, ProcessedOnce
<1>4. QED BY <1>2, <1>3

\* The request that is called back is in no tracker, so that its last callback
\* is a window ago.
LEMMA ReadRequestOnce ==
  ASSUME OnceInv, NEW s \in Sessions, RunReadRequest(s)
  PROVE  Heard' /\ ProcessedOnce'
<1> DEFINE r == Head(conn[s].to_server).id
           tracker == sessions[s].rencently_packet_tracker
           called == ~Seen(tracker, r) /\ CmdOf[r] \in req_2_processor
<1>1. /\ r \in Requests /\ s \in DOMAIN sessions /\ sessions[s] \in SessionType
      /\ tracker \in Ages(Requests) /\ served[s] \in Ages(Requests)
      /\ cur_session_id \in Nat /\ s <= cur_session_id
  BY TakesPacketType, PacketIds, SessionParts, Numbers
     DEF RunReadRequest, OnceInv, TypeInv, HistoryOK, CountersOK, SessionsOK
<1>2. /\ DOMAIN sessions' = DOMAIN sessions /\ cur_session_id' = cur_session_id
      /\ sessions'[s].rencently_packet_tracker = Recorded(tracker, r)
      /\ \A u \in DOMAIN sessions : u # s => sessions'[u] = sessions[u]
  BY <1>1 DEF RunReadRequest, SessionType
<1>3. /\ \A u \in Sessions : u # s => served'[u] = served[u]
      /\ \A q \in Requests : q # r => served'[s][q] = served[s][q]
      /\ served'[s][r] = IF called THEN 0 ELSE served[s][r]
  BY <1>1 DEF RunReadRequest, OnceInv, TypeInv, HistoryOK, Ages
<1>4. tracker[r] <= served[s][r]
  BY <1>1 DEF OnceInv, Heard
<1>5. ProcessedOnce'
  <2>1. called => ~Seen(served[s], r)
    BY <1>1, <1>4, Numbers DEF Seen, Ages
  <2>2. QED BY <2>1 DEF RunReadRequest, OnceInv, ProcessedOnce
<1>6. ASSUME NEW q \in Requests
      PROVE  Recorded(tracker, r)[q] <= served'[s][q]
  <2>1. tracker[q] <= served[s][q]
    BY <1>1 DEF OnceInv, Heard
  <2>2. tracker[q] \in 0..Window /\ served[s][q] \in 0..Window
    BY <1>1 DEF Ages
  <2>3. Recorded(tracker, r)[q] =
          IF q = r /\ ~Seen(tracker, r) THEN 0 ELSE tracker[q]
    BY <1>1 DEF Recorded, Ages
  <2> HIDE DEF tracker
  <2>4. CASE q = r
    BY <1>3, <2>1, <2>2, <2>3, <2>4, Numbers
  <2>5. CASE q # r
    BY <1>3, <2>1, <2>3, <2>5
  <2>6. QED BY <2>4, <2>5
<1>7. Heard'
  <2>1. ASSUME NEW u \in Sessions, NEW q \in Requests
        PROVE  /\ u \in DOMAIN sessions' =>
                    sessions'[u].rencently_packet_tracker[q] <= served'[u][q]
               /\ u > cur_session_id' => served'[u][q] = Window
    <3>1. CASE u = s
      <4>1. ~(s > cur_session_id')
        BY <1>1, <1>2, Numbers DEF Sessions
      <4>2. sessions'[s].rencently_packet_tracker[q] <= served'[s][q]
        BY <1>2, <1>6
      <4>3. QED BY <3>1, <4>1, <4>2
    <3>2. CASE u # s
      BY <1>2, <1>3, <3>2 DEF OnceInv, Heard
    <3>3. QED BY <3>1, <3>2
  <2>2. QED BY <2>1 DEF Heard
<1>8. QED BY <1>5, <1>7

\* Both clocks go on by a second.
LEMMA SecondOnce == ASSUME OnceInv, Second PROVE Heard' /\ ProcessedOnce'
<1>1. /\ DOMAIN sessions' = DOMAIN sessions /\ cur_session_id' = cur_session_id
      /\ repeated' = repeated
  BY DEF Second
<1>2. ASSUME NEW s \in Sessions, NEW r \in Requests
      PROVE  /\ s \in DOMAIN sessions' =>
                  sessions'[s].rencently_packet_tracker[r] <= served'[s][r]
             /\ s > cur_session_id' => served'[s][r] = Window
  <2>1. served[s] \in Ages(Requests) /\ served'[s] = Aged(served[s])
    BY DEF OnceInv, TypeInv, HistoryOK, Second
  <2>2. served[s][r] \in 0..Window
        /\ served'[s][r] = IF served[s][r] < Window THEN served[s][r] + 1
                                                    ELSE Window
    BY <2>1 DEF Aged, Ages
  <2>3. CASE s \in DOMAIN sessions
    <3> DEFINE tracker == sessions[s].rencently_packet_tracker
    <3>1. sessions[s] \in SessionType /\ tracker \in Ages(Requests)
      BY <2>3, SessionParts DEF OnceInv, TypeInv, SessionsOK
    <3>2. sessions'[s].rencently_packet_tracker = Aged(tracker)
      BY <2>3, <3>1 DEF Second, SessionType
    <3>3. tracker[r] \in 0..Window
          /\ Aged(tracker)[r] = IF tracker[r] < Window THEN tracker[r] + 1
                                                       ELSE Window
      BY <3>1 DEF Aged, Ages
    <3>4. tracker[r] <= served[s][r] /\ s <= cur_session_id
          /\ cur_session_id \in Nat
      BY <2>3, Numbers
         DEF OnceInv, Heard, TypeInv, SessionsOK, CountersOK
    <3> HIDE DEF tracker
    <3>5. QED BY <1>1, <2>2, <2>3, <3>2, <3>3, <3>4, Numbers DEF Sessions
  <2>4. CASE s \notin DOMAIN sessions
    BY <1>1, <2>2, <2>4, Numbers DEF OnceInv, Heard
  <2>5. QED BY <2>3, <2>4
<1>3. QED BY <1>1, <1>2 DEF Heard, OnceInv, ProcessedOnce

LEMMA NextOnce == OnceInv /\ [Next]_vars => OnceInv'
<1> SUFFICES ASSUME OnceInv, [Next]_vars PROVE OnceInv'
  OBVIOUS
<1>1. TypeInv /\ TypeInv'
  BY NextTypes DEF OnceInv
<1>2. Heard' /\ ProcessedOnce'
  <2>1. CASE \E o \in Outcomes : RunAccept(o)
    BY <2>1, RunAcceptOnce
  <2>2. CASE \E s \in Sessions : RunReadRequest(s)
    BY <2>2, ReadRequestOnce
  <2>3. CASE Second
    BY <2>3, SecondOnce
  <2>4. CASE TrackersKept
    BY <2>4, TrackersKeptOnce
  <2>5. QED BY <1>1, <2>1, <2>2, <2>3, <2>4, OtherTrackers DEF Next, RunHandler
<1>3. QED BY <1>1, <1>2 DEF OnceInv

(* No request is given to its processor twice within a window by one       *)
(* session, for any number of sessions and requests, however often it is   *)
(* resent and however its processor comes and goes.                        *)
THEOREM ServerProcessesOnce == Spec => []ProcessedOnce
<1>1. OnceInv => ProcessedOnce
  BY DEF OnceInv
<1>2. QED BY <1>1, InitOnce, NextOnce, PTL DEF Spec

-----------------------------------------------------------------------------
(* Notifications are not dropped early.  What a session has of one, the    *)
(* attempts and the age of the last, is at most what the history has: each *)
(* attempt but the last stands for a whole interval.                       *)

Patient ==
    \A s \in DOMAIN sessions : \A p \in Pending(s) :
      (sessions[s].write_packets[p].cur_tries - 1) * ResendInterval
        + sessions[s].write_packets[p].since <= waited[s][p]

DropInv == TypeInv /\ Patient

LEMMA InitDrop == Init => DropInv
  BY InitTypes DEF Init, DropInv, Patient

\* An attempt and an interval: what the resend check makes of a notification,
\* and what an exhausted one has waited.
LEMMA Attempts ==
  ASSUME NEW info \in Info, NEW w \in 0..Patience,
         (info.cur_tries - 1) * ResendInterval + info.since <= w
  PROVE  /\ info.since >= ResendInterval =>
              info.cur_tries * ResendInterval <= w
         /\ info.since >= ResendInterval /\ info.cur_tries >= ResendTries =>
              w >= Patience
         /\ (info.cur_tries - 1) * ResendInterval
              + Capped(info.since, ResendInterval) <= Capped(w, Patience)
<1>1. /\ info.cur_tries \in 1..ResendTries /\ info.since \in 0..ResendInterval
      /\ w \in Nat
  BY Numbers DEF Info
<1> DEFINE done == (info.cur_tries - 1) * ResendInterval
<1>2. done \in Nat /\ info.cur_tries * ResendInterval = done + ResendInterval
  BY <1>1, Numbers
<1>3. done + ResendInterval <= Patience
  <2>1. \A m, n, k \in Nat : m <= n => m * k <= n * k
    OBVIOUS
  <2>2. info.cur_tries * ResendInterval <= ResendTries * ResendInterval
    BY <1>1, <2>1, Numbers
  <2>3. QED BY <1>2, <2>2 DEF Patience
<1>4. info.cur_tries >= ResendTries => done + ResendInterval = Patience
  <2>1. info.cur_tries >= ResendTries => info.cur_tries = ResendTries
    BY <1>1, Numbers
  <2>2. QED BY <1>2, <2>1 DEF Patience
<1> HIDE DEF done
<1>5. done + info.since <= w
  BY DEF done
<1>6. done + Capped(info.since, ResendInterval) <= Capped(w, Patience)
  BY <1>1, <1>2, <1>3, <1>5, Numbers DEF Capped
<1>7. QED BY <1>1, <1>2, <1>4, <1>5, <1>6, Numbers DEF done

\* What a step may drop.
DropsInTime ==
    \A s \in DOMAIN sessions \intersect DOMAIN sessions' :
      \A p \in Pending(s) \ Pending(s)' :
        \/ conn[s].to_server # <<>> /\ Head(conn[s].to_server) = Ack(p)
        \/ waited[s][p] >= Patience

\* Steps that leave what the sessions keep.
PacketsKept ==
    /\ waited' = waited
    /\ \A s \in DOMAIN sessions' :
         \/ /\ s \in DOMAIN sessions
            /\ sessions'[s].write_packets = sessions[s].write_packets
         \/ /\ s \notin DOMAIN sessions
            /\ DOMAIN sessions'[s].write_packets = {}

LEMMA PacketsKeptDrop ==
  ASSUME DropInv, PacketsKept PROVE Patient' /\ DropsInTime
<1>1. Patient'
  BY DEF DropInv, Patient, PacketsKept, Pending
<1>2. DropsInTime
  BY DEF DropsInTime, PacketsKept, Pending
<1>3. QED BY <1>1, <1>2

LEMMA OtherPackets ==
  ASSUME TypeInv,
         \/ CallAPI /\ ~PublishNotification
         \/ Network \/ UNCHANGED vars
         \/ \E o \in Outcomes : RunAccept(o)
         \/ \E s \in Sessions : RunReadRequest(s) \/ RunReadError(s)
         \/ \E t \in 1..MaxTimers : RunTimer(t)
  PROVE  PacketsKept
<1>1. CASE \E t \in Threads : Start(t) \/ CallStop(t) \/ StopImpl(t)
  BY <1>1 DEF Start, CallStop, StopImpl, PacketsKept, historyVars
<1>2. CASE \E cmd \in Cmds :
             RegisterReqProcessor(cmd) \/ UnregisterReqProcessor(cmd)
  BY <1>2 DEF RegisterReqProcessor, UnregisterReqProcessor, PacketsKept,
     historyVars
<1>3. CASE \E s \in Sessions, r \in Requests : SendRspForReq(s, r)
  BY <1>3 DEF SendRspForReq, PacketsKept, serverVars, historyVars
<1>4. CASE Network \/ UNCHANGED vars
  BY <1>4 DEF Network, ClientConnects, AcceptReady, AcceptFails, LinkBreaks,
     ClientReceives, ClientSends, vars, PacketsKept, serverVars, historyVars
<1>5. CASE \E o \in Outcomes : RunAccept(o)
  <2>1. cur_session_id + 1 \notin DOMAIN sessions
    BY Numbers DEF TypeInv, SessionsOK, CountersOK
  <2>2. DOMAIN NewSession.write_packets = {}
    BY DEF NewSession
  <2>3. QED BY <1>5, <2>1, <2>2 DEF RunAccept, PacketsKept, historyVars
<1>6. CASE \E s \in Sessions : RunReadRequest(s) \/ RunReadError(s)
  <2>1. PICK s \in Sessions : RunReadRequest(s) \/ RunReadError(s)
    BY <1>6
  <2>2. s \in DOMAIN sessions /\ sessions[s] \in SessionType
    BY <2>1 DEF RunReadRequest, TakesPacket, RunReadError, TypeInv, SessionsOK
  <2>3. /\ sessions'[s].write_packets = sessions[s].write_packets
        /\ DOMAIN sessions' = DOMAIN sessions
        /\ \A u \in DOMAIN sessions : u # s => sessions'[u] = sessions[u]
    BY <2>1, <2>2 DEF RunReadRequest, RunReadError, SessionType
  <2>4. waited' = waited
    BY <2>1 DEF RunReadRequest, RunReadError, historyVars
  <2>5. QED BY <2>3, <2>4 DEF PacketsKept
<1>7. CASE \E t \in 1..MaxTimers : RunTimer(t)
  BY <1>7 DEF RunTimer, PacketsKept, historyVars
<1>8. QED BY <1>1, <1>2, <1>3, <1>4, <1>5, <1>6, <1>7 DEF CallAPI

\* A notification that is new has made one attempt, and has not waited less.
LEMMA PublishDrop ==
  ASSUME DropInv, PublishNotification PROVE Patient' /\ DropsInTime
<1>1. waited' = waited /\ DOMAIN sessions' = DOMAIN sessions
  BY DEF PublishNotification, historyVars
<1>2. cur_seq' \in PushIds
  BY Numbers DEF DropInv, TypeInv, CountersOK, PublishNotification, PushIds
<1>3. ASSUME NEW s \in DOMAIN sessions
      PROVE  sessions'[s].write_packets =
               [p \in Pending(s) \union {cur_seq'} |->
                  IF p = cur_seq' THEN [cur_tries |-> 1, since |-> 0]
                                  ELSE sessions[s].write_packets[p]]
  <2>1. sessions[s] \in SessionType
    BY DEF DropInv, TypeInv, SessionsOK
  <2>2. QED BY <2>1 DEF PublishNotification, SessionType
<1>4. ASSUME NEW s \in DOMAIN sessions, NEW p \in Pending(s)'
      PROVE  (sessions'[s].write_packets[p].cur_tries - 1) * ResendInterval
               + sessions'[s].write_packets[p].since <= waited'[s][p]
  <2>1. p \in Pending(s) \union {cur_seq'}
    BY <1>1, <1>3 DEF Pending
  <2>2. CASE p = cur_seq'
    <3>1. sessions'[s].write_packets[p] = [cur_tries |-> 1, since |-> 0]
      BY <1>3, <2>2
    <3>2. waited[s][p] \in Nat
      BY <1>2, <2>2, Numbers
         DEF DropInv, TypeInv, HistoryOK, SessionsOK, CountersOK, Sessions
    <3>3. QED BY <1>1, <3>1, <3>2, Numbers
  <2>3. CASE p # cur_seq'
    <3>1. p \in Pending(s)
      BY <2>1, <2>3
    <3>2. sessions'[s].write_packets[p] = sessions[s].write_packets[p]
      BY <1>3, <2>3, <3>1
    <3>3. QED BY <1>1, <3>1, <3>2 DEF DropInv, Patient
  <2>4. QED BY <2>2, <2>3
<1>5. Patient'
  BY <1>1, <1>4 DEF Patient
<1>6. \A s \in DOMAIN sessions : Pending(s) \subseteq Pending(s)'
  BY <1>1, <1>3 DEF Pending
<1>7. DropsInTime
  BY <1>6 DEF DropsInTime
<1>8. QED BY <1>5, <1>7

\* An acknowledgement drops the notification that it names.
LEMMA ReadPushDrop ==
  ASSUME DropInv, NEW s \in Sessions, RunReadPush(s)
  PROVE  Patient' /\ DropsInTime
<1>1. s \in DOMAIN sessions /\ sessions[s] \in SessionType
      /\ Head(conn[s].to_server) \in ToServer
  BY TakesPacketType DEF RunReadPush, DropInv
<1>2. /\ waited' = waited /\ DOMAIN sessions' = DOMAIN sessions
      /\ \A u \in DOMAIN sessions : u # s => sessions'[u] = sessions[u]
  BY <1>1 DEF RunReadPush, historyVars
<1>3. CASE TakesPacket(s, "heartbeat")
  <2>1. Head(conn[s].to_server).kind = "heartbeat"
    BY <1>3 DEF TakesPacket
  <2>2. sessions'[s].write_packets = sessions[s].write_packets
    BY <1>1, <2>1 DEF RunReadPush, TakesPacket, SessionType
  <2>3. PacketsKept
    BY <1>1, <1>2, <2>2 DEF PacketsKept
  <2>4. QED BY <2>3, PacketsKeptDrop
<1>4. CASE TakesPacket(s, "ack")
  <2> DEFINE p == Head(conn[s].to_server).id
  <2>1. conn[s].to_server # <<>> /\ Head(conn[s].to_server).kind = "ack"
    BY <1>4 DEF TakesPacket
  <2>2. Head(conn[s].to_server) = Ack(p)
    BY <1>1, <2>1 DEF ToServer, Heartbeat, Ack
  <2>3. sessions'[s].write_packets =
          [q \in Pending(s) \ {p} |-> sessions[s].write_packets[q]]
    BY <1>1, <2>1 DEF RunReadPush, TakesPacket, SessionType
  <2> HIDE DEF p
  <2>4. Pending(s)' = Pending(s) \ {p}
    BY <1>1, <1>2, <2>3 DEF Pending
  <2>5. \A q \in Pending(s)' :
          sessions'[s].write_packets[q] = sessions[s].write_packets[q]
    BY <2>3, <2>4
  <2>6. \A u \in DOMAIN sessions : u # s => Pending(u)' = Pending(u)
    BY <1>2 DEF Pending
  <2>7. Patient'
    BY <1>2, <2>4, <2>5, <2>6 DEF DropInv, Patient
  <2>8. DropsInTime
    BY <1>2, <2>1, <2>2, <2>4, <2>6 DEF DropsInTime
  <2>9. QED BY <2>7, <2>8
<1>5. QED BY <1>3, <1>4 DEF RunReadPush

\* The resend check drops what made all its attempts, an interval apart.
LEMMA SessionTimerDrop ==
  ASSUME DropInv, NEW s \in Sessions, RunSessionTimer(s)
  PROVE  Patient' /\ DropsInTime
<1>1. s \in DOMAIN sessions /\ sessions[s] \in SessionType
      /\ s \in 1..MaxSessions
  BY DEF RunSessionTimer, DropInv, TypeInv, SessionsOK, Sessions
<1>2. /\ waited' = waited /\ DOMAIN sessions' = DOMAIN sessions
      /\ \A u \in DOMAIN sessions : u # s => sessions'[u] = sessions[u]
  BY <1>1 DEF RunSessionTimer, historyVars
<1>3. sessions'[s].write_packets =
        [p \in Pending(s) \ Exhausted(s) |->
           IF p \in Due(s) THEN Retried(sessions[s].write_packets[p])
                           ELSE sessions[s].write_packets[p]]
  BY <1>1 DEF RunSessionTimer, SessionType
<1>4. Pending(s)' = Pending(s) \ Exhausted(s)
  BY <1>1, <1>2, <1>3 DEF Pending
<1>5. \A u \in DOMAIN sessions : u # s => Pending(u)' = Pending(u)
  BY <1>2 DEF Pending
<1>6. ASSUME NEW p \in Pending(s)
      PROVE  /\ sessions[s].write_packets[p] \in Info
             /\ waited[s][p] \in 0..Patience
             /\ (sessions[s].write_packets[p].cur_tries - 1) * ResendInterval
                  + sessions[s].write_packets[p].since <= waited[s][p]
  BY <1>1, PendingType DEF DropInv, Patient, TypeInv, HistoryOK
<1>7. ASSUME NEW p \in Pending(s)'
      PROVE  (sessions'[s].write_packets[p].cur_tries - 1) * ResendInterval
               + sessions'[s].write_packets[p].since <= waited'[s][p]
  <2>1. p \in Pending(s)
    BY <1>4
  <2> DEFINE info == sessions[s].write_packets[p]
  <2>2. CASE p \in Due(s)
    <3>1. sessions'[s].write_packets[p] = Retried(info)
      BY <1>3, <1>4, <2>2
    <3>2. info.since >= ResendInterval
      BY <2>2 DEF Due
    <3>3. info.cur_tries * ResendInterval <= waited[s][p]
      BY <1>6, <2>1, <3>2, Attempts
    <3>4. /\ Retried(info).cur_tries = info.cur_tries + 1
          /\ Retried(info).since = 0
          /\ info.cur_tries \in Nat
      BY <1>6, <2>1, Numbers DEF Retried, Info
    <3> HIDE DEF info
    <3>5. (Retried(info).cur_tries - 1) * ResendInterval + Retried(info).since
            = info.cur_tries * ResendInterval
      BY <3>4, Numbers
    <3>6. QED BY <1>2, <3>1, <3>3, <3>5
  <2>3. CASE p \notin Due(s)
    BY <1>2, <1>3, <1>4, <1>6, <2>1, <2>3
  <2>4. QED BY <2>2, <2>3
<1>8. ASSUME NEW p \in Exhausted(s) PROVE waited[s][p] >= Patience
  BY <1>6, Attempts DEF Exhausted, Due
<1>9. Patient'
  BY <1>2, <1>5, <1>7 DEF DropInv, Patient
<1>10. DropsInTime
  BY <1>2, <1>4, <1>5, <1>8 DEF DropsInTime
<1>11. QED BY <1>9, <1>10

\* A second counts for the attempt and for the wait.
LEMMA SecondDrop == ASSUME DropInv, Second PROVE Patient' /\ DropsInTime
<1>1. DOMAIN sessions' = DOMAIN sessions
  BY DEF Second
<1>2. ASSUME NEW s \in DOMAIN sessions
      PROVE  sessions'[s].write_packets =
               [p \in Pending(s) |-> Older(sessions[s].write_packets[p])]
  <2>1. sessions[s] \in SessionType
    BY DEF DropInv, TypeInv, SessionsOK
  <2>2. QED BY <2>1 DEF Second, SessionType
<1>3. \A s \in DOMAIN sessions : Pending(s)' = Pending(s)
  BY <1>1, <1>2 DEF Pending
<1>4. ASSUME NEW s \in DOMAIN sessions, NEW p \in Pending(s)
      PROVE  (sessions'[s].write_packets[p].cur_tries - 1) * ResendInterval
               + sessions'[s].write_packets[p].since <= waited'[s][p]
  <2> DEFINE info == sessions[s].write_packets[p]
  <2>1. s \in Sessions /\ p \in PushIds /\ info \in Info
    BY PendingType, Numbers
       DEF DropInv, TypeInv, SessionsOK, CountersOK, Sessions
  <2>2. waited[s][p] \in 0..Patience
        /\ waited'[s][p] = Capped(waited[s][p], Patience)
    BY <2>1 DEF DropInv, TypeInv, HistoryOK, Second
  <2>3. (info.cur_tries - 1) * ResendInterval + info.since <= waited[s][p]
    BY DEF DropInv, Patient
  <2>4. (info.cur_tries - 1) * ResendInterval
           + Capped(info.since, ResendInterval) <= Capped(waited[s][p], Patience)
    BY <2>1, <2>2, <2>3, Attempts
  <2>5. sessions'[s].write_packets[p] = Older(info)
    BY <1>2
  <2>6. /\ Older(info).cur_tries = info.cur_tries
        /\ Older(info).since = Capped(info.since, ResendInterval)
    BY <2>1 DEF Older, Info
  <2> HIDE DEF info
  <2>7. QED BY <2>2, <2>4, <2>5, <2>6
<1>5. Patient'
  BY <1>1, <1>3, <1>4 DEF Patient
<1>6. DropsInTime
  BY <1>3 DEF DropsInTime
<1>7. QED BY <1>5, <1>6

LEMMA NextDrop == DropInv /\ [Next]_vars => DropInv' /\ DropsInTime
<1> SUFFICES ASSUME DropInv, [Next]_vars PROVE DropInv' /\ DropsInTime
  OBVIOUS
<1>1. TypeInv /\ TypeInv'
  BY NextTypes DEF DropInv
<1>2. Patient' /\ DropsInTime
  <2>1. CASE PublishNotification
    BY <2>1, PublishDrop
  <2>2. CASE \E s \in Sessions : RunReadPush(s)
    BY <2>2, ReadPushDrop
  <2>3. CASE \E s \in Sessions : RunSessionTimer(s)
    BY <2>3, SessionTimerDrop
  <2>4. CASE Second
    BY <2>4, SecondDrop
  <2>5. CASE PacketsKept
    BY <2>5, PacketsKeptDrop
  <2>6. QED BY <1>1, <2>1, <2>2, <2>3, <2>4, <2>5, OtherPackets
            DEF Next, RunHandler
<1>3. QED BY <1>1, <1>2 DEF DropInv

(* A session drops a notification only once it is acknowledged, or once it *)
(* waited for as long as all its attempts take: for any number of          *)
(* attempts, notifications and sessions, and however late ticks are.       *)
THEOREM ServerDropsInTime == Spec => PushesNotDroppedEarly
<1>1. DropInv /\ [Next]_vars => [DropsInTime]_vars
  BY NextDrop
<1>2. Spec => [][DropsInTime]_vars
  BY <1>1, InitDrop, NextDrop, PTL DEF Spec
<1>3. QED BY <1>2 DEF PushesNotDroppedEarly, DropsInTime

-----------------------------------------------------------------------------
(* The timer of a server that one thread starts and stops.  With a second  *)
(* thread start() may come between the two halves of stop(): then the      *)
(* timer that stop_impl stops is the new one.                              *)

OneThread == \A t, u \in Threads : t = u

\* A thread that is inside stop() leaves the flag cleared.
TimerInv ==
    /\ TypeInv
    /\ stopping # {} => ~started
    /\ StartedHasTimer

LEMMA InitTimer == Init => TimerInv
  BY InitTypes DEF Init, TimerInv, StartedHasTimer, Idle

\* Steps that neither start nor stop a timer.
TimersKept ==
    /\ UNCHANGED <<started, stopping, check_timer_id>>
    /\ DOMAIN timers' = DOMAIN timers

LEMMA OtherTimers ==
  ASSUME \/ \E cmd \in Cmds :
              RegisterReqProcessor(cmd) \/ UnregisterReqProcessor(cmd)
         \/ \E s \in Sessions, r \in Requests : SendRspForReq(s, r)
         \/ PublishNotification \/ RunHandler \/ Second \/ Network
         \/ UNCHANGED vars
  PROVE  TimersKept
<1>1. CASE \/ \E cmd \in Cmds :
                RegisterReqProcessor(cmd) \/ UnregisterReqProcessor(cmd)
           \/ \E s \in Sessions, r \in Requests : SendRspForReq(s, r)
           \/ PublishNotification
  BY <1>1 DEF RegisterReqProcessor, UnregisterReqProcessor, SendRspForReq,
     PublishNotification, TimersKept, serverVars, timerVars
<1>2. CASE RunHandler
  <2>1. CASE \E o \in Outcomes : RunAccept(o)
    BY <2>1 DEF RunAccept, TimersKept, timerVars
  <2>2. CASE \E s \in Sessions :
               \/ RunReadRequest(s) \/ RunReadPush(s) \/ RunReadError(s)
               \/ RunSessionTimer(s)
    BY <2>2 DEF RunReadRequest, RunReadPush, RunReadError, RunSessionTimer,
       TimersKept, timerVars
  <2>3. CASE \E t \in 1..MaxTimers : RunTimer(t)
    BY <2>3 DEF RunTimer, Rearmed, TimersKept
  <2>4. QED BY <1>2, <2>1, <2>2, <2>3 DEF RunHandler
<1>3. CASE Second
  BY <1>3 DEF Second, TimersKept
<1>4. CASE Network \/ UNCHANGED vars
  BY <1>4 DEF Network, ClientConnects, AcceptReady, AcceptFails, LinkBreaks,
     ClientReceives, ClientSends, vars, TimersKept, serverVars, timerVars
<1>5. QED BY <1>1, <1>2, <1>3, <1>4

LEMMA NextTimer ==
  ASSUME OneThread PROVE TimerInv /\ [Next]_vars => TimerInv'
<1> SUFFICES ASSUME TimerInv, [Next]_vars PROVE TimerInv'
  OBVIOUS
<1>1. TypeInv'
  BY NextTypes DEF TimerInv
<1>2. (stopping # {} => ~started)' /\ StartedHasTimer'
  <2>1. ASSUME NEW t \in Threads, Start(t)
        PROVE  (stopping # {} => ~started)' /\ StartedHasTimer'
    <3>1. stopping = {} /\ stopping' = stopping
      BY <2>1, OneThread
         DEF Start, TimerInv, TypeInv, FieldsOK, OneThread
    <3>2. check_timer_id' \in DOMAIN timers'
      BY <2>1 DEF Start
    <3>3. QED BY <3>1, <3>2 DEF StartedHasTimer
  <2>2. ASSUME NEW t \in Threads, CallStop(t)
        PROVE  (stopping # {} => ~started)' /\ StartedHasTimer'
    BY <2>2 DEF CallStop, StartedHasTimer
  <2>3. ASSUME NEW t \in Threads, StopImpl(t)
        PROVE  (stopping # {} => ~started)' /\ StartedHasTimer'
    BY <2>3 DEF StopImpl, TimerInv, StartedHasTimer
  <2>4. CASE TimersKept
    BY <2>4 DEF TimersKept, TimerInv, StartedHasTimer, Idle
  <2>5. QED BY <2>1, <2>2, <2>3, <2>4, OtherTimers DEF Next, CallAPI
<1>3. QED BY <1>1, <1>2 DEF TimerInv

(* A server whose start() has returned, and whose stop() was not called    *)
(* since, has the timer that removes silent sessions, if all the calls are *)
(* made by one thread.                                                     *)
THEOREM ServerHasTimer == ASSUME OneThread PROVE Spec => []StartedHasTimer
<1>1. TimerInv => StartedHasTimer
  BY DEF TimerInv
<1>2. TimerInv /\ [Next]_vars => TimerInv'
  BY NextTimer
<1>3. QED BY <1>1, <1>2, InitTimer, PTL DEF Spec

-----------------------------------------------------------------------------
(* The timer when any number of threads make the calls.  stop_impl may     *)
(* stop a timer that a start() in between began, but it closes the         *)
(* acceptor in the same step: a server whose acceptor is open, and was     *)
(* ever used, has its timer.                                               *)

WatchInv ==
    /\ Inv
    /\ acceptor_open /\ (Underway > 0 \/ DOMAIN sessions # {})
         => check_timer_id \in DOMAIN timers

LEMMA InitWatch == Init => WatchInv
  BY InitInv DEF Init, WatchInv, Underway, Outcomes

\* A step that leaves the timers to the server and uses no fresh acceptor.
LEMMA KeptWatch ==
  ASSUME WatchInv, Inv', TimersKept, acceptor_open' = acceptor_open,
         Underway' > 0 \/ DOMAIN sessions' # {}
           => Underway > 0 \/ DOMAIN sessions # {}
  PROVE  WatchInv'
  BY DEF WatchInv, TimersKept

LEMMA UndisturbedWatch ==
  ASSUME WatchInv, Inv', TimersKept, Undisturbed PROVE WatchInv'
<1>1. Underway' = Underway
  BY DEF Undisturbed, Underway
<1>2. QED BY <1>1, KeptWatch DEF Undisturbed

LEMMA NextWatch == WatchInv /\ [Next]_vars => WatchInv'
<1> SUFFICES ASSUME WatchInv, [Next]_vars PROVE WatchInv'
  OBVIOUS
<1>1. Inv'
  BY NextInv DEF WatchInv
<1>2. ASSUME NEW t \in Threads, Start(t) PROVE WatchInv'
  BY <1>1, <1>2 DEF Start, WatchInv
<1>3. ASSUME NEW t \in Threads, CallStop(t) PROVE WatchInv'
  BY <1>1, <1>3 DEF CallStop, WatchInv, Underway, acceptVars, timerVars
<1>4. ASSUME NEW t \in Threads, StopImpl(t) PROVE WatchInv'
  BY <1>1, <1>4 DEF StopImpl, WatchInv
<1>5. CASE \/ \E cmd \in Cmds :
                RegisterReqProcessor(cmd) \/ UnregisterReqProcessor(cmd)
           \/ \E s \in Sessions, r \in Requests : SendRspForReq(s, r)
           \/ PublishNotification
  BY <1>1, <1>5, OtherCalls, OtherTimers, UndisturbedWatch
<1>6. CASE RunHandler
  <2>1. ASSUME NEW o \in Outcomes, RunAccept(o) PROVE WatchInv'
    <3>1. Underway > 0
      BY <2>1 DEF RunAccept, WatchInv, Inv, CountsOK, Underway, Outcomes
    <3>2. acceptor_open' = acceptor_open
      BY <2>1 DEF RunAccept
    <3>3. QED BY <1>1, <1>6, <3>1, <3>2, OtherTimers, KeptWatch
  <2>2. CASE ~ \E o \in Outcomes : RunAccept(o)
    BY <1>1, <1>6, <2>2, OtherHandlers, OtherTimers, UndisturbedWatch
       DEF RunHandler
  <2>3. QED BY <2>1, <2>2
<1>7. CASE Second
  BY <1>1, <1>7, OtherHandlers, OtherTimers, UndisturbedWatch
<1>8. CASE Network
  <2>1. CASE AcceptReady \/ AcceptFails
    <3>1. UNCHANGED <<acceptor_open, sessions>>
      BY <2>1 DEF AcceptReady, AcceptFails, serverVars
    <3>2. Underway' = Underway
      BY <2>1 DEF AcceptReady, AcceptFails, WatchInv, Inv, CountsOK, Underway,
         Outcomes
    <3>3. QED BY <1>1, <1>8, <3>1, <3>2, OtherTimers, KeptWatch
  <2>2. CASE ~(AcceptReady \/ AcceptFails)
    <3>1. \/ ClientConnects
          \/ \E s \in Sessions :
               \/ LinkBreaks(s) \/ ClientReceives(s)
               \/ \E packet : ClientSends(s, packet)
      BY <1>8, <2>2 DEF Network
    <3>2. QED BY <1>1, <1>8, <3>1, OtherNetwork, OtherTimers, UndisturbedWatch
  <2>3. QED BY <2>1, <2>2
<1>9. CASE UNCHANGED vars
  <2>1. Undisturbed
    BY <1>9 DEF vars, serverVars, acceptVars, historyVars, Undisturbed
  <2>2. QED BY <1>1, <1>9, <2>1, OtherTimers, UndisturbedWatch
<1>10. QED BY <1>2, <1>3, <1>4, <1>5, <1>6, <1>7, <1>8, <1>9 DEF Next, CallAPI

(* No session is left without the timer that removes it when it is silent, *)
(* however the start() and stop() of any number of threads overlap.        *)
THEOREM ServerWatches == Spec => []SessionsAreWatched
<1>1. WatchInv => SessionsAreWatched
  BY DEF WatchInv, Inv, ClosedIsEmpty, SessionsAreWatched
<1>2. QED BY <1>1, InitWatch, NextWatch, PTL DEF Spec
=============================================================================
