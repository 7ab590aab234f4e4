-------------------------- MODULE ReliableTcpProofs --------------------------
(***************************************************************************)
(* Proofs about ReliableTcp.tla, for every number of requests,             *)
(* notifications and connections, and every configuration of either end.   *)
(***************************************************************************)
EXTENDS ReliableTcp, ReliableTcpClientProofs

\* What is proved about the server holds of the composition's server.
SP == INSTANCE ReliableTcpServerProofs WITH
        Cmds <- {request}, CmdOf <- [i \in Requests |-> request],
        started <- srv_started, check_timer_id <- srv_check_timer_id,
        timers <- srv_timers, cur_timer_id <- srv_cur_timer_id,
        repeated <- srv_repeated, waited <- srv_waited

LEMMA ServerConstants ==
  /\ [i \in Requests |-> request] \in [Requests -> {request}]
  /\ HeartbeatInterval \in Nat
  /\ ResendTries \in Nat \ {0} /\ ResendInterval \in Nat
  /\ MaxSessions \in Nat /\ MaxPushes \in Nat /\ MaxTimers \in Nat
  /\ MaxChannel \in Nat
  BY CompositionAssumption, ClientAssumption

-----------------------------------------------------------------------------
(* The server's steps are those that its own proofs speak of.              *)

LEMMA SameCalls ==
  /\ \A t : S!Start(t) => SP!Start(t)
  /\ \A cmd : S!RegisterReqProcessor(cmd) => SP!RegisterReqProcessor(cmd)
  /\ \A s, i : S!SendRspForReq(s, i) => SP!SendRspForReq(s, i)
  /\ S!PublishNotification => SP!PublishNotification
<1>1. \A t : S!Start(t) => SP!Start(t)
  BY DEF S!Start, SP!Start, S!DoAccept, SP!DoAccept, S!historyVars,
     SP!historyVars
<1>2. \A cmd : S!RegisterReqProcessor(cmd) => SP!RegisterReqProcessor(cmd)
  BY DEF S!RegisterReqProcessor, SP!RegisterReqProcessor, S!timerVars,
     SP!timerVars, S!acceptVars, SP!acceptVars, S!historyVars, SP!historyVars
<1>3. \A s, i : S!SendRspForReq(s, i) => SP!SendRspForReq(s, i)
  BY DEF S!SendRspForReq, SP!SendRspForReq, S!HasRoom, SP!HasRoom, S!Written,
     SP!Written, S!Response, SP!Response, S!serverVars, SP!serverVars,
     S!timerVars, SP!timerVars, S!acceptVars, SP!acceptVars, S!historyVars,
     SP!historyVars
<1>4. S!PublishNotification => SP!PublishNotification
  BY DEF S!PublishNotification, SP!PublishNotification, S!HasRoom, SP!HasRoom,
     S!Written, SP!Written, S!Push, SP!Push, S!Pending, SP!Pending, S!Sessions,
     SP!Sessions, S!timerVars, SP!timerVars, S!acceptVars, SP!acceptVars,
     S!historyVars, SP!historyVars
<1>5. QED BY <1>1, <1>2, <1>3, <1>4

LEMMA SameReads ==
  ASSUME NEW s
  PROVE  /\ S!RunReadRequest(s) => SP!RunReadRequest(s)
         /\ S!RunReadPush(s) => SP!RunReadPush(s)
         /\ S!RunReadError(s) => SP!RunReadError(s)
<1>1. S!RunReadRequest(s) => SP!RunReadRequest(s)
  BY DEF S!RunReadRequest, SP!RunReadRequest, S!TakesPacket, SP!TakesPacket,
     S!Seen, SP!Seen, S!Recorded, SP!Recorded, S!timerVars, SP!timerVars,
     S!acceptVars, SP!acceptVars
<1>2. S!RunReadPush(s) => SP!RunReadPush(s)
  BY DEF S!RunReadPush, SP!RunReadPush, S!TakesPacket, SP!TakesPacket,
     S!Pending, SP!Pending, S!timerVars, SP!timerVars, S!acceptVars,
     SP!acceptVars, S!historyVars, SP!historyVars
<1>3. S!RunReadError(s) => SP!RunReadError(s)
  BY DEF S!RunReadError, SP!RunReadError, S!timerVars, SP!timerVars,
     S!acceptVars, SP!acceptVars, S!historyVars, SP!historyVars
<1>4. QED BY <1>1, <1>2, <1>3

LEMMA SameTimers ==
  /\ \A s : S!RunSessionTimer(s) => SP!RunSessionTimer(s)
  /\ \A t : S!RunTimer(t) => SP!RunTimer(t)
  /\ S!Second => SP!Second
<1>1. ASSUME NEW s PROVE S!RunSessionTimer(s) => SP!RunSessionTimer(s)
  <2>1. S!Pending(s) = SP!Pending(s)
    BY DEF S!Pending, SP!Pending
  <2>2. S!Due(s) = SP!Due(s)
    BY <2>1 DEF S!Due, SP!Due
  <2>3. S!Exhausted(s) = SP!Exhausted(s)
    BY <2>2 DEF S!Exhausted, SP!Exhausted
  <2>4. S!Resent(s) = SP!Resent(s)
    BY <2>2, <2>3 DEF S!Resent, SP!Resent, S!Ascending, SP!Ascending
  <2>5. ASSUME S!RunSessionTimer(s) PROVE SP!RunSessionTimer(s)
    <3>1. /\ s \in DOMAIN sessions /\ sessions[s].check_timer = "due"
          /\ sessions' =
               [sessions EXCEPT
                  ![s].check_timer = SP!SessionTimerAgain,
                  ![s].write_packets =
                    [p \in SP!Pending(s) \ SP!Exhausted(s) |->
                       IF p \in SP!Due(s)
                       THEN SP!Retried(sessions[s].write_packets[p])
                       ELSE sessions[s].write_packets[p]]]
      BY <2>1, <2>2, <2>3, <2>5
         DEF S!RunSessionTimer, S!SessionTimerAgain, SP!SessionTimerAgain,
         S!Retried, SP!Retried
    <3>2. conn' = [conn EXCEPT ![s] = SP!Written(@,
             [n \in 1..Len(SP!Resent(s)) |-> SP!Push(SP!Resent(s)[n])])]
      BY <2>4, <2>5
         DEF S!RunSessionTimer, S!Written, SP!Written, S!Push, SP!Push
    <3>3. UNCHANGED <<srv_started, cur_session_id, cur_seq, srv_check_timer_id,
             req_2_processor, SP!timerVars, SP!acceptVars, stopping, taken,
             SP!historyVars>>
      BY <2>5
         DEF S!RunSessionTimer, S!timerVars, SP!timerVars, S!acceptVars,
         SP!acceptVars, S!historyVars, SP!historyVars
    <3>4. QED BY <3>1, <3>2, <3>3 DEF SP!RunSessionTimer
  <2>6. QED BY <2>5
<1>2. \A t : S!RunTimer(t) => SP!RunTimer(t)
  BY DEF S!RunTimer, SP!RunTimer, S!Rearmed, SP!Rearmed, S!Silent, SP!Silent,
     S!ConnWithout, SP!ConnWithout, S!NoConnection, SP!NoConnection,
     S!Sessions, SP!Sessions, S!acceptVars, SP!acceptVars, S!historyVars,
     SP!historyVars
<1>3. S!Second => SP!Second
  BY DEF S!Second, SP!Second, S!Capped, SP!Capped, S!Aged, SP!Aged,
     S!Pending, SP!Pending, S!Older, SP!Older, S!Sessions, SP!Sessions,
     S!PushIds, SP!PushIds, S!Patience, SP!Patience, S!acceptVars,
     SP!acceptVars
<1>4. QED BY <1>1, <1>2, <1>3

LEMMA SameNetwork ==
  /\ S!ClientConnects => SP!ClientConnects
  /\ S!AcceptReady => SP!AcceptReady
  /\ S!RunAccept("ok") => SP!RunAccept("ok")
  /\ \A s : S!LinkBreaks(s) => SP!LinkBreaks(s)
<1>1. S!ClientConnects => SP!ClientConnects
  BY DEF S!ClientConnects, SP!ClientConnects, S!serverVars, SP!serverVars,
     S!timerVars, SP!timerVars, S!historyVars, SP!historyVars
<1>2. S!AcceptReady => SP!AcceptReady
  BY DEF S!AcceptReady, SP!AcceptReady, S!serverVars, SP!serverVars,
     S!timerVars, SP!timerVars, S!historyVars, SP!historyVars
<1>3. S!RunAccept("ok") => SP!RunAccept("ok")
  BY DEF S!RunAccept, SP!RunAccept, S!StillOpen, SP!StillOpen,
     S!AcceptsAgain, SP!AcceptsAgain, S!Outcomes, SP!Outcomes,
     S!NewSession, SP!NewSession, S!Forgotten, SP!Forgotten,
     S!NewConnection, SP!NewConnection, S!NoConnection, SP!NoConnection,
     S!timerVars, SP!timerVars, S!historyVars, SP!historyVars
<1>4. \A s : S!LinkBreaks(s) => SP!LinkBreaks(s)
  BY DEF S!LinkBreaks, SP!LinkBreaks, S!serverVars, SP!serverVars,
     S!timerVars, SP!timerVars, S!acceptVars, SP!acceptVars, S!historyVars,
     SP!historyVars
<1>5. QED BY <1>1, <1>2, <1>3, <1>4

\* What the server does by itself, but for the acceptance of the connection.
ServerSteps ==
    \/ \E t \in Threads : S!Start(t)
    \/ S!RegisterReqProcessor(request)
    \/ \E s \in S!Sessions, i \in Requests : S!SendRspForReq(s, i)
    \/ S!PublishNotification
    \/ \E s \in S!Sessions :
         \/ S!RunReadRequest(s) \/ S!RunReadPush(s) \/ S!RunReadError(s)
         \/ S!RunSessionTimer(s) \/ S!LinkBreaks(s)
    \/ \E t \in 1..MaxTimers : S!RunTimer(t)
    \/ S!ClientConnects \/ S!AcceptReady \/ S!RunAccept("ok") \/ S!Second

LEMMA ServerTypes ==
  ASSUME SP!TypeInv, ServerSteps PROVE SP!TypeInv'
<1> S!Sessions = SP!Sessions
  BY DEF S!Sessions, SP!Sessions
<1>1. CASE \E t \in Threads : S!Start(t)
  BY <1>1, SameCalls, SP!StartTypes, ServerConstants, WindowAssumption
<1>2. CASE S!RegisterReqProcessor(request)
  BY <1>2, SameCalls, SP!RegistrationTypes, ServerConstants, WindowAssumption
<1>3. CASE \E s \in S!Sessions, i \in Requests : S!SendRspForReq(s, i)
  BY <1>3, SameCalls, SP!SendRspTypes, ServerConstants, WindowAssumption
<1>4. CASE S!PublishNotification
  BY <1>4, SameCalls, SP!PublishTypes, ServerConstants, WindowAssumption
<1>5. ASSUME NEW s \in S!Sessions,
             S!RunReadRequest(s) \/ S!RunReadPush(s) \/ S!RunReadError(s)
      PROVE  SP!TypeInv'
  BY <1>5, SameReads, SP!ReadRequestTypes, SP!ReadPushTypes,
     SP!ReadErrorTypes, ServerConstants, WindowAssumption
<1>6. ASSUME NEW s \in S!Sessions, S!RunSessionTimer(s) PROVE SP!TypeInv'
  BY <1>6, SameTimers, SP!SessionTimerTypes, ServerConstants, WindowAssumption
<1>7. ASSUME NEW s \in S!Sessions, S!LinkBreaks(s) PROVE SP!TypeInv'
  BY <1>7, SameNetwork, SP!ConnectionTypes, ServerConstants, WindowAssumption
<1>8. CASE \E t \in 1..MaxTimers : S!RunTimer(t)
  BY <1>8, SameTimers, SP!TimerTypes, ServerConstants, WindowAssumption
<1>9. CASE S!ClientConnects \/ S!AcceptReady
  BY <1>9, SameNetwork, SP!AcceptorTypes, ServerConstants, WindowAssumption
<1>10. CASE S!RunAccept("ok")
  <2>1. "ok" \in SP!Outcomes
    BY DEF SP!Outcomes
  <2>2. QED
    BY <1>10, <2>1, SameNetwork, SP!RunAcceptTypes, ServerConstants,
       WindowAssumption
<1>11. CASE S!Second
  BY <1>11, SameTimers, SP!SecondTypes, ServerConstants, WindowAssumption
<1>12. QED
  BY <1>1, <1>2, <1>3, <1>4, <1>5, <1>6, <1>7, <1>8, <1>9, <1>10, <1>11
     DEF ServerSteps

-----------------------------------------------------------------------------
(* Types.                                                                  *)

LEMMA Numbering ==
  /\ S!Sessions = 1..MaxSessions /\ SP!Sessions = S!Sessions
  /\ SP!PushIds = Pushes /\ S!PushIds = Pushes
  /\ SP!ToServer = S!ToServer /\ SP!ToClient = S!ToClient
  /\ \A ids : SP!Ages(ids) = Ages(ids)
  BY CompositionAssumption
     DEF S!Sessions, SP!Sessions, S!PushIds, SP!PushIds, S!ToServer,
     SP!ToServer, S!ToClient, SP!ToClient, S!Heartbeat, SP!Heartbeat, SP!Ages,
     Ages

LEMMA ConnParts ==
  ASSUME SP!TypeInv
  PROVE  /\ conn = [s \in S!Sessions |-> conn[s]]
         /\ \A s \in S!Sessions :
              /\ conn[s] = [link |-> conn[s].link,
                            to_server |-> conn[s].to_server,
                            to_client |-> conn[s].to_client]
              /\ conn[s].link \in {"closed", "up", "down"}
              /\ conn[s].to_server \in Seq(S!ToServer)
              /\ conn[s].to_client \in Seq(S!ToClient)
<1>1. conn \in [S!Sessions -> SP!Connection]
  BY Numbering DEF SP!TypeInv, SP!ConnOK
<1>2. \A s \in S!Sessions : conn[s] \in SP!Connection
  BY <1>1
<1>3. QED BY <1>1, <1>2, Numbering DEF SP!Connection

LEMMA SessionFacts ==
  ASSUME SP!TypeInv
  PROVE  /\ DOMAIN sessions \subseteq S!Sessions
         /\ DOMAIN sessions \subseteq 1..cur_session_id
         /\ \A s \in DOMAIN sessions :
              /\ DOMAIN sessions[s] = { "last_recv", "rencently_packet_tracker",
                   "write_packets", "read_pending", "check_timer" }
              /\ sessions[s].last_recv \in 0..HeartbeatInterval
              /\ sessions[s].rencently_packet_tracker \in Ages(Requests)
              /\ sessions[s].read_pending \in BOOLEAN
              /\ sessions[s].check_timer \in {"armed", "due"}
              /\ S!Pending(s) = DOMAIN sessions[s].write_packets
              /\ DOMAIN sessions[s].write_packets \subseteq Pushes
              /\ \A p \in DOMAIN sessions[s].write_packets :
                   sessions[s].write_packets[p] \in
                     [cur_tries : 1..ResendTries, since : 0..ResendInterval]
<1>1. /\ DOMAIN sessions \subseteq 1..cur_session_id
      /\ cur_session_id \in 0..MaxSessions
      /\ \A s \in DOMAIN sessions : sessions[s] \in SP!SessionType
  BY DEF SP!TypeInv, SP!SessionsOK, SP!CountersOK
<1>2. DOMAIN sessions \subseteq S!Sessions
  BY <1>1, Numbering, ServerConstants
<1>3. ASSUME NEW s \in DOMAIN sessions
      PROVE  /\ S!Pending(s) = DOMAIN sessions[s].write_packets
             /\ SP!Pending(s) = DOMAIN sessions[s].write_packets
  BY DEF S!Pending, SP!Pending
<1>4. ASSUME NEW s \in DOMAIN sessions
      PROVE  /\ DOMAIN sessions[s].write_packets \subseteq Pushes
             /\ \A p \in DOMAIN sessions[s].write_packets :
                   sessions[s].write_packets[p] \in SP!Info
  <2>1. SP!SessionsOK
    BY DEF SP!TypeInv
  <2>2. QED
    BY <1>3, <2>1, SP!PendingType, Numbering, ServerConstants,
       WindowAssumption
<1>5. ASSUME NEW s \in DOMAIN sessions
      PROVE  /\ DOMAIN sessions[s] = { "last_recv", "rencently_packet_tracker",
                   "write_packets", "read_pending", "check_timer" }
             /\ sessions[s].last_recv \in 0..HeartbeatInterval
             /\ sessions[s].rencently_packet_tracker \in Ages(Requests)
             /\ sessions[s].read_pending \in BOOLEAN
             /\ sessions[s].check_timer \in {"armed", "due"}
  BY <1>1, Numbering DEF SP!SessionType
<1>6. QED BY <1>1, <1>2, <1>3, <1>4, <1>5 DEF SP!Info

LEMMA ServerFields ==
  ASSUME SP!TypeInv
  PROVE  /\ cur_session_id \in 0..MaxSessions /\ cur_seq \in 0..MaxPushes
         /\ MaxSessions \in Nat /\ MaxPushes \in Nat
         /\ taken \subseteq S!Sessions \X Requests
         /\ accepted["ok"] \in Nat
         /\ cur_session_id + accepted["ok"] <= MaxSessions
  BY Numbering, ServerConstants
     DEF SP!TypeInv, SP!CountersOK, SP!CountsOK, SP!FieldsOK, SP!Room,
     SP!Outcomes

\* Only the connections change.
LEMMA ConnectionTypes ==
  ASSUME SP!TypeInv, UNCHANGED restVars, SP!ConnOK' PROVE SP!TypeInv'
  BY DEF restVars, SP!TypeInv, SP!FieldsOK, SP!CountersOK, SP!CountsOK,
     SP!Room, SP!TimersOK, SP!SessionsOK, SP!HistoryOK

-----------------------------------------------------------------------------
(* What is in a sequence.                                                  *)

Holds(seq, x) == \E n \in 1..Len(seq) : seq[n] = x

LEMMA HoldsNone == ASSUME NEW x PROVE ~Holds(<<>>, x)
  BY DEF Holds

LEMMA HoldsOne == ASSUME NEW x, NEW y PROVE Holds(<<y>>, x) <=> x = y
  BY DEF Holds

LEMMA HoldsHead ==
  ASSUME NEW T, NEW q \in Seq(T), q # <<>> PROVE Holds(q, Head(q))
  BY DEF Holds

LEMMA HoldsTail ==
  ASSUME NEW T, NEW q \in Seq(T), q # <<>>, NEW x
  PROVE  /\ Holds(Tail(q), x) => Holds(q, x)
         /\ Holds(q, x) => x = Head(q) \/ Holds(Tail(q), x)
<1>1. Len(q) \in Nat \ {0} /\ Len(Tail(q)) = Len(q) - 1 /\ Head(q) = q[1]
      /\ \A n \in 1..(Len(q) - 1) : Tail(q)[n] = q[n + 1]
  OBVIOUS
<1>2. ASSUME Holds(Tail(q), x) PROVE Holds(q, x)
  <2>1. PICK n \in 1..(Len(q) - 1) : Tail(q)[n] = x
    BY <1>1, <1>2 DEF Holds
  <2>2. n + 1 \in 1..Len(q) /\ q[n + 1] = x
    BY <1>1, <2>1
  <2>3. QED BY <2>2 DEF Holds
<1>3. ASSUME Holds(q, x), x # Head(q) PROVE Holds(Tail(q), x)
  <2>1. PICK n \in 1..Len(q) : q[n] = x
    BY <1>3 DEF Holds
  <2>2. n # 1
    BY <1>1, <1>3, <2>1
  <2>3. n - 1 \in 1..Len(Tail(q)) /\ (n - 1) + 1 = n
    BY <1>1, <2>2
  <2>4. Tail(q)[n - 1] = x
    BY <1>1, <2>1, <2>3
  <2>5. QED BY <2>3, <2>4 DEF Holds
<1>4. QED BY <1>2, <1>3

LEMMA HoldsJoined ==
  ASSUME NEW T, NEW q \in Seq(T), NEW r \in Seq(T), NEW x
  PROVE  Holds(q \o r, x) <=> Holds(q, x) \/ Holds(r, x)
<1>1. /\ Len(q) \in Nat /\ Len(r) \in Nat /\ Len(q \o r) = Len(q) + Len(r)
      /\ \A n \in 1..Len(q) : (q \o r)[n] = q[n]
      /\ \A k \in 1..Len(r) : (q \o r)[Len(q) + k] = r[k]
  BY Joined
<1>2. ASSUME NEW n \in 1..Len(q \o r), (q \o r)[n] = x
      PROVE  Holds(q, x) \/ Holds(r, x)
  <2>1. CASE n \in 1..Len(q)
    BY <1>1, <1>2, <2>1 DEF Holds
  <2>2. CASE n \notin 1..Len(q)
    <3>1. n - Len(q) \in 1..Len(r) /\ Len(q) + (n - Len(q)) = n
      BY <1>1, <2>2
    <3>2. r[n - Len(q)] = x
      BY <1>1, <1>2, <3>1
    <3>3. QED BY <3>1, <3>2 DEF Holds
  <2>3. QED BY <2>1, <2>2
<1>3. ASSUME NEW n \in 1..Len(q), q[n] = x PROVE Holds(q \o r, x)
  <2>1. n \in 1..Len(q \o r) /\ (q \o r)[n] = x
    BY <1>1, <1>3
  <2>2. QED BY <2>1 DEF Holds
<1>4. ASSUME NEW k \in 1..Len(r), r[k] = x PROVE Holds(q \o r, x)
  <2>1. Len(q) + k \in 1..Len(q \o r) /\ (q \o r)[Len(q) + k] = x
    BY <1>1, <1>4
  <2>2. QED BY <2>1 DEF Holds
<1>5. QED BY <1>2, <1>3, <1>4 DEF Holds

LEMMA HoldsAppended ==
  ASSUME NEW T, NEW q \in Seq(T), NEW y \in T, NEW x
  PROVE  Holds(Append(q, y), x) <=> Holds(q, x) \/ x = y
<1>1. /\ Len(q) \in Nat /\ Len(Append(q, y)) = Len(q) + 1
      /\ \A n \in 1..Len(q) : Append(q, y)[n] = q[n]
      /\ Append(q, y)[Len(q) + 1] = y
  OBVIOUS
<1>2. ASSUME NEW n \in 1..Len(Append(q, y)), Append(q, y)[n] = x
      PROVE  Holds(q, x) \/ x = y
  <2>1. n \in 1..Len(q) \/ n = Len(q) + 1
    BY <1>1
  <2>2. QED BY <1>1, <1>2, <2>1 DEF Holds
<1>3. ASSUME NEW n \in 1..Len(q), q[n] = x PROVE Holds(Append(q, y), x)
  <2>1. n \in 1..Len(Append(q, y)) /\ Append(q, y)[n] = x
    BY <1>1, <1>3
  <2>2. QED BY <2>1 DEF Holds
<1>4. Holds(Append(q, y), y)
  <2>1. Len(q) + 1 \in 1..Len(Append(q, y))
    BY <1>1
  <2>2. QED BY <1>1, <2>1 DEF Holds
<1>5. QED BY <1>2, <1>3, <1>4 DEF Holds

-----------------------------------------------------------------------------
(* What the server does by itself, as the invariants see it.               *)

\* A packet that a session has yet to read.
Arriving(s, packet) ==
    /\ s \in DOMAIN sessions /\ sessions[s].read_pending
    /\ Holds(conn[s].to_server, packet)

Age(s, i) == sessions[s].rencently_packet_tracker[i]

\* A notification is published to a session, or a session sends it again.
Pushed(s, p) ==
    /\ s \in DOMAIN sessions /\ s \in DOMAIN sessions'
    /\ p \in DOMAIN sessions'[s].write_packets
    /\ LET info == sessions'[s].write_packets[p]
           old == sessions[s].write_packets[p]
       IN
       /\ info.since = 0
       /\ \/ p = cur_seq + 1 /\ p = cur_seq' /\ info.cur_tries = 1
          \/ /\ p \in DOMAIN sessions[s].write_packets
             /\ sessions[s].check_timer = "due" /\ old.since >= ResendInterval
             /\ info.cur_tries = old.cur_tries + 1

ChannelsMove ==
    \A s \in S!Sessions :
      /\ conn'[s].link = "up" => conn[s].link = "up"
      /\ \A m : Holds(conn'[s].to_server, m) => Holds(conn[s].to_server, m)
      /\ \A m : Holds(conn'[s].to_client, m) =>
           \/ Holds(conn[s].to_client, m)
           \/ \E i \in Requests : m = S!Response(i) /\ <<s, i>> \in taken
           \/ \E p \in Pushes : m = S!Push(p) /\ Pushed(s, p)

ProcessesNow(s, i) ==
    /\ Arriving(s, S!Request(i)) /\ ~Seen(sessions[s].rencently_packet_tracker, i)
    /\ s \in DOMAIN sessions'
    /\ sessions'[s].rencently_packet_tracker[i] = 0

RequestsMove ==
    /\ DOMAIN processed' = S!Sessions
    /\ \A s \in S!Sessions :
         /\ DOMAIN processed'[s] = Requests
         /\ \A i \in Requests :
              /\ \/ processed'[s][i] = processed[s][i]
                 \/ processed'[s][i] = processed[s][i] + 1 /\ ProcessesNow(s, i)
              /\ <<s, i>> \in taken' =>
                   \/ <<s, i>> \in taken
                   \/ /\ Holds(conn[s].to_server, S!Request(i))
                      /\ processed'[s][i] = processed[s][i] + 1

\* What becomes of a session.
SessionMoves(s) ==
    LET old == sessions[s]
        new == sessions'[s]
    IN
    /\ \A i \in Requests : new.rencently_packet_tracker[i] \in
                             {old.rencently_packet_tracker[i], 0}
    /\ new.last_recv \in {old.last_recv, 0}
    /\ Holds(conn[s].to_server, S!Heartbeat) =>
         Holds(conn'[s].to_server, S!Heartbeat) \/ new.last_recv = 0
    /\ \/ new.read_pending = old.read_pending
       \/ ~new.read_pending /\ conn[s].link = "down"
    /\ \A p \in DOMAIN new.write_packets :
         \/ /\ p \in DOMAIN old.write_packets
            /\ new.write_packets[p] = old.write_packets[p]
         \/ Pushed(s, p)
    /\ \/ new.check_timer = old.check_timer
       \/ /\ new.check_timer = "armed"
          /\ \A p \in DOMAIN new.write_packets :
               new.write_packets[p].since >= ResendInterval => Pushed(s, p)

SessionsMove ==
    /\ DOMAIN sessions' \subseteq DOMAIN sessions
    /\ \A s \in DOMAIN sessions' : SessionMoves(s)

ServerMoves ==
    /\ UNCHANGED <<vars, outcome, notified, cur_session_id, acceptor_open>>
    /\ cur_seq <= cur_seq'
    /\ ChannelsMove /\ RequestsMove /\ SessionsMove

ProcessedType == processed \in [S!Sessions -> [Requests -> Nat]]

\* What is not said to move stays as it is.
LEMMA StillSessions ==
  ASSUME SP!TypeInv, UNCHANGED <<sessions, conn>> PROVE SessionsMove
  BY SessionFacts DEF SessionsMove, SessionMoves

LEMMA StillRequests ==
  ASSUME ProcessedType, UNCHANGED processed, taken' \subseteq taken
  PROVE  RequestsMove
  BY DEF RequestsMove, ProcessedType

LEMMA StillServer ==
  ASSUME SP!TypeInv, ProcessedType,
         UNCHANGED <<vars, outcome, processed, notified, cur_session_id, cur_seq,
                     acceptor_open, sessions, conn, taken>>
  PROVE  ServerMoves
<1>1. ChannelsMove
  BY DEF ChannelsMove
<1>2. cur_seq \in Nat /\ cur_seq' = cur_seq
  BY ServerFields
<1>3. QED BY <1>1, <1>2, StillSessions, StillRequests DEF ServerMoves

\* What is written to a connection.
LEMMA WritingAdds ==
  ASSUME SP!TypeInv, NEW s \in S!Sessions, NEW packets \in Seq(S!ToClient)
  PROVE  LET c == S!Written(conn[s], packets) IN
         /\ c.link = conn[s].link /\ c.to_server = conn[s].to_server
         /\ \A m : Holds(c.to_client, m) =>
                   Holds(conn[s].to_client, m) \/ Holds(packets, m)
<1> DEFINE old == conn[s]
<1>1. /\ old = [link |-> old.link, to_server |-> old.to_server,
                to_client |-> old.to_client]
      /\ old.to_client \in Seq(S!ToClient)
  BY ConnParts
<1>2. CASE old.link = "up"
  <2>1. /\ S!Written(old, packets).link = old.link
        /\ S!Written(old, packets).to_server = old.to_server
        /\ S!Written(old, packets).to_client = old.to_client \o packets
    BY <1>1, <1>2 DEF S!Written
  <2>2. QED BY <1>1, <2>1, HoldsJoined
<1>3. CASE old.link # "up"
  BY <1>3 DEF S!Written
<1>4. QED BY <1>2, <1>3

LEMMA SendRspMoves ==
  ASSUME SP!TypeInv, ProcessedType, SendResponse PROVE ServerMoves
<1>1. PICK s \in S!Sessions, i \in Requests : S!SendRspForReq(s, i)
  BY DEF SendResponse
<1>2. /\ UNCHANGED <<vars, resultVars>>
      /\ UNCHANGED <<sessions, cur_session_id, cur_seq, acceptor_open>>
      /\ taken' \subseteq taken /\ <<s, i>> \in taken
  BY <1>1 DEF SendResponse, S!SendRspForReq, S!serverVars, S!acceptVars
<1> DEFINE written == S!Written(conn[s], <<S!Response(i)>>)
<1>3. /\ written.link = conn[s].link /\ written.to_server = conn[s].to_server
      /\ \A m : Holds(written.to_client, m) =>
               Holds(conn[s].to_client, m) \/ m = S!Response(i)
  <2>1. <<S!Response(i)>> \in Seq(S!ToClient)
    BY DEF S!Response, S!ToClient
  <2>2. QED BY <2>1, WritingAdds, HoldsOne
<1>4. \A u \in S!Sessions : conn'[u] = conn[u] \/ (u = s /\ conn'[u] = written)
  <2>1. conn' = conn \/ conn' = [conn EXCEPT ![s] = written]
    BY <1>1 DEF S!SendRspForReq
  <2>2. conn = [u \in S!Sessions |-> conn[u]]
    BY ConnParts
  <2> HIDE DEF written
  <2>3. QED BY <2>1, <2>2
<1> HIDE DEF written
<1>5. /\ \A u \in S!Sessions :
           conn'[u].link = conn[u].link /\ conn'[u].to_server = conn[u].to_server
      /\ \A u \in S!Sessions : \A m : Holds(conn'[u].to_client, m) =>
           Holds(conn[u].to_client, m) \/ (u = s /\ m = S!Response(i))
  BY <1>3, <1>4
<1>6. ChannelsMove
  <2>1. ASSUME NEW u \in S!Sessions, NEW m, Holds(conn'[u].to_client, m)
        PROVE  \/ Holds(conn[u].to_client, m)
               \/ \E r \in Requests : m = S!Response(r) /\ <<u, r>> \in taken
    BY <1>2, <1>5, <2>1
  <2>2. QED BY <1>5, <2>1 DEF ChannelsMove
<1>7. SessionsMove
  BY <1>2, <1>5, SessionFacts DEF SessionsMove, SessionMoves
<1>8. RequestsMove
  BY <1>2, StillRequests DEF resultVars
<1>9. cur_seq \in Nat /\ cur_seq' = cur_seq
  BY <1>2, ServerFields
<1>10. QED BY <1>2, <1>6, <1>7, <1>8, <1>9 DEF ServerMoves, resultVars

\* The packets that travel.
LEMMA PacketsAre ==
  /\ \A m \in S!ToServer :
       /\ m.kind = "request" => m.id \in Requests /\ m = S!Request(m.id)
       /\ m.kind = "ack" => m.id \in Pushes
       /\ m.kind = "heartbeat" => m = S!Heartbeat
       /\ m = S!Heartbeat => m.kind = "heartbeat"
  /\ \A m \in S!ToClient :
       \/ m.id \in Requests /\ m = S!Response(m.id)
       \/ m.id \in Pushes /\ m = S!Push(m.id)
<1>1. ASSUME NEW m \in S!ToServer
      PROVE  /\ m.kind = "request" => m.id \in Requests /\ m = S!Request(m.id)
             /\ m.kind = "ack" => m.id \in Pushes
             /\ m.kind = "heartbeat" => m = S!Heartbeat
             /\ m = S!Heartbeat => m.kind = "heartbeat"
  BY Numbering DEF S!ToServer, S!Request, S!Heartbeat
<1>2. ASSUME NEW m \in S!ToClient
      PROVE  \/ m.id \in Requests /\ m = S!Response(m.id)
             \/ m.id \in Pushes /\ m = S!Push(m.id)
  BY Numbering DEF S!ToClient, S!Response, S!Push
<1>3. QED BY <1>1, <1>2

LEMMA TakingMoves ==
  ASSUME SP!TypeInv, NEW s \in S!Sessions, NEW kind, S!TakesPacket(s, kind)
  PROVE  LET m == Head(conn[s].to_server) IN
         /\ s \in DOMAIN sessions /\ m \in S!ToServer /\ m.kind = kind
         /\ Arriving(s, m)
         /\ \A u \in S!Sessions :
              /\ conn'[u].link = conn[u].link
              /\ conn'[u].to_client = conn[u].to_client
              /\ \A x : Holds(conn'[u].to_server, x) => Holds(conn[u].to_server, x)
              /\ \A x : Holds(conn[u].to_server, x) =>
                   Holds(conn'[u].to_server, x) \/ (u = s /\ x = m)
<1> DEFINE c == [conn[s] EXCEPT !.to_server = Tail(conn[s].to_server)]
<1>1. /\ s \in DOMAIN sessions /\ sessions[s].read_pending
      /\ conn[s].to_server # <<>> /\ Head(conn[s].to_server).kind = kind
      /\ conn' = [conn EXCEPT ![s] = c]
  BY DEF S!TakesPacket
<1>2. conn[s].to_server \in Seq(S!ToServer)
  BY ConnParts
<1>3. Head(conn[s].to_server) \in S!ToServer /\ Arriving(s, Head(conn[s].to_server))
  BY <1>1, <1>2, HoldsHead DEF Arriving
<1>4. /\ c.link = conn[s].link /\ c.to_client = conn[s].to_client
      /\ c.to_server = Tail(conn[s].to_server)
  BY ConnParts
<1>5. \A u \in S!Sessions : conn'[u] = IF u = s THEN c ELSE conn[u]
  <2>1. conn = [u \in S!Sessions |-> conn[u]]
    BY ConnParts
  <2> HIDE DEF c
  <2>2. QED BY <1>1, <2>1
<1> HIDE DEF c
<1>6. \A x : /\ Holds(c.to_server, x) => Holds(conn[s].to_server, x)
             /\ Holds(conn[s].to_server, x) =>
                  Holds(c.to_server, x) \/ x = Head(conn[s].to_server)
  BY <1>1, <1>2, <1>4, HoldsTail
<1>7. QED BY <1>1, <1>3, <1>4, <1>5, <1>6

LEMMA ReadRequestMoves ==
  ASSUME SP!TypeInv, ProcessedType,
         NEW s \in S!Sessions, S!RunReadRequest(s),
         processed' = [processed EXCEPT ![s] = [i \in Requests |->
                         IF Processes(s, i) THEN processed[s][i] + 1
                                            ELSE processed[s][i]]],
         UNCHANGED <<vars, outcome, notified>>
  PROVE  ServerMoves
<1> DEFINE m == Head(conn[s].to_server)
           r == m.id
           old == sessions[s]
           tracker == old.rencently_packet_tracker
<1>1. /\ S!TakesPacket(s, "request")
      /\ UNCHANGED <<cur_session_id, cur_seq, acceptor_open>>
      /\ taken' = taken \/ (taken' = taken \union {<<s, r>>} /\ Processes(s, r))
  <2>1. ~Seen(tracker, r) <=> ~S!Seen(tracker, r)
    BY DEF Seen, S!Seen
  <2>2. S!TakesPacket(s, "request")
    BY DEF S!RunReadRequest
  <2>3. m = S!Request(r) /\ r \in Requests
    BY <2>2, TakingMoves, PacketsAre
  <2>4. QED
    BY <2>1, <2>2, <2>3 DEF S!RunReadRequest, Processes, S!acceptVars
<1>2. /\ s \in DOMAIN sessions /\ m = S!Request(r) /\ r \in Requests
      /\ m # S!Heartbeat /\ Arriving(s, m)
  BY <1>1, TakingMoves, PacketsAre
<1>3. \A i \in Requests : Processes(s, i) => i = r /\ ~Seen(tracker, r)
  BY <1>2 DEF Processes, S!Request
<1>4. /\ DOMAIN sessions' = DOMAIN sessions
      /\ \A u \in DOMAIN sessions : u # s => sessions'[u] = sessions[u]
      /\ sessions'[s].rencently_packet_tracker = Recorded(tracker, r)
      /\ sessions'[s].last_recv \in {old.last_recv, 0}
      /\ sessions'[s].read_pending = old.read_pending
      /\ sessions'[s].write_packets = old.write_packets
      /\ sessions'[s].check_timer = old.check_timer
  <2>1. S!Recorded(tracker, r) = Recorded(tracker, r)
    BY DEF S!Recorded, Recorded, S!Seen, Seen
  <2>2. DOMAIN old = { "last_recv", "rencently_packet_tracker",
                       "write_packets", "read_pending", "check_timer" }
    BY <1>2, SessionFacts
  <2>3. sessions' = [sessions EXCEPT ![s] =
          [old EXCEPT !.rencently_packet_tracker = S!Recorded(tracker, r),
                      !.last_recv = IF S!Seen(tracker, r) THEN old.last_recv ELSE 0]]
    BY DEF S!RunReadRequest
  <2> HIDE DEF r
  <2>4. QED BY <1>2, <2>1, <2>2, <2>3
<1>5. \A i \in Requests :
        /\ Recorded(tracker, r)[i] \in {tracker[i], 0}
        /\ i = r /\ ~Seen(tracker, r) => Recorded(tracker, r)[i] = 0
  <2>1. tracker \in Ages(Requests)
    BY <1>2, SessionFacts
  <2>2. QED BY <2>1 DEF Recorded, Ages
<1>6. \A u \in S!Sessions :
        /\ conn'[u].link = conn[u].link /\ conn'[u].to_client = conn[u].to_client
        /\ \A x : Holds(conn'[u].to_server, x) => Holds(conn[u].to_server, x)
        /\ Holds(conn[u].to_server, S!Heartbeat) =>
             Holds(conn'[u].to_server, S!Heartbeat)
  BY <1>1, <1>2, TakingMoves
<1>7. ChannelsMove
  BY <1>6 DEF ChannelsMove
<1>8. /\ \A u \in S!Sessions : u # s => processed'[u] = processed[u]
      /\ DOMAIN processed' = S!Sessions
      /\ \A u \in S!Sessions : DOMAIN processed'[u] = Requests
      /\ \A i \in Requests : processed'[s][i] =
           IF Processes(s, i) THEN processed[s][i] + 1 ELSE processed[s][i]
  BY DEF ProcessedType
<1>9. \A i \in Requests : Processes(s, i) =>
        ProcessesNow(s, i) /\ Holds(conn[s].to_server, S!Request(i))
  BY <1>2, <1>3, <1>4, <1>5 DEF ProcessesNow, Arriving
<1>10. RequestsMove
  <2>1. ASSUME NEW u \in S!Sessions, NEW i \in Requests,
               <<u, i>> \in taken', <<u, i>> \notin taken
        PROVE  u = s /\ Processes(s, i)
    <3>1. <<u, i>> = <<s, r>> /\ Processes(s, r)
      BY <1>1, <2>1
    <3>2. QED BY <3>1
  <2> HIDE DEF r, m
  <2>2. QED BY <1>8, <1>9, <2>1 DEF RequestsMove
<1>11. SessionsMove
  <2>1. \A u \in DOMAIN sessions : u # s => SessionMoves(u)
    BY <1>4, <1>6, SessionFacts DEF SessionMoves
  <2>2. SessionMoves(s)
    BY <1>4, <1>5, <1>6 DEF SessionMoves
  <2>3. QED BY <1>4, <2>1, <2>2 DEF SessionsMove
<1>12. cur_seq \in Nat /\ cur_seq' = cur_seq
  BY <1>1, ServerFields
<1>13. QED BY <1>1, <1>7, <1>10, <1>11, <1>12 DEF ServerMoves

\* What an acknowledgement or a heartbeat leaves of a session.
LEMMA ReadPushSessions ==
  ASSUME SP!TypeInv, NEW s \in S!Sessions, S!RunReadPush(s)
  PROVE  /\ \E kind \in {"ack", "heartbeat"} : S!TakesPacket(s, kind)
         /\ s \in DOMAIN sessions
         /\ UNCHANGED <<cur_session_id, cur_seq, acceptor_open, taken>>
         /\ DOMAIN sessions' = DOMAIN sessions
         /\ \A u \in DOMAIN sessions : u # s => sessions'[u] = sessions[u]
         /\ LET old == sessions[s]
                new == sessions'[s]
            IN
            /\ new.rencently_packet_tracker = old.rencently_packet_tracker
            /\ new.last_recv = 0
            /\ new.read_pending = old.read_pending
            /\ new.check_timer = old.check_timer
            /\ DOMAIN new.write_packets \subseteq DOMAIN old.write_packets
            /\ \A p \in DOMAIN new.write_packets :
                 new.write_packets[p] = old.write_packets[p]
<1> DEFINE old == sessions[s]
<1>1. \E kind \in {"ack", "heartbeat"} : S!TakesPacket(s, kind)
  BY DEF S!RunReadPush
<1>2. /\ s \in DOMAIN sessions
      /\ DOMAIN old = { "last_recv", "rencently_packet_tracker",
                        "write_packets", "read_pending", "check_timer" }
      /\ S!Pending(s) = DOMAIN old.write_packets
  BY <1>1, TakingMoves, SessionFacts
<1>3. UNCHANGED <<cur_session_id, cur_seq, acceptor_open, taken>>
  BY DEF S!RunReadPush, S!acceptVars
<1>4. PICK kept :
        /\ DOMAIN kept \subseteq DOMAIN old.write_packets
        /\ \A p \in DOMAIN kept : kept[p] = old.write_packets[p]
        /\ \/ sessions' = [sessions EXCEPT ![s] =
                  [old EXCEPT !.write_packets = kept, !.last_recv = 0]]
           \/ /\ kept = old.write_packets
              /\ sessions' = [sessions EXCEPT ![s] = [old EXCEPT !.last_recv = 0]]
  <2>1. CASE S!TakesPacket(s, "heartbeat")
    <3>1. sessions' = [sessions EXCEPT ![s] = [old EXCEPT !.last_recv = 0]]
      <4>1. Head(conn[s].to_server).kind = "heartbeat"
        BY <2>1 DEF S!TakesPacket
      <4>2. QED BY <4>1 DEF S!RunReadPush, S!TakesPacket
    <3>2. QED BY <3>1
  <2>2. CASE S!TakesPacket(s, "ack")
    <3> DEFINE p == Head(conn[s].to_server).id
               kept == [q \in S!Pending(s) \ {p} |-> old.write_packets[q]]
    <3>1. sessions' = [sessions EXCEPT ![s] =
                         [old EXCEPT !.write_packets = kept, !.last_recv = 0]]
      <4>1. Head(conn[s].to_server).kind = "ack"
        BY <2>2 DEF S!TakesPacket
      <4>2. QED BY <4>1 DEF S!RunReadPush, S!TakesPacket
    <3>2. /\ DOMAIN kept \subseteq DOMAIN old.write_packets
          /\ \A q \in DOMAIN kept : kept[q] = old.write_packets[q]
      BY <1>2
    <3> HIDE DEF kept
    <3>3. QED BY <3>1, <3>2
  <2>3. QED BY <2>1, <2>2 DEF S!RunReadPush
<1>5. /\ DOMAIN sessions' = DOMAIN sessions
      /\ \A u \in DOMAIN sessions : u # s => sessions'[u] = sessions[u]
      /\ sessions'[s].rencently_packet_tracker = old.rencently_packet_tracker
      /\ sessions'[s].last_recv = 0
      /\ sessions'[s].read_pending = old.read_pending
      /\ sessions'[s].check_timer = old.check_timer
      /\ sessions'[s].write_packets = kept
  BY <1>2, <1>4
<1>6. QED BY <1>1, <1>2, <1>3, <1>4, <1>5

LEMMA ReadPushMoves ==
  ASSUME SP!TypeInv, ProcessedType, NEW s \in S!Sessions, S!RunReadPush(s),
         UNCHANGED <<vars, outcome, processed, notified>>
  PROVE  ServerMoves
<1>1. PICK kind \in {"ack", "heartbeat"} : S!TakesPacket(s, kind)
  BY ReadPushSessions
<1>2. \A u \in S!Sessions :
        /\ conn'[u].link = conn[u].link /\ conn'[u].to_client = conn[u].to_client
        /\ \A x : Holds(conn'[u].to_server, x) => Holds(conn[u].to_server, x)
        /\ u # s => \A x : Holds(conn[u].to_server, x) => Holds(conn'[u].to_server, x)
  BY <1>1, TakingMoves
<1>3. ChannelsMove
  BY <1>2 DEF ChannelsMove
<1>4. SessionsMove
  <2>1. ASSUME NEW u \in DOMAIN sessions, u # s PROVE SessionMoves(u)
    <3>1. sessions'[u] = sessions[u] /\ u \in S!Sessions
      BY <2>1, ReadPushSessions, SessionFacts
    <3>2. QED BY <1>2, <2>1, <3>1 DEF SessionMoves
  <2>2. SessionMoves(s)
    BY ReadPushSessions DEF SessionMoves
  <2>3. QED BY <2>1, <2>2, ReadPushSessions DEF SessionsMove
<1>5. RequestsMove
  BY StillRequests, ReadPushSessions
<1>6. cur_seq \in Nat /\ cur_seq' = cur_seq
  BY ReadPushSessions, ServerFields
<1>7. QED BY <1>3, <1>4, <1>5, <1>6, ReadPushSessions DEF ServerMoves

LEMMA ReadErrorMoves ==
  ASSUME SP!TypeInv, ProcessedType, NEW s \in S!Sessions, S!RunReadError(s),
         UNCHANGED <<vars, outcome, processed, notified>>
  PROVE  ServerMoves
<1>1. /\ s \in DOMAIN sessions /\ conn[s].link = "down"
      /\ sessions' = [sessions EXCEPT ![s] = [sessions[s] EXCEPT !.read_pending = FALSE]]
      /\ UNCHANGED <<cur_session_id, cur_seq, acceptor_open, conn, taken>>
  BY DEF S!RunReadError, S!acceptVars
<1>2. ChannelsMove
  BY <1>1 DEF ChannelsMove
<1>3. SessionsMove
  <2>1. \A u \in DOMAIN sessions : u # s => sessions'[u] = sessions[u]
    BY <1>1
  <2>2. DOMAIN sessions' = DOMAIN sessions
    BY <1>1
  <2>3. \A u \in DOMAIN sessions : u # s => SessionMoves(u)
    BY <1>1, <2>1 DEF SessionMoves
  <2>4. /\ sessions'[s].rencently_packet_tracker = sessions[s].rencently_packet_tracker
        /\ sessions'[s].last_recv = sessions[s].last_recv
        /\ sessions'[s].check_timer = sessions[s].check_timer
        /\ sessions'[s].write_packets = sessions[s].write_packets
        /\ sessions'[s].read_pending = FALSE
    BY <1>1, SessionFacts
  <2>5. SessionMoves(s)
    BY <1>1, <2>4 DEF SessionMoves
  <2>6. QED BY <2>2, <2>3, <2>5 DEF SessionsMove
<1>4. RequestsMove
  BY <1>1, StillRequests
<1>5. cur_seq \in Nat
  BY ServerFields
<1>6. QED BY <1>1, <1>2, <1>3, <1>4, <1>5 DEF ServerMoves

LEMMA LinkBreaksMoves ==
  ASSUME SP!TypeInv, ProcessedType, NEW s \in S!Sessions, S!LinkBreaks(s),
         UNCHANGED <<vars, outcome, processed, notified>>
  PROVE  ServerMoves
<1>1. /\ conn' = [conn EXCEPT ![s] = [conn[s] EXCEPT !.link = "down"]]
      /\ UNCHANGED <<sessions, cur_session_id, cur_seq, acceptor_open, taken>>
  BY DEF S!LinkBreaks, S!serverVars, S!acceptVars
<1>2. \A u \in S!Sessions :
        /\ conn'[u].link = "up" => conn[u].link = "up"
        /\ conn'[u].to_server = conn[u].to_server
        /\ conn'[u].to_client = conn[u].to_client
  BY <1>1, ConnParts
<1>3. ChannelsMove
  BY <1>2 DEF ChannelsMove
<1>4. SessionsMove
  BY <1>1, <1>2, SessionFacts DEF SessionsMove, SessionMoves
<1>5. RequestsMove
  BY <1>1, StillRequests
<1>6. cur_seq \in Nat
  BY ServerFields
<1>7. QED BY <1>1, <1>3, <1>4, <1>5, <1>6 DEF ServerMoves

LEMMA TimerMoves ==
  ASSUME SP!TypeInv, ProcessedType, NEW t, S!RunTimer(t),
         UNCHANGED <<vars, outcome, processed, notified>>
  PROVE  ServerMoves
<1>1. /\ sessions' = [s \in DOMAIN sessions \ S!Silent |-> sessions[s]]
      /\ conn' = [s \in S!Sessions |-> IF s \in S!Silent THEN S!NoConnection
                                                         ELSE conn[s]]
      /\ UNCHANGED <<cur_session_id, cur_seq, acceptor_open, taken>>
  BY DEF S!RunTimer, S!ConnWithout, S!acceptVars
<1>2. /\ S!NoConnection.link # "up" /\ S!NoConnection.to_server = <<>>
      /\ S!NoConnection.to_client = <<>>
  BY DEF S!NoConnection
<1>3. ChannelsMove
  BY <1>1, <1>2, HoldsNone DEF ChannelsMove
<1>4. SessionsMove
  <2>1. \A s \in DOMAIN sessions' : /\ s \in DOMAIN sessions /\ s \in S!Sessions
                                    /\ sessions'[s] = sessions[s]
                                    /\ conn'[s] = conn[s]
    BY <1>1, SessionFacts
  <2>2. QED BY <2>1 DEF SessionsMove, SessionMoves
<1>5. RequestsMove
  BY <1>1, StillRequests
<1>6. cur_seq \in Nat
  BY ServerFields
<1>7. QED BY <1>1, <1>3, <1>4, <1>5, <1>6 DEF ServerMoves

LEMMA PublishSessions ==
  ASSUME SP!TypeInv, S!PublishNotification
  PROVE  /\ cur_seq' = cur_seq + 1 /\ cur_seq' \in Pushes
         /\ UNCHANGED <<cur_session_id, acceptor_open, taken>>
         /\ DOMAIN sessions' = DOMAIN sessions
         /\ \A s \in DOMAIN sessions :
              LET old == sessions[s]
                  new == sessions'[s]
              IN
              /\ new.rencently_packet_tracker = old.rencently_packet_tracker
              /\ new.last_recv = old.last_recv
              /\ new.read_pending = old.read_pending
              /\ new.check_timer = old.check_timer
              /\ DOMAIN new.write_packets = DOMAIN old.write_packets \union {cur_seq'}
              /\ new.write_packets[cur_seq'] = [cur_tries |-> 1, since |-> 0]
              /\ \A p \in DOMAIN old.write_packets : p # cur_seq' =>
                   new.write_packets[p] = old.write_packets[p]
<1>1. /\ cur_seq' = cur_seq + 1 /\ cur_seq' \in Pushes
      /\ UNCHANGED <<cur_session_id, acceptor_open, taken>>
      /\ DOMAIN sessions' = DOMAIN sessions
  BY ServerFields, CompositionAssumption DEF S!PublishNotification, S!acceptVars
<1>2. ASSUME NEW s \in DOMAIN sessions
      PROVE  LET old == sessions[s]
                 new == sessions'[s]
             IN
             /\ new.rencently_packet_tracker = old.rencently_packet_tracker
             /\ new.last_recv = old.last_recv
             /\ new.read_pending = old.read_pending
             /\ new.check_timer = old.check_timer
             /\ DOMAIN new.write_packets = DOMAIN old.write_packets \union {cur_seq'}
             /\ new.write_packets[cur_seq'] = [cur_tries |-> 1, since |-> 0]
             /\ \A p \in DOMAIN old.write_packets : p # cur_seq' =>
                  new.write_packets[p] = old.write_packets[p]
  <2> DEFINE old == sessions[s]
             packets == [p \in S!Pending(s) \union {cur_seq'} |->
                           IF p = cur_seq' THEN [cur_tries |-> 1, since |-> 0]
                                           ELSE old.write_packets[p]]
  <2>1. /\ DOMAIN old = { "last_recv", "rencently_packet_tracker",
                          "write_packets", "read_pending", "check_timer" }
        /\ S!Pending(s) = DOMAIN old.write_packets
    BY SessionFacts
  <2>2. sessions'[s] = [old EXCEPT !.write_packets = packets]
    BY DEF S!PublishNotification
  <2>3. /\ DOMAIN packets = DOMAIN old.write_packets \union {cur_seq'}
        /\ packets[cur_seq'] = [cur_tries |-> 1, since |-> 0]
        /\ \A p \in DOMAIN old.write_packets : p # cur_seq' =>
             packets[p] = old.write_packets[p]
    BY <2>1
  <2> HIDE DEF packets
  <2>4. QED BY <2>1, <2>2, <2>3
<1>3. QED BY <1>1, <1>2

LEMMA PublishMoves ==
  ASSUME SP!TypeInv, ProcessedType, S!PublishNotification,
         UNCHANGED <<vars, outcome, processed, notified>>
  PROVE  ServerMoves
<1>1. cur_seq \in Nat /\ cur_seq' = cur_seq + 1 /\ cur_seq' \in Pushes
  BY PublishSessions, ServerFields
<1>2. \A s \in DOMAIN sessions : Pushed(s, cur_seq')
  BY <1>1, PublishSessions DEF Pushed
<1>3. ASSUME NEW s \in S!Sessions
      PROVE  /\ conn'[s].link = conn[s].link
             /\ conn'[s].to_server = conn[s].to_server
             /\ \A m : Holds(conn'[s].to_client, m) =>
                  \/ Holds(conn[s].to_client, m)
                  \/ s \in DOMAIN sessions /\ m = S!Push(cur_seq')
  <2>1. CASE s \in DOMAIN sessions
    <3>1. conn'[s] = S!Written(conn[s], <<S!Push(cur_seq')>>)
      BY <2>1 DEF S!PublishNotification
    <3>2. <<S!Push(cur_seq')>> \in Seq(S!ToClient)
      BY <1>1, Numbering DEF S!ToClient, S!Push
    <3>3. QED BY <2>1, <3>1, <3>2, WritingAdds, HoldsOne
  <2>2. CASE s \notin DOMAIN sessions
    BY <2>2 DEF S!PublishNotification
  <2>3. QED BY <2>1, <2>2
<1>4. ChannelsMove
  BY <1>1, <1>2, <1>3 DEF ChannelsMove
<1>5. SessionsMove
  <2>1. ASSUME NEW s \in DOMAIN sessions PROVE SessionMoves(s)
    <3>1. s \in S!Sessions
      BY SessionFacts
    <3>2. ASSUME NEW p \in DOMAIN sessions'[s].write_packets
          PROVE  \/ /\ p \in DOMAIN sessions[s].write_packets
                    /\ sessions'[s].write_packets[p] = sessions[s].write_packets[p]
                 \/ Pushed(s, p)
      BY <1>2, <3>2, PublishSessions
    <3>3. QED BY <1>3, <3>1, <3>2, PublishSessions DEF SessionMoves
  <2>2. QED BY <2>1, PublishSessions DEF SessionsMove
<1>6. RequestsMove
  BY StillRequests, PublishSessions
<1>7. QED BY <1>1, <1>4, <1>5, <1>6, PublishSessions DEF ServerMoves

LEMMA SessionTimerSessions ==
  ASSUME SP!TypeInv, NEW s \in S!Sessions, S!RunSessionTimer(s)
  PROVE  /\ s \in DOMAIN sessions /\ sessions[s].check_timer = "due"
         /\ UNCHANGED <<cur_session_id, cur_seq, acceptor_open, taken>>
         /\ DOMAIN sessions' = DOMAIN sessions
         /\ \A u \in DOMAIN sessions : u # s => sessions'[u] = sessions[u]
         /\ LET old == sessions[s]
                new == sessions'[s]
            IN
            /\ new.rencently_packet_tracker = old.rencently_packet_tracker
            /\ new.last_recv = old.last_recv
            /\ new.read_pending = old.read_pending
            /\ new.check_timer = "armed"
            /\ \A p \in DOMAIN new.write_packets :
                 /\ p \in DOMAIN old.write_packets
                 /\ IF old.write_packets[p].since >= ResendInterval
                    THEN Pushed(s, p)
                    ELSE new.write_packets[p] = old.write_packets[p]
            /\ \A p \in S!Due(s) \ S!Exhausted(s) :
                 p \in DOMAIN new.write_packets /\ Pushed(s, p)
<1> DEFINE old == sessions[s]
           packets == [p \in S!Pending(s) \ S!Exhausted(s) |->
                         IF p \in S!Due(s) THEN S!Retried(old.write_packets[p])
                                           ELSE old.write_packets[p]]
<1>1. /\ s \in DOMAIN sessions /\ old.check_timer = "due"
      /\ UNCHANGED <<cur_session_id, cur_seq, acceptor_open, taken>>
  BY DEF S!RunSessionTimer, S!acceptVars
<1>2. /\ DOMAIN old = { "last_recv", "rencently_packet_tracker",
                        "write_packets", "read_pending", "check_timer" }
      /\ S!Pending(s) = DOMAIN old.write_packets
      /\ \A p \in DOMAIN old.write_packets :
           old.write_packets[p] \in
             [cur_tries : 1..ResendTries, since : 0..ResendInterval]
  BY <1>1, SessionFacts
<1>3. S!Due(s) = { p \in DOMAIN old.write_packets :
                     old.write_packets[p].since >= ResendInterval }
  BY <1>2 DEF S!Due
<1>4. sessions' = [sessions EXCEPT ![s] =
        [old EXCEPT !.check_timer = "armed", !.write_packets = packets]]
  BY DEF S!RunSessionTimer, S!SessionTimerAgain
<1>5. /\ DOMAIN packets = DOMAIN old.write_packets \ S!Exhausted(s)
      /\ \A p \in DOMAIN packets :
           packets[p] = IF old.write_packets[p].since >= ResendInterval
                        THEN S!Retried(old.write_packets[p])
                        ELSE old.write_packets[p]
  BY <1>2, <1>3
<1> HIDE DEF packets
<1>6. /\ DOMAIN sessions' = DOMAIN sessions
      /\ \A u \in DOMAIN sessions : u # s => sessions'[u] = sessions[u]
      /\ sessions'[s].rencently_packet_tracker = old.rencently_packet_tracker
      /\ sessions'[s].last_recv = old.last_recv
      /\ sessions'[s].read_pending = old.read_pending
      /\ sessions'[s].check_timer = "armed"
      /\ sessions'[s].write_packets = packets
  BY <1>1, <1>2, <1>4
<1>7. ASSUME NEW p \in DOMAIN packets,
             old.write_packets[p].since >= ResendInterval
      PROVE  Pushed(s, p)
  <2>1. p \in DOMAIN old.write_packets
        /\ packets[p] = [old.write_packets[p] EXCEPT !.cur_tries = @ + 1, !.since = 0]
    BY <1>5, <1>7 DEF S!Retried
  <2>2. packets[p].since = 0 /\ packets[p].cur_tries = old.write_packets[p].cur_tries + 1
    BY <1>2, <2>1
  <2>3. QED BY <1>1, <1>6, <1>7, <2>1, <2>2 DEF Pushed
<1>8. \A p \in S!Due(s) \ S!Exhausted(s) :
        p \in DOMAIN packets /\ old.write_packets[p].since >= ResendInterval
  BY <1>3, <1>5
<1>9. QED BY <1>1, <1>5, <1>6, <1>7, <1>8

LEMMA SessionTimerMoves ==
  ASSUME SP!TypeInv, ProcessedType, NEW s \in S!Sessions, S!RunSessionTimer(s),
         UNCHANGED <<vars, outcome, processed, notified>>
  PROVE  ServerMoves
<1> DEFINE packets == [n \in 1..Len(S!Resent(s)) |-> S!Push(S!Resent(s)[n])]
           ids == (S!Due(s) \ S!Exhausted(s)) \intersect (1..MaxPushes)
<1>1. S!Resent(s) \in Seq(ids)
  <2>1. S!Resent(s) = Ascending(S!Due(s) \ S!Exhausted(s), MaxPushes)
    BY DEF S!Resent, S!Ascending, Ascending
  <2>2. QED BY <2>1, AscendingType, ServerConstants
<1>2. \A n \in 1..Len(S!Resent(s)) :
        S!Resent(s)[n] \in S!Due(s) \ S!Exhausted(s) /\ S!Resent(s)[n] \in Pushes
  BY <1>1, CompositionAssumption
<1>3. packets \in Seq(S!ToClient)
  <2>1. Len(S!Resent(s)) \in Nat
    BY <1>1
  <2>2. \A n \in 1..Len(S!Resent(s)) : S!Push(S!Resent(s)[n]) \in S!ToClient
    BY <1>2, Numbering DEF S!Push, S!ToClient
  <2>3. QED BY <2>1, <2>2
<1>4. \A m : Holds(packets, m) => \E p \in Pushes : m = S!Push(p) /\ Pushed(s, p)
  <2>1. Len(packets) = Len(S!Resent(s))
    BY <1>1
  <2>2. QED BY <1>2, <2>1, SessionTimerSessions DEF Holds
<1>5. \A u \in S!Sessions : conn'[u] = IF u = s THEN S!Written(conn[s], packets)
                                                ELSE conn[u]
  <2>1. conn' = [conn EXCEPT ![s] = S!Written(conn[s], packets)]
    BY DEF S!RunSessionTimer
  <2>2. conn = [u \in S!Sessions |-> conn[u]]
    BY ConnParts
  <2> HIDE DEF packets
  <2>3. QED BY <2>1, <2>2
<1> HIDE DEF packets
<1>6. \A u \in S!Sessions :
        /\ conn'[u].link = conn[u].link
        /\ conn'[u].to_server = conn[u].to_server
        /\ \A m : Holds(conn'[u].to_client, m) =>
             \/ Holds(conn[u].to_client, m)
             \/ \E p \in Pushes : m = S!Push(p) /\ Pushed(u, p)
  BY <1>3, <1>4, <1>5, WritingAdds
<1>7. ChannelsMove
  BY <1>6 DEF ChannelsMove
<1>8. SessionsMove
  <2>1. ASSUME NEW u \in DOMAIN sessions, u # s PROVE SessionMoves(u)
    <3>1. u \in S!Sessions /\ sessions'[u] = sessions[u]
      BY <2>1, SessionTimerSessions, SessionFacts
    <3>2. QED BY <1>6, <3>1 DEF SessionMoves
  <2>2. SessionMoves(s)
    BY <1>6, SessionTimerSessions DEF SessionMoves
  <2>3. QED BY <2>1, <2>2, SessionTimerSessions DEF SessionsMove
<1>9. RequestsMove
  BY StillRequests, SessionTimerSessions
<1>10. cur_seq \in Nat /\ cur_seq' = cur_seq
  BY SessionTimerSessions, ServerFields
<1>11. QED BY <1>7, <1>8, <1>9, <1>10, SessionTimerSessions DEF ServerMoves

\* Every step of the server alone.
ServerAlone ==
    \/ StartServer \/ RegisterProcessor \/ SendResponse \/ Publish
    \/ ServerHandler \/ ServerTimer
    \/ ConnectionRequested \/ AcceptCompletes \/ ConnectionBreaks

LEMMA ServerAloneMoves ==
  ASSUME SP!TypeInv, ProcessedType, ServerAlone
  PROVE  ServerMoves /\ ServerSteps
<1>1. CASE StartServer \/ RegisterProcessor \/ ConnectionRequested \/ AcceptCompletes
  <2>1. UNCHANGED <<vars, outcome, processed, notified, cur_session_id, cur_seq,
                    acceptor_open, sessions, conn, taken>>
    BY <1>1
       DEF StartServer, RegisterProcessor, ConnectionRequested, AcceptCompletes,
       S!Start, S!RegisterReqProcessor, S!ClientConnects, S!AcceptReady,
       S!acceptVars, S!serverVars, resultVars
  <2>2. ServerSteps
    BY <1>1
       DEF StartServer, RegisterProcessor, ConnectionRequested, AcceptCompletes,
       ServerSteps
  <2>3. QED BY <2>1, <2>2, StillServer
<1>2. CASE SendResponse
  BY <1>2, SendRspMoves DEF SendResponse, ServerSteps
<1>3. CASE Publish
  BY <1>3, PublishMoves DEF Publish, ServerSteps, resultVars
<1>4. CASE ServerHandler
  <2>1. PICK s \in S!Sessions :
          \/ /\ S!RunReadRequest(s)
             /\ processed' =
                  [processed EXCEPT ![s] = [i \in Requests |->
                     IF Processes(s, i) THEN processed[s][i] + 1
                                        ELSE processed[s][i]]]
          \/ /\ S!RunReadPush(s) \/ S!RunReadError(s) \/ S!RunSessionTimer(s)
             /\ UNCHANGED processed
    BY <1>4 DEF ServerHandler
  <2>2. UNCHANGED <<vars, outcome, notified>>
    BY <1>4 DEF ServerHandler
  <2>3. ServerSteps
    BY <2>1 DEF ServerSteps
  <2>4. ServerMoves
    BY <2>1, <2>2, ReadRequestMoves, ReadPushMoves, ReadErrorMoves,
       SessionTimerMoves
  <2>5. QED BY <2>3, <2>4
<1>5. CASE ServerTimer
  BY <1>5, TimerMoves DEF ServerTimer, ServerSteps, resultVars
<1>6. CASE ConnectionBreaks
  BY <1>6, LinkBreaksMoves DEF ConnectionBreaks, ServerSteps, resultVars
<1>7. QED BY <1>1, <1>2, <1>3, <1>4, <1>5, <1>6 DEF ServerAlone

-----------------------------------------------------------------------------
(* What the client writes.                                                 *)

LEMMA ResentIs ==
  ASSUME TypeInv PROVE Resent \in Seq((Due \ Exhausted) \intersect Requests)
<1>1. Resent \in Seq((Due \ Exhausted) \intersect (1..MaxSends))
  BY Numbers, AscendingType DEF Resent
<1>2. QED BY <1>1 DEF Requests

Requesting(i) ==
    /\ connect_state = "connected"
    /\ \/ Runs("send") /\ i = Head(ioq).id
       \/ Runs("timer") /\ Head(ioq).timer \in DOMAIN timers /\ i \in Due \ Exhausted

LEMMA OutgoingIs ==
  ASSUME TypeInv, ioq # <<>>
  PROVE  /\ Outgoing \in Seq(S!ToServer)
         /\ \A i \in Requests : Holds(Outgoing, S!Request(i)) => Requesting(i)
         /\ connect_state = "connected" /\ Runs("timer")
              /\ Head(ioq).timer \in DOMAIN timers => Holds(Outgoing, S!Heartbeat)
         /\ \A i \in Requests : connect_state = "connected" /\ Runs("send")
              /\ i = Head(ioq).id => Holds(Outgoing, S!Request(i))
<1> DEFINE h == Head(ioq)
           resent == [n \in 1..Len(Resent) |-> S!Request(Resent[n])]
<1>1. h \in Handlers
  BY DEF TypeInv, QueueOK
<1>2. /\ <<>> \in Seq(S!ToServer)
      /\ \A i \in Requests : ~Holds(<<>>, S!Request(i))
  BY HoldsNone
<1>3. CASE connect_state # "connected"
  <2>1. Outgoing = <<>>
    BY <1>3 DEF Outgoing
  <2>2. QED BY <1>2, <1>3, <2>1
<1>4. CASE connect_state = "connected" /\ h.op = "send"
  <2>1. h.id \in Requests
    BY <1>1, <1>4, HandlerParts
  <2>2. S!Request(h.id) \in S!ToServer
    BY <2>1 DEF S!Request, S!ToServer
  <2>3. Outgoing = <<S!Request(h.id)>>
    BY <1>4 DEF Outgoing, S!Request
  <2>4. \A i \in Requests : Holds(Outgoing, S!Request(i)) <=> i = h.id
    BY <2>3, HoldsOne DEF S!Request
  <2>5. Runs("send") /\ ~Runs("timer")
    BY <1>4 DEF Runs
  <2>6. Outgoing \in Seq(S!ToServer)
    BY <2>2, <2>3
  <2>7. QED BY <1>4, <2>4, <2>5, <2>6 DEF Requesting
<1>5. CASE connect_state = "connected" /\ h.op = "read"
  <2>1. CASE h.packet.kind = "push"
    <3>1. S!Ack(h.packet.id) \in S!ToServer
      BY <1>1, <1>5, <2>1, HandlerParts, Numbering DEF S!Ack, S!ToServer
    <3>2. Outgoing = <<S!Ack(h.packet.id)>>
      BY <1>5, <2>1 DEF Outgoing, S!Ack
    <3>3. \A i \in Requests : ~Holds(Outgoing, S!Request(i))
      BY <3>2, HoldsOne DEF S!Request, S!Ack
    <3>4. QED BY <1>5, <3>1, <3>2, <3>3 DEF Runs
  <2>2. CASE h.packet.kind # "push"
    <3>1. Outgoing = <<>>
      BY <1>5, <2>2 DEF Outgoing
    <3>2. QED BY <1>2, <1>5, <3>1 DEF Runs
  <2>3. QED BY <2>1, <2>2
<1>6. CASE connect_state = "connected" /\ h.op = "timer" /\ h.timer \in DOMAIN timers
  <2>1. /\ Resent \in Seq(Requests)
        /\ \A n \in 1..Len(Resent) : Resent[n] \in Requests /\ Resent[n] \in Due \ Exhausted
    BY ResentIs
  <2>2. resent \in Seq(S!ToServer) /\ Len(resent) = Len(Resent)
    BY <2>1 DEF S!Request, S!ToServer
  <2>3. Heartbeats \in Seq(S!ToServer) /\ Heartbeats = <<S!Heartbeat>>
    BY DEF Heartbeats, S!ToServer, S!Heartbeat
  <2>4. Outgoing = resent \o Heartbeats
    BY <1>6 DEF Outgoing, S!Request
  <2>5. \A i \in Requests : Holds(resent, S!Request(i)) => i \in Due \ Exhausted
    BY <2>1, <2>2 DEF Holds, S!Request
  <2> HIDE DEF resent
  <2>6. \A m : Holds(Outgoing, m) <=> Holds(resent, m) \/ m = S!Heartbeat
    BY <2>2, <2>3, <2>4, HoldsJoined, HoldsOne
  <2>7. \A i \in Requests : S!Request(i) # S!Heartbeat
    BY DEF S!Request, S!Heartbeat
  <2>8. Runs("timer") /\ ~Runs("send")
    BY <1>6 DEF Runs
  <2>9. Outgoing \in Seq(S!ToServer)
    BY <2>2, <2>3, <2>4
  <2>10. QED BY <1>6, <2>5, <2>6, <2>7, <2>8, <2>9 DEF Requesting
<1>7. CASE connect_state = "connected" /\ h.op \notin {"send", "read"}
             /\ ~(h.op = "timer" /\ h.timer \in DOMAIN timers)
  <2>1. Outgoing = <<>>
    BY <1>7 DEF Outgoing
  <2>2. QED BY <1>2, <1>7, <2>1 DEF Runs
<1>8. QED BY <1>3, <1>4, <1>5, <1>6, <1>7

\* A handler that leaves the socket up leaves it the requests on it.
LEMMA HandlerWire ==
  ASSUME TypeInv, RunHandler, socket' = "up"
  PROVE  /\ socket = "up" /\ on_wire \subseteq on_wire'
         /\ \A i \in Requests : Holds(Outgoing, S!Request(i)) => i \in on_wire'
<1>1. ioq # <<>>
  BY HandlerTypes DEF Consuming, Consumes
<1>2. CASE RunSend \/ (RunTimer /\ Head(ioq).timer \in DOMAIN timers)
  <2>1. socket = "up" /\ on_wire' = WireAfterWrites
    BY <1>2 DEF RunSend, RunTimer, DoConnect
  <2>2. \A i \in Requests : Holds(Outgoing, S!Request(i)) => i \in on_wire'
    BY <2>1 DEF WireAfterWrites, Holds, S!Request
  <2>3. QED BY <2>1, <2>2 DEF WireAfterWrites
<1>3. CASE ~RunSend /\ ~(RunTimer /\ Head(ioq).timer \in DOMAIN timers)
  <2>1. socket = "up" /\ on_wire' = on_wire
    BY <1>3
       DEF RunHandler, RunStart, RunStop, RunCancel, RunSubscription,
       RunTimerStart, RunTimerStop, RunTimer, RunConnect, RunReadResponse,
       RunReadPush, RunReadError, RunWriteError, DoConnect, DoClose, netVars
  <2>2. ASSUME NEW i \in Requests, Holds(Outgoing, S!Request(i)) PROVE FALSE
    <3>1. Requesting(i)
      BY <1>1, <2>2, OutgoingIs
    <3>2. Runs("send") \/ (Runs("timer") /\ Head(ioq).timer \in DOMAIN timers)
      BY <3>1 DEF Requesting
    <3>3. QED
      BY <1>3, <3>2
         DEF RunHandler, RunStart, RunStop, RunSend, RunCancel, RunSubscription,
         RunTimerStart, RunTimerStop, RunTimer, RunConnect, RunReadResponse,
         RunReadPush, RunReadError, RunWriteError, Runs
  <2>3. QED BY <2>1, <2>2
<1>4. QED BY <1>2, <1>3

\* What a handler of the client does to the connections.
HandlerWrites ==
    /\ SP!ConnOK'
    /\ \A s \in S!Sessions : s # cur_session_id => conn'[s] = conn[s]
    /\ \A s \in S!Sessions :
         /\ conn'[s].link = "up" =>
              conn[s].link = "up" /\ (HasSocket(socket) => HasSocket(socket') \/ s # cur_session_id)
         /\ conn[s].link # "up" => conn'[s].link # "up"
         /\ \A m : Holds(conn[s].to_server, m) => Holds(conn'[s].to_server, m)
         /\ \A m : Holds(conn'[s].to_server, m) =>
              \/ Holds(conn[s].to_server, m)
              \/ s = cur_session_id /\ socket = "up" /\ Holds(Outgoing, m)
         /\ s = cur_session_id /\ socket = "up" /\ conn[s].link = "up" =>
              \A m : Holds(Outgoing, m) => Holds(conn'[s].to_server, m)
         /\ conn'[s].to_client \in {conn[s].to_client, <<>>}

LEMMA ClientHandlerWrites ==
  ASSUME TypeInv, SP!TypeInv, ClientHandler PROVE HandlerWrites
<1>1. conn' = [s \in S!Sessions |-> IF s = cur_session_id
                                     THEN AfterHandler(conn[s]) ELSE conn[s]]
  BY DEF ClientHandler
<1>2. ioq # <<>>
  BY HandlerTypes DEF ClientHandler, Consuming, Consumes
<1>3. Outgoing \in Seq(S!ToServer)
  BY <1>2, OutgoingIs
<1> DEFINE closes == HasSocket(socket) /\ ~HasSocket(socket')
<1>4. ASSUME NEW s \in S!Sessions
      PROVE  LET c == conn[s]
                 d == AfterHandler(c) IN
             /\ d \in SP!Connection
             /\ d.link = IF closes /\ c.link = "up" THEN "down" ELSE c.link
             /\ d.to_server = IF socket = "up" /\ c.link = "up"
                              THEN c.to_server \o Outgoing ELSE c.to_server
             /\ d.to_client = IF closes THEN <<>> ELSE c.to_client
  <2> DEFINE c == conn[s]
             sent == IF socket = "up" /\ c.link = "up"
                     THEN c.to_server \o Outgoing ELSE c.to_server
             added == [link |-> c.link, to_server |-> sent, to_client |-> c.to_client]
             d == [link |-> IF closes /\ c.link = "up" THEN "down" ELSE c.link,
                   to_server |-> sent,
                   to_client |-> IF closes THEN <<>> ELSE c.to_client]
  <2>1. /\ c = [link |-> c.link, to_server |-> c.to_server, to_client |-> c.to_client]
        /\ c.link \in {"closed", "up", "down"}
        /\ c.to_server \in Seq(S!ToServer) /\ c.to_client \in Seq(S!ToClient)
    BY ConnParts
  <2>2. sent \in Seq(S!ToServer)
    BY <1>3, <2>1
  <2>3. (IF socket = "up" /\ c.link = "up"
         THEN [c EXCEPT !.to_server = @ \o Outgoing] ELSE c) = added
    <3>1. CASE socket = "up" /\ c.link = "up"
      <4> HIDE DEF c
      <4>1. sent = c.to_server \o Outgoing
        BY <3>1
      <4> HIDE DEF sent
      <4>2. [c EXCEPT !.to_server = sent] = added
        BY <2>1
      <4>3. QED BY <3>1, <4>1, <4>2
    <3>2. CASE ~(socket = "up" /\ c.link = "up")
      <4> HIDE DEF c
      <4>1. QED BY <2>1, <3>2
    <3>3. QED BY <3>1, <3>2
  <2>4. AfterHandler(c) = IF closes
          THEN [added EXCEPT !.link = IF @ = "up" THEN "down" ELSE @,
                             !.to_client = <<>>]
          ELSE added
    BY <2>3 DEF AfterHandler
  <2> HIDE DEF sent, closes, c
  <2>5. AfterHandler(c) = d
    BY <2>4
  <2>6. d \in SP!Connection
    <3>1. <<>> \in Seq(S!ToClient)
      OBVIOUS
    <3>2. QED BY <2>1, <2>2, <3>1, Numbering DEF SP!Connection
  <2>7. QED BY <2>5, <2>6 DEF sent, c
<1>5. SP!ConnOK'
  <2>1. \A s \in S!Sessions : conn[s] \in SP!Connection
    BY Numbering DEF SP!TypeInv, SP!ConnOK
  <2>2. conn' \in [S!Sessions -> SP!Connection]
    BY <1>1, <1>4, <2>1
  <2>3. QED BY <2>2, Numbering DEF SP!ConnOK, SP!Sessions, SP!Connection, SP!ToServer, SP!ToClient, SP!PushIds, SP!Heartbeat
<1>6. \A s \in S!Sessions : s # cur_session_id => conn'[s] = conn[s]
  BY <1>1
<1>7. \A s \in S!Sessions : s = cur_session_id => conn'[s] = AfterHandler(conn[s])
  BY <1>1
<1>8. ASSUME NEW s \in S!Sessions
      PROVE  /\ conn[s].to_server \in Seq(S!ToServer)
             /\ \A m : Holds(conn[s].to_server \o Outgoing, m) <=>
                         Holds(conn[s].to_server, m) \/ Holds(Outgoing, m)
  <2>1. conn[s].to_server \in Seq(S!ToServer)
    BY ConnParts
  <2>2. QED BY <1>3, <2>1, HoldsJoined
<1>9. ASSUME NEW s \in S!Sessions, s = cur_session_id
      PROVE  /\ conn'[s].link = IF closes /\ conn[s].link = "up" THEN "down" ELSE conn[s].link
             /\ conn'[s].to_client \in {conn[s].to_client, <<>>}
             /\ \/ socket = "up" /\ conn[s].link = "up"
                     /\ conn'[s].to_server = conn[s].to_server \o Outgoing
                \/ ~(socket = "up" /\ conn[s].link = "up")
                     /\ conn'[s].to_server = conn[s].to_server
  BY <1>4, <1>7, <1>9
<1> HIDE DEF closes
<1>10. ASSUME NEW s \in S!Sessions, s = cur_session_id
       PROVE  /\ \A m : Holds(conn[s].to_server, m) => Holds(conn'[s].to_server, m)
              /\ \A m : Holds(conn'[s].to_server, m) =>
                   Holds(conn[s].to_server, m) \/ (socket = "up" /\ Holds(Outgoing, m))
              /\ socket = "up" /\ conn[s].link = "up" =>
                   \A m : Holds(Outgoing, m) => Holds(conn'[s].to_server, m)
  BY <1>8, <1>9, <1>10
<1>11. ASSUME NEW s \in S!Sessions, s = cur_session_id
       PROVE  /\ conn'[s].link = "up" =>
                   conn[s].link = "up" /\ (HasSocket(socket) => HasSocket(socket'))
              /\ conn[s].link # "up" => conn'[s].link # "up"
  BY <1>9, <1>11 DEF closes
<1>12. QED BY <1>5, <1>6, <1>9, <1>10, <1>11 DEF HandlerWrites

LEMMA ClientHandlerServes ==
  ASSUME TypeInv, SP!TypeInv, ClientHandler PROVE SP!TypeInv'
<1>1. UNCHANGED restVars /\ SP!ConnOK'
  BY ClientHandlerWrites DEF ClientHandler, HandlerWrites
<1>2. QED BY <1>1, ConnectionTypes

LEMMA PacketArrivesServes ==
  ASSUME SP!TypeInv, cur_session_id \in S!Sessions, PacketArrives
  PROVE  LET channel == conn[cur_session_id].to_client IN
         /\ SP!TypeInv' /\ channel # <<>> /\ Head(channel) \in S!ToClient
         /\ channel \in Seq(S!ToClient)
         /\ ReadReady(Head(channel))
         /\ \A s \in S!Sessions : s # cur_session_id => conn'[s] = conn[s]
         /\ LET new == conn'[cur_session_id] IN
            /\ new.link = conn[cur_session_id].link
            /\ new.to_server = conn[cur_session_id].to_server
            /\ new.to_client = Tail(channel)
<1> DEFINE cur == cur_session_id
           c == conn[cur]
           d == [link |-> c.link, to_server |-> c.to_server, to_client |-> Tail(c.to_client)]
<1>1. /\ c.to_client # <<>> /\ ReadReady(Head(c.to_client))
      /\ conn' = [conn EXCEPT ![cur].to_client = Tail(c.to_client)]
      /\ UNCHANGED restVars
  BY DEF PacketArrives
<1>2. /\ conn = [s \in S!Sessions |-> conn[s]]
      /\ c = [link |-> c.link, to_server |-> c.to_server, to_client |-> c.to_client]
      /\ c.link \in {"closed", "up", "down"}
      /\ c.to_server \in Seq(S!ToServer) /\ c.to_client \in Seq(S!ToClient)
  BY ConnParts
<1>3. Head(c.to_client) \in S!ToClient /\ Tail(c.to_client) \in Seq(S!ToClient)
  BY <1>1, <1>2
<1>4. d \in SP!Connection
  BY <1>2, <1>3, Numbering DEF SP!Connection
<1>5. [c EXCEPT !.to_client = Tail(c.to_client)] = d
  <2>1. DOMAIN c = {"link", "to_server", "to_client"}
    BY <1>2
  <2> HIDE DEF c
  <2> DEFINE rest == Tail(c.to_client)
  <2> HIDE DEF rest
  <2>2. [c EXCEPT !.to_client = rest]
          = [link |-> c.link, to_server |-> c.to_server, to_client |-> rest]
    BY <2>1
  <2>3. QED BY <2>2 DEF rest
<1>6. conn' = [conn EXCEPT ![cur] = d]
  BY <1>1, <1>5
<1> HIDE DEF d
<1>7. conn'[cur] = d /\ \A s \in S!Sessions : s # cur => conn'[s] = conn[s]
  BY <1>2, <1>6
<1>8. conn' \in [S!Sessions -> SP!Connection]
  <2>1. conn \in [S!Sessions -> SP!Connection]
    BY Numbering DEF SP!TypeInv, SP!ConnOK
  <2>2. QED BY <1>4, <1>6, <2>1
<1>9. SP!ConnOK'
  BY <1>8, Numbering DEF SP!ConnOK, SP!Sessions, SP!Connection, SP!ToServer, SP!ToClient, SP!PushIds, SP!Heartbeat
<1>10. SP!TypeInv'
  BY <1>1, <1>9, ConnectionTypes
<1>11. QED BY <1>1, <1>2, <1>3, <1>7, <1>10 DEF d

-----------------------------------------------------------------------------
(* Every step of the composition is a step of the client, or leaves it     *)
(* alone: the peer of ReliableTcpClient.tla does all that the server does. *)

Calls == StartClient \/ Subscribe \/ SendRequest

ClientNetwork == ConnectFails \/ ClientNotices \/ ClientReadFails

LEMMA Kinds ==
  ASSUME TcpNext
  PROVE  \/ /\ \/ ServerAlone \/ Calls \/ ClientHandler
               \/ (Connected /\ taken = {}) \/ ClientNetwork \/ PacketArrives
            /\ delay' = IF Waiting' THEN delay ELSE 0
         \/ BothSecond
<1>1. CASE BothSecond
  BY <1>1
<1>2. CASE SendResponse /\ delay' = IF Waiting' THEN delay ELSE 0
  BY <1>2 DEF ServerAlone
<1>3. CASE /\ taken = {}
           /\ \/ Application \/ ClientHandler \/ ServerHandler
              \/ ServerTimer \/ Connection
           /\ delay' = IF Waiting' THEN delay ELSE 0
  BY <1>3 DEF Application, Connection, ServerAlone, Calls, ClientNetwork
<1>4. QED BY <1>1, <1>2, <1>3 DEF TcpNext

\* What a step of the composition is for the client.
ClientStep ==
    \/ UNCHANGED vars
    \/ \E t \in Threads : CallStart(t)
    \/ started /\ \E t \in Threads, cmd \in Cmds : SubscribeNotification(t, cmd)
    \/ notifications = Cmds
         /\ \E t \in Threads, opt \in SendOpts : SendReqAsync(t, opt)
    \/ RunHandler
    \/ Second
    \/ Network

LEMMA ClientSteps == ASSUME ClientStep PROVE [Next]_vars
  BY DEF ClientStep, Next, CallAPI

\* What is under way on the current connection, the client has sent on it.
CurSession ==
    socket = "up" =>
      /\ cur_session_id \in S!Sessions
      /\ \A i \in Requests :
           \/ Holds(conn[cur_session_id].to_server, S!Request(i))
           \/ <<cur_session_id, i>> \in taken
           \/ Holds(conn[cur_session_id].to_client, S!Response(i))
           => i \in on_wire

Linked ==
    /\ TypeInv /\ SP!TypeInv /\ ProcessedType /\ CurSession
    /\ delay \in 0..MaxDelay /\ acceptor_open

LEMMA ArrivesOnWire ==
  ASSUME SP!TypeInv, CurSession, PacketArrives
  PROVE  Network
<1>1. socket = "up" /\ cur_session_id \in S!Sessions
  BY DEF PacketArrives, CurSession
<1> DEFINE channel == conn[cur_session_id].to_client
           m == Head(channel)
<1>2. m \in S!ToClient /\ channel # <<>> /\ channel \in Seq(S!ToClient) /\ ReadReady(m)
  BY <1>1, PacketArrivesServes
<1>3. Holds(channel, m)
  BY <1>2, HoldsHead
<1> HIDE DEF channel
<1>4. CASE m.id \in Requests /\ m = S!Response(m.id)
  <2>1. m.id \in on_wire
    BY <1>1, <1>3, <1>4 DEF CurSession, channel
  <2>2. ReadReady(Response(m.id))
    BY <1>2, <1>4 DEF S!Response, Response
  <2>3. QED BY <2>1, <2>2 DEF Network
<1>5. CASE m.id \in Pushes /\ m = S!Push(m.id)
  <2>1. ReadReady(Push(m.id))
    BY <1>2, <1>5 DEF S!Push, Push
  <2>2. QED BY <1>5, <2>1 DEF Network
<1>6. QED BY <1>2, <1>4, <1>5, PacketsAre

LEMMA StepsOfClient ==
  ASSUME Linked, [TcpNext]_tcpVars PROVE ClientStep
<1>1. CASE UNCHANGED tcpVars
  BY <1>1 DEF tcpVars, ClientStep
<1>2. CASE ServerAlone
  BY <1>2, ServerAloneMoves DEF Linked, ServerMoves, ClientStep
<1>3. CASE Calls
  BY <1>3 DEF Calls, StartClient, Subscribe, SendRequest, ClientStep
<1>4. CASE ClientHandler
  BY <1>4 DEF ClientHandler, ClientStep
<1>5. CASE Connected \/ ClientNetwork
  BY <1>5
     DEF Connected, ClientNetwork, ConnectFails, ClientNotices, ClientReadFails,
     Network, ClientStep
<1>6. CASE PacketArrives
  BY <1>6, ArrivesOnWire DEF Linked, ClientStep
<1>7. CASE BothSecond
  BY <1>7 DEF BothSecond, ClientStep
<1>8. QED BY <1>1, <1>2, <1>3, <1>4, <1>5, <1>6, <1>7, Kinds

LEMMA ConnectedOpens ==
  ASSUME SP!TypeInv, acceptor_open, Connected
  PROVE  LET new == cur_session_id' IN
         /\ new = cur_session_id + 1 /\ new \in S!Sessions
         /\ cur_session_id \in Nat /\ new \notin DOMAIN sessions
         /\ DOMAIN sessions' = DOMAIN sessions \union {new}
         /\ sessions'[new] = S!NewSession
         /\ \A s \in DOMAIN sessions : sessions'[s] = sessions[s]
         /\ conn'[new] = S!NewConnection
         /\ \A s \in S!Sessions : s # new => conn'[s] = conn[s]
         /\ UNCHANGED <<cur_seq, taken, acceptor_open, srv_timers, resultVars>>
         /\ ConnectDone(TRUE) /\ ServerSteps
<1>1. /\ S!RunAccept("ok") /\ ConnectDone(TRUE) /\ UNCHANGED resultVars
  BY DEF Connected
<1>2. /\ accepted["ok"] > 0
      /\ cur_session_id' = cur_session_id + 1
      /\ sessions' = [s \in DOMAIN sessions \union {cur_session_id'} |->
                        IF s = cur_session_id' THEN S!NewSession ELSE sessions[s]]
      /\ conn' = [conn EXCEPT ![cur_session_id'] = S!NewConnection]
      /\ UNCHANGED <<cur_seq, taken, acceptor_open, srv_timers>>
  BY <1>1 DEF S!RunAccept, S!StillOpen, S!timerVars
<1>3. /\ cur_session_id \in Nat /\ cur_session_id' \in S!Sessions
  BY <1>2, ServerFields, Numbering
<1>4. cur_session_id' \notin DOMAIN sessions
  BY <1>2, <1>3, SessionFacts
<1>5. conn = [s \in S!Sessions |-> conn[s]]
  BY ConnParts
<1>6. conn'[cur_session_id'] = S!NewConnection
      /\ \A s \in S!Sessions : s # cur_session_id' => conn'[s] = conn[s]
  BY <1>2, <1>3, <1>5
<1>7. QED BY <1>1, <1>2, <1>3, <1>4, <1>6 DEF ServerSteps

\* A session in a second.
LEMMA SecondSessions ==
  ASSUME SP!TypeInv, S!Second
  PROVE  /\ UNCHANGED <<cur_session_id, cur_seq, acceptor_open, conn, taken>>
         /\ DOMAIN sessions' = DOMAIN sessions
         /\ \A s \in DOMAIN sessions :
              LET old == sessions[s]
                  new == sessions'[s]
              IN
              /\ new.last_recv = S!Capped(old.last_recv, HeartbeatInterval)
              /\ new.rencently_packet_tracker = Aged(old.rencently_packet_tracker)
              /\ new.read_pending = old.read_pending
              /\ new.check_timer = "due"
              /\ DOMAIN new.write_packets = DOMAIN old.write_packets
              /\ \A p \in DOMAIN old.write_packets :
                   /\ new.write_packets[p].cur_tries = old.write_packets[p].cur_tries
                   /\ new.write_packets[p].since =
                        S!Capped(old.write_packets[p].since, ResendInterval)
<1>1. /\ UNCHANGED <<cur_session_id, cur_seq, acceptor_open, conn, taken>>
      /\ sessions' =
           [s \in DOMAIN sessions |->
              [sessions[s] EXCEPT
                 !.last_recv = S!Capped(@, HeartbeatInterval),
                 !.rencently_packet_tracker = S!Aged(@),
                 !.check_timer = IF @ = "armed" THEN "due" ELSE @,
                 !.write_packets =
                    [p \in S!Pending(s) |-> S!Older(sessions[s].write_packets[p])]]]
  BY DEF S!Second, S!acceptVars
<1>2. DOMAIN sessions' = DOMAIN sessions
  BY <1>1
<1>3. ASSUME NEW s \in DOMAIN sessions
      PROVE  LET old == sessions[s]
                 new == sessions'[s]
             IN
             /\ new.last_recv = S!Capped(old.last_recv, HeartbeatInterval)
             /\ new.rencently_packet_tracker = Aged(old.rencently_packet_tracker)
             /\ new.read_pending = old.read_pending
             /\ new.check_timer = "due"
             /\ new.write_packets =
                  [p \in S!Pending(s) |-> S!Older(old.write_packets[p])]
  <2> DEFINE old == sessions[s]
             later == [p \in S!Pending(s) |-> S!Older(old.write_packets[p])]
             heard_ago == S!Capped(old.last_recv, HeartbeatInterval)
             ages == S!Aged(old.rencently_packet_tracker)
             timer == IF old.check_timer = "armed" THEN "due" ELSE old.check_timer
  <2>1. sessions'[s] = [old EXCEPT !.last_recv = heard_ago,
                                   !.rencently_packet_tracker = ages,
                                   !.check_timer = timer,
                                   !.write_packets = later]
    BY <1>1
  <2>2. /\ DOMAIN old = { "last_recv", "rencently_packet_tracker",
                   "write_packets", "read_pending", "check_timer" }
        /\ old.check_timer \in {"armed", "due"}
    BY SessionFacts
  <2>3. timer = "due"
    BY <2>2
  <2>4. ages = Aged(old.rencently_packet_tracker)
    BY DEF S!Aged, Aged
  <2> HIDE DEF later, heard_ago, ages, timer, old
  <2>5. /\ sessions'[s].last_recv = heard_ago
        /\ sessions'[s].rencently_packet_tracker = ages
        /\ sessions'[s].check_timer = timer
        /\ sessions'[s].write_packets = later
        /\ sessions'[s].read_pending = old.read_pending
    BY <2>1, <2>2
  <2>6. QED BY <2>3, <2>4, <2>5 DEF later, heard_ago, old
<1>4. ASSUME NEW s \in DOMAIN sessions
      PROVE  LET old == sessions[s]
                 new == sessions'[s]
             IN
             /\ DOMAIN new.write_packets = DOMAIN old.write_packets
             /\ \A p \in DOMAIN old.write_packets :
                  /\ new.write_packets[p].cur_tries = old.write_packets[p].cur_tries
                  /\ new.write_packets[p].since =
                       S!Capped(old.write_packets[p].since, ResendInterval)
  <2>1. /\ S!Pending(s) = DOMAIN sessions[s].write_packets
        /\ \A p \in DOMAIN sessions[s].write_packets :
             sessions[s].write_packets[p] \in
               [cur_tries : 1..ResendTries, since : 0..ResendInterval]
    BY SessionFacts
  <2>2. ASSUME NEW info \in [cur_tries : 1..ResendTries, since : 0..ResendInterval]
        PROVE  /\ S!Older(info).cur_tries = info.cur_tries
               /\ S!Older(info).since = S!Capped(info.since, ResendInterval)
    BY DEF S!Older
  <2>3. QED BY <1>3, <2>1, <2>2
<1>5. QED BY <1>1, <1>2, <1>3, <1>4

LEMMA InitLinked == TcpInit => Linked
<1> SUFFICES ASSUME TcpInit PROVE Linked
  OBVIOUS
<1>1. TypeInv
  BY InitTypes DEF TcpInit
<1>2. SP!TypeInv
  <2>1. SP!Init
    BY DEF TcpInit, S!Init, SP!Init, S!NewSession, SP!NewSession, S!Forgotten,
       SP!Forgotten, S!Outcomes, SP!Outcomes, S!Sessions, SP!Sessions,
       S!NoConnection, SP!NoConnection, S!PushIds, SP!PushIds
  <2>2. QED BY <2>1, SP!InitTypes, ServerConstants, WindowAssumption
<1>3. ProcessedType /\ acceptor_open /\ delay \in 0..MaxDelay
  BY CompositionAssumption DEF TcpInit, S!Init, ProcessedType
<1>4. CurSession
  BY DEF TcpInit, Init, CurSession
<1>5. QED BY <1>1, <1>2, <1>3, <1>4 DEF Linked

LEMMA NextServerTypes ==
  ASSUME Linked, [TcpNext]_tcpVars
  PROVE  SP!TypeInv' /\ ProcessedType' /\ acceptor_open'
<1>1. TypeInv /\ SP!TypeInv /\ ProcessedType /\ acceptor_open /\ CurSession
  BY DEF Linked
<1>2. CASE UNCHANGED <<srvVars, processed>>
  BY <1>1, <1>2
     DEF srvVars, restVars, ProcessedType, SP!TypeInv, SP!FieldsOK, SP!CountersOK,
     SP!CountsOK, SP!Room, SP!TimersOK, SP!SessionsOK, SP!HistoryOK, SP!ConnOK
<1>3. CASE ServerAlone
  <2>1. SP!TypeInv' /\ acceptor_open' = acceptor_open
    BY <1>1, <1>3, ServerAloneMoves, ServerTypes DEF ServerMoves
  <2>2. CASE UNCHANGED processed
    BY <1>1, <2>1, <2>2 DEF ProcessedType
  <2>3. ASSUME NEW s \in S!Sessions,
               processed' =
                 [processed EXCEPT ![s] = [i \in Requests |->
                    IF Processes(s, i) THEN processed[s][i] + 1
                                       ELSE processed[s][i]]]
        PROVE  ProcessedType'
    <3>1. [i \in Requests |-> IF Processes(s, i) THEN processed[s][i] + 1
                                                 ELSE processed[s][i]]
            \in [Requests -> Nat]
      BY <1>1 DEF ProcessedType
    <3>2. processed' \in [S!Sessions -> [Requests -> Nat]]
      BY <1>1, <2>3, <3>1 DEF ProcessedType
    <3>3. QED BY <3>2 DEF ProcessedType, S!Sessions
  <2>4. UNCHANGED processed \/ ServerHandler
    BY <1>3
       DEF ServerAlone, StartServer, RegisterProcessor, SendResponse, Publish,
       ServerTimer, ConnectionRequested, AcceptCompletes, ConnectionBreaks,
       resultVars
  <2>5. QED BY <1>1, <2>1, <2>2, <2>3, <2>4 DEF ServerHandler
<1>4. CASE ClientHandler
  <2>1. UNCHANGED restVars /\ processed' = processed
    BY <1>4 DEF ClientHandler
  <2>2. QED
    BY <1>1, <1>4, <2>1, ClientHandlerServes DEF restVars, ProcessedType
<1>5. CASE PacketArrives
  <2>1. UNCHANGED restVars /\ processed' = processed
    BY <1>5 DEF PacketArrives, resultVars
  <2>2. cur_session_id \in S!Sessions
    BY <1>1, <1>5 DEF PacketArrives, CurSession
  <2>3. QED
    BY <1>1, <1>5, <2>1, <2>2, PacketArrivesServes DEF restVars, ProcessedType
<1>6. CASE Connected
  BY <1>1, <1>6, ConnectedOpens, ServerTypes DEF resultVars, ProcessedType
<1>7. CASE BothSecond
  <2>1. S!Second /\ processed' = processed
    BY <1>7 DEF BothSecond, resultVars
  <2>2. QED
    BY <1>1, <2>1, SecondSessions, ServerTypes DEF ServerSteps, ProcessedType
<1>8. CASE UNCHANGED tcpVars \/ Calls \/ ClientNetwork
  <2>1. UNCHANGED <<srvVars, processed>>
    BY <1>8
       DEF tcpVars, resultVars, Calls, StartClient, Subscribe, SendRequest,
       ClientNetwork, ConnectFails, ClientNotices, ClientReadFails
  <2>2. QED BY <1>2, <2>1
<1>9. QED BY <1>3, <1>4, <1>5, <1>6, <1>7, <1>8, Kinds

LEMMA ServerKeepsSession ==
  ASSUME Linked, ServerMoves PROVE CurSession'
<1> SUFFICES ASSUME socket' = "up" PROVE CurSession'
  BY DEF CurSession
<1>1. UNCHANGED <<socket, cur_session_id, on_wire>>
  BY DEF ServerMoves, vars, netVars
<1>2. cur_session_id \in S!Sessions
  BY <1>1 DEF Linked, CurSession
<1>3. ASSUME NEW i \in Requests,
             \/ Holds(conn'[cur_session_id].to_server, S!Request(i))
             \/ <<cur_session_id, i>> \in taken'
             \/ Holds(conn'[cur_session_id].to_client, S!Response(i))
      PROVE  \/ Holds(conn[cur_session_id].to_server, S!Request(i))
             \/ <<cur_session_id, i>> \in taken
             \/ Holds(conn[cur_session_id].to_client, S!Response(i))
  <2>1. CASE Holds(conn'[cur_session_id].to_server, S!Request(i))
    BY <1>2, <2>1 DEF ServerMoves, ChannelsMove
  <2>2. CASE <<cur_session_id, i>> \in taken'
    BY <1>2, <2>2 DEF ServerMoves, RequestsMove
  <2>3. CASE Holds(conn'[cur_session_id].to_client, S!Response(i))
    <3>1. /\ \A j \in Requests : S!Response(i) = S!Response(j) => i = j
          /\ \A p \in Pushes : S!Response(i) # S!Push(p)
      BY DEF S!Response, S!Push
    <3>2. QED BY <1>2, <2>3, <3>1 DEF ServerMoves, ChannelsMove
  <2>4. QED BY <1>3, <2>1, <2>2, <2>3
<1>4. \A i : S!Request(i)' = S!Request(i) /\ S!Response(i)' = S!Response(i)
  BY DEF S!Request, S!Response
<1>5. QED BY <1>1, <1>2, <1>3, <1>4 DEF Linked, CurSession, Holds, S!Sessions

LEMMA NextSession ==
  ASSUME Linked, [TcpNext]_tcpVars PROVE CurSession'
<1>1. TypeInv /\ SP!TypeInv /\ acceptor_open /\ CurSession
  BY DEF Linked
<1> SUFFICES ASSUME socket' = "up" PROVE CurSession'
  BY DEF CurSession
<1> USE DEF CurSession
<1>2. CASE ServerAlone
  BY <1>1, <1>2, ServerAloneMoves, ServerKeepsSession DEF Linked
<1>3. CASE ClientHandler
  <2>1. HandlerWrites /\ RunHandler /\ UNCHANGED <<cur_session_id, taken>>
    BY <1>1, <1>3, ClientHandlerWrites DEF ClientHandler, restVars
  <2>2. /\ socket = "up" /\ on_wire \subseteq on_wire'
        /\ \A i \in Requests : Holds(Outgoing, S!Request(i)) => i \in on_wire'
    BY <1>1, <2>1, HandlerWire
  <2>3. cur_session_id \in S!Sessions
    BY <1>1, <2>2
  <2>4. ASSUME NEW i \in Requests, Holds(conn'[cur_session_id].to_server, S!Request(i))
        PROVE  i \in on_wire'
    BY <1>1, <2>1, <2>2, <2>3, <2>4 DEF HandlerWrites
  <2>5. ASSUME NEW i \in Requests, Holds(conn'[cur_session_id].to_client, S!Response(i))
        PROVE  i \in on_wire'
    BY <1>1, <2>1, <2>2, <2>3, <2>5, HoldsNone DEF HandlerWrites
  <2>6. QED BY <1>1, <2>1, <2>2, <2>3, <2>4, <2>5
<1>4. CASE PacketArrives
  <2>1. /\ socket = "up" /\ UNCHANGED <<cur_session_id, taken, on_wire>>
    BY <1>4 DEF PacketArrives, ReadReady, restVars
  <2>2. cur_session_id \in S!Sessions
    BY <1>1, <2>1
  <2>3. /\ conn'[cur_session_id].to_server = conn[cur_session_id].to_server
        /\ \A m : Holds(conn'[cur_session_id].to_client, m) =>
                    Holds(conn[cur_session_id].to_client, m)
    BY <1>1, <1>4, <2>2, PacketArrivesServes, HoldsTail
  <2>4. QED BY <1>1, <2>1, <2>2, <2>3
<1>5. CASE Connected /\ taken = {}
  <2>1. /\ cur_session_id' \in S!Sessions /\ taken' = {}
        /\ conn'[cur_session_id'] = S!NewConnection
    BY <1>1, <1>5, ConnectedOpens
  <2>2. S!NewConnection.to_server = <<>> /\ S!NewConnection.to_client = <<>>
    BY DEF S!NewConnection, S!NoConnection
  <2>3. QED BY <2>1, <2>2, HoldsNone
<1>6. CASE BothSecond
  <2>1. UNCHANGED <<socket, on_wire, cur_session_id, conn, taken>>
    BY <1>1, <1>6, SecondSessions DEF BothSecond, Second, netVars
  <2>2. QED BY <1>1, <2>1
<1>7. CASE UNCHANGED tcpVars \/ Calls
  <2>1. UNCHANGED <<socket, on_wire, cur_session_id, conn, taken>>
    BY <1>7
       DEF tcpVars, vars, srvVars, restVars, netVars, Calls, StartClient, Subscribe,
       SendRequest, CallStart, SubscribeNotification, SendReqAsync
  <2>2. QED BY <1>1, <2>1
<1>8. CASE ClientNetwork
  <2>1. socket' # "up"
    BY <1>8
       DEF ClientNetwork, ConnectFails, ClientNotices, ClientReadFails,
       ConnectDone, LinkBreaks, ReadFails
  <2>2. QED BY <2>1
<1>9. QED BY <1>2, <1>3, <1>4, <1>5, <1>6, <1>7, <1>8, Kinds

LEMMA NextLinked ==
  ASSUME Linked, [TcpNext]_tcpVars PROVE Linked'
<1>1. TypeInv'
  BY StepsOfClient, ClientSteps, NextTypes DEF Linked
<1>2. delay' \in 0..MaxDelay
  <2>1. delay \in 0..MaxDelay /\ MaxDelay \in Nat
    BY CompositionAssumption DEF Linked
  <2>2. CASE BothSecond
    BY <2>1, <2>2 DEF BothSecond
  <2>3. CASE delay' = delay \/ delay' = 0
    BY <2>1, <2>3
  <2>4. QED BY <2>2, <2>3, Kinds DEF tcpVars
<1>3. QED BY <1>1, <1>2, NextServerTypes, NextSession DEF Linked

LEMMA AlwaysLinked == TcpSpec => []Linked
<1>1. TcpInit => Linked
  BY InitLinked
<1>2. Linked /\ [TcpNext]_tcpVars => Linked'
  BY NextLinked
<1>3. QED BY <1>1, <1>2, PTL DEF TcpSpec

(* The composition is a client that talks to a peer of its kind: whatever  *)
(* is proved of reliable_tcp_client_t with a network that may deliver an   *)
(* answer to any request it wrote, and any notification, holds of the      *)
(* client that talks to reliable_tcp_server_t.                             *)
THEOREM TcpClient == TcpSpec => Spec
<1>1. TcpInit => Init
  BY DEF TcpInit
<1>2. Linked /\ [TcpNext]_tcpVars => [Next]_vars
  BY StepsOfClient, ClientSteps
<1>3. QED BY <1>1, <1>2, AlwaysLinked, PTL DEF TcpSpec, Spec

-----------------------------------------------------------------------------
(* The queue of a client that is neither stopped nor cancelled.            *)

\* The application neither stops the client nor cancels a request.
NoStops ==
    \A n \in 1..Len(ioq) :
      ioq[n].op \notin {"stop", "cancel", "unsubscribe", "timer_stop"}

\* The queue grew at its end.
Behind(ops) ==
    /\ Len(ioq) \in Nat /\ Len(ioq') \in Nat
    /\ \A n \in 1..Len(ioq) : n \in 1..Len(ioq') /\ ioq'[n] = ioq[n]
    /\ \A n \in 1..Len(ioq') :
         n \in 1..Len(ioq) \/ (n > Len(ioq) /\ ioq'[n].op \in ops)

\* Its first handler ran, and queued these.
Shifted(ops) ==
    /\ Len(ioq) \in Nat \ {0} /\ Len(ioq') \in Nat
    /\ \A n \in 1..Len(ioq) :
         n # 1 => n - 1 \in 1..Len(ioq') /\ ioq'[n - 1] = ioq[n]
    /\ \A n \in 1..Len(ioq') :
         \/ n + 1 \in 1..Len(ioq) /\ n + 1 # 1 /\ ioq'[n] = ioq[n + 1]
         \/ n + 1 > Len(ioq) /\ ioq'[n].op \in ops

LEMMA QueuesShifted ==
  ASSUME TypeInv, ioq # <<>>, NEW handlers \in Seq(Handlers), Queues(handlers),
         NEW ops, \A k \in 1..Len(handlers) : handlers[k].op \in ops
  PROVE  Shifted(ops)
<1>1. /\ ioq' \in Seq(Handlers)
      /\ Len(ioq) \in Nat \ {0} /\ Len(handlers) \in Nat
      /\ Len(ioq') = Len(ioq) - 1 + Len(handlers)
      /\ \A n \in 1..(Len(ioq) - 1) : ioq'[n] = ioq[n + 1]
      /\ \A k \in 1..Len(handlers) : ioq'[Len(ioq) - 1 + k] = handlers[k]
  BY QueueAfter DEF TypeInv
<1>2. ASSUME NEW n \in 1..Len(ioq), n # 1
      PROVE  n - 1 \in 1..Len(ioq') /\ ioq'[n - 1] = ioq[n]
  <2>1. n - 1 \in 1..(Len(ioq) - 1) /\ (n - 1) + 1 = n
    BY <1>1, <1>2
  <2>2. QED BY <1>1, <2>1
<1>3. ASSUME NEW n \in 1..Len(ioq')
      PROVE  \/ n + 1 \in 1..Len(ioq) /\ n + 1 # 1 /\ ioq'[n] = ioq[n + 1]
             \/ n + 1 > Len(ioq) /\ ioq'[n].op \in ops
  <2>1. CASE n + 1 \in 1..Len(ioq)
    <3>1. n \in 1..(Len(ioq) - 1) /\ n + 1 # 1
      BY <1>1, <2>1
    <3>2. QED BY <1>1, <2>1, <3>1
  <2>2. CASE n + 1 \notin 1..Len(ioq)
    <3>1. /\ n + 1 > Len(ioq) /\ n - (Len(ioq) - 1) \in 1..Len(handlers)
          /\ Len(ioq) - 1 + (n - (Len(ioq) - 1)) = n
      BY <1>1, <2>2
    <3>2. ioq'[n] = handlers[n - (Len(ioq) - 1)]
      BY <1>1, <3>1
    <3>3. QED BY <3>1, <3>2
  <2>3. QED BY <2>1, <2>2
<1>4. Len(ioq') \in Nat
  BY <1>1
<1>5. QED BY <1>1, <1>2, <1>3, <1>4 DEF Shifted

LEMMA NoneShifted ==
  ASSUME TypeInv, ioq # <<>>, Queues(<<>>) PROVE Shifted({})
<1>1. <<>> \in Seq(Handlers) /\ \A k \in 1..Len(<<>>) : <<>>[k].op \in {}
  OBVIOUS
<1>2. QED BY <1>1, QueuesShifted

LEMMA HandlerShifts ==
  ASSUME TypeInv, RunHandler, ~RunStop
  PROVE  /\ Shifted(CompletionOps \union {"timer_start"})
         /\ ~RunStart \/ started => Shifted(CompletionOps)
<1>1. CASE ~RunStart
  <2>1. PICK handlers \in Seq(Completions) : ioq # <<>> /\ Queues(handlers)
    BY <1>1, OnlyCompletions
  <2>2. handlers \in Seq(Handlers)
    BY SeqWider, CompletionTypes
  <2>3. \A k \in 1..Len(handlers) : handlers[k].op \in CompletionOps
    BY CompletionTypes DEF CompletionOps
  <2>4. QED BY <2>1, <2>2, <2>3, QueuesShifted
<1>2. CASE RunStart /\ started
  <2>1. ioq # <<>> /\ Queues(<<>>)
    BY <1>2 DEF RunStart, Runs
  <2>2. <<>> \in Seq(Handlers) /\ \A k \in 1..Len(<<>>) : <<>>[k].op \in CompletionOps
    OBVIOUS
  <2>3. QED BY <2>1, <2>2, QueuesShifted
<1>3. CASE RunStart /\ ~started
  <2>1. PICK handlers \in Seq(Handlers) :
           /\ ioq # <<>> /\ Queues(handlers)
           /\ \A k \in 1..Len(handlers) : NewTick(handlers[k])
    BY <1>3, StartQueues
  <2>2. \A k \in 1..Len(handlers) : handlers[k].op \in CompletionOps \union {"timer_start"}
    BY <2>1 DEF NewTick
  <2>3. QED BY <1>3, <2>1, <2>2, QueuesShifted
<1>4. QED BY <1>1, <1>2, <1>3

LEMMA RunsFirst ==
  ASSUME TypeInv, NEW op, Runs(op) PROVE 1 \in 1..Len(ioq) /\ ioq[1].op = op /\ Head(ioq) = ioq[1]
  BY NextHandler DEF TypeInv

LEMMA NeverStops ==
  ASSUME TypeInv, NoStops PROVE ~RunStop /\ ~RunCancel /\ ~RunTimerStop /\ ~Runs("unsubscribe")
  BY RunsFirst DEF NoStops, RunStop, RunCancel, RunTimerStop

\* A handler that leaves the socket up queues nothing.
LEMMA UpShifts ==
  ASSUME TypeInv, NoStops, RunHandler, socket' = "up" PROVE Shifted({})
<1>1. socket = "up" /\ ioq # <<>> /\ ~RunStop
  BY HandlerWire, NeverStops, HandlerTypes DEF Consuming, Consumes
<1>2. Queues(<<>>)
  <2>1. CASE RunStart
    BY <1>1, <2>1 DEF RunStart, DoConnect
  <2>2. CASE RunSend \/ RunReadPush
    BY <1>1, <2>2 DEF RunSend, RunReadPush, WriteErrors
  <2>3. CASE RunTimer
    BY <1>1, <2>3 DEF RunTimer, DoConnect, WriteErrors
  <2>4. CASE RunReadError \/ RunWriteError
    BY <1>1, <2>4 DEF RunReadError, RunWriteError, DoClose, AbortedByClose
  <2>5. CASE RunCancel \/ RunSubscription \/ RunTimerStart \/ RunTimerStop
               \/ RunConnect \/ RunReadResponse
    BY <2>5
       DEF RunCancel, RunSubscription, RunTimerStart, RunTimerStop, RunConnect,
       RunReadResponse
  <2>6. QED BY <1>1, <2>1, <2>2, <2>3, <2>4, <2>5 DEF RunHandler
<1>3. QED BY <1>1, <1>2, NoneShifted

LEMMA PostingBehind ==
  ASSUME TypeInv, NEW h, Posting(h)
  PROVE  /\ Behind({h.op})
         /\ Len(ioq') = Len(ioq) + 1 /\ ioq'[Len(ioq) + 1] = h
<1>1. /\ Len(ioq) \in Nat /\ Len(ioq') = Len(ioq) + 1
      /\ \A n \in 1..Len(ioq) : ioq'[n] = ioq[n]
      /\ ioq'[Len(ioq) + 1] = h
  BY PostedBehind
<1>2. \A n \in 1..Len(ioq') : n \in 1..Len(ioq) \/ n = Len(ioq) + 1
  BY <1>1
<1>3. Len(ioq) + 1 > Len(ioq)
  BY <1>1
<1>4. QED BY <1>1, <1>2, <1>3 DEF Behind

\* The ticks of a second.
LEMMA SecondTicks ==
  ASSUME TypeInv, Second
  PROVE  /\ Behind({"timer"})
         /\ \A n \in 1..Len(ioq') :
              n \in 1..Len(ioq) \/ ioq'[n].timer \in DOMAIN timers
         /\ \A t \in DOMAIN timers : timers[t] = "armed" =>
              \E n \in 1..Len(ioq') : ioq'[n].op = "timer" /\ ioq'[n].timer = t
         /\ DOMAIN timers = {} => ioq' = ioq
<1> DEFINE armed == { t \in DOMAIN timers : timers[t] = "armed" }
           expired == Ascending(armed, cur_timer_id)
           handlers == [n \in 1..Len(expired) |->
                          [op |-> "timer", timer |-> expired[n]]]
<1>1. ioq' = ioq \o handlers
  BY DEF Second
<1>2. cur_timer_id \in Nat /\ DOMAIN timers \subseteq 1..cur_timer_id /\ ioq \in Seq(Handlers)
  BY DEF TypeInv, TimersOK, QueueOK
<1>3. armed \subseteq DOMAIN timers /\ armed \intersect (1..cur_timer_id) = armed
  BY <1>2
<1> HIDE DEF armed
<1>4. expired \in Seq(armed)
  BY <1>2, <1>3, AscendingType
<1>5. ASSUME NEW t \in armed PROVE \E k \in 1..Len(expired) : expired[k] = t
  BY <1>2, <1>3, AscendingCovers
<1>6. Len(expired) \in Nat /\ \A n \in 1..Len(expired) : expired[n] \in armed /\ expired[n] \in Nat
  BY <1>2, <1>3, <1>4
<1> HIDE DEF expired
<1>7. /\ handlers \in Seq(Handlers) /\ Len(handlers) = Len(expired)
      /\ \A n \in 1..Len(expired) : /\ handlers[n].op = "timer"
                                    /\ handlers[n].timer = expired[n]
  BY <1>6 DEF Handlers
<1> HIDE DEF handlers
<1>8. /\ Len(ioq) \in Nat /\ Len(handlers) \in Nat
      /\ Len(ioq') = Len(ioq) + Len(handlers)
      /\ \A n \in 1..Len(ioq) : ioq'[n] = ioq[n]
      /\ \A k \in 1..Len(handlers) : ioq'[Len(ioq) + k] = handlers[k]
  <2>1. handlers \in Seq(Handlers) /\ ioq \in Seq(Handlers)
    BY <1>2, <1>7
  <2>2. /\ Len(ioq \o handlers) = Len(ioq) + Len(handlers)
        /\ \A n \in 1..Len(ioq) : (ioq \o handlers)[n] = ioq[n]
        /\ \A k \in 1..Len(handlers) : (ioq \o handlers)[Len(ioq) + k] = handlers[k]
    BY <2>1, Joined
  <2>3. Len(ioq) \in Nat /\ Len(handlers) \in Nat
    BY <2>1
  <2>4. QED BY <1>1, <2>2, <2>3
<1>9. ASSUME NEW n \in 1..Len(ioq'), n \notin 1..Len(ioq)
      PROVE  n > Len(ioq) /\ ioq'[n].op = "timer" /\ ioq'[n].timer \in DOMAIN timers
  <2>1. /\ n > Len(ioq) /\ n - Len(ioq) \in 1..Len(handlers)
        /\ Len(ioq) + (n - Len(ioq)) = n
    BY <1>8, <1>9
  <2>2. ioq'[n] = handlers[n - Len(ioq)]
    BY <1>8, <2>1
  <2>3. QED BY <1>3, <1>6, <1>7, <2>1, <2>2
<1>10. ASSUME NEW t \in DOMAIN timers, timers[t] = "armed"
       PROVE  \E n \in 1..Len(ioq') : ioq'[n].op = "timer" /\ ioq'[n].timer = t
  <2>1. t \in armed
    BY <1>10 DEF armed
  <2>2. PICK k \in 1..Len(handlers) : expired[k] = t
    BY <1>5, <1>7, <2>1
  <2>3. Len(ioq) + k \in 1..Len(ioq')
    BY <1>8
  <2>4. ioq'[Len(ioq) + k].op = "timer" /\ ioq'[Len(ioq) + k].timer = t
    BY <1>7, <1>8, <2>2
  <2>5. QED BY <2>3, <2>4
<1>11. ASSUME DOMAIN timers = {} PROVE ioq' = ioq
  <2>1. Len(handlers) = 0
    <3>1. \A n \in 1..Len(expired) : FALSE
      BY <1>3, <1>6, <1>11
    <3>2. QED BY <1>6, <1>7, <3>1
  <2>2. handlers = <<>>
    BY <1>7, <2>1
  <2>3. QED BY <1>1, <1>2, <2>2
<1>12. Behind({"timer"})
  <2>1. Len(ioq') \in Nat /\ \A n \in 1..Len(ioq) : n \in 1..Len(ioq')
    BY <1>8
  <2>2. QED BY <1>8, <1>9, <2>1 DEF Behind
<1>13. QED BY <1>9, <1>10, <1>11, <1>12

\* What the client's other steps queue.
LEMMA OthersPost ==
  ASSUME TypeInv, ClientStep, ~RunHandler, ~Second
  PROVE  \/ UNCHANGED ioq
         \/ \E h : /\ Posting(h)
                   /\ h.op \in {"start", "subscribe", "send", "read", "read_error"}
         \/ \E ok \in BOOLEAN : /\ ConnectDone(ok)
                                /\ Posting([op |-> "connect", ok |-> ok])
<1>1. CASE UNCHANGED vars
  BY <1>1 DEF vars, queueVars
<1>2. ASSUME NEW t \in Threads, CallStart(t)
      PROVE  \E h : Posting(h) /\ h.op = "start"
  <2>1. Posting([op |-> "start", thread |-> t])
    BY <1>2 DEF CallStart, Posting, Handlers
  <2>2. QED BY <2>1
<1>3. ASSUME NEW t \in Threads, NEW cmd \in Cmds, SubscribeNotification(t, cmd)
      PROVE  \E h : Posting(h) /\ h.op = "subscribe"
  <2>1. Posting([op |-> "subscribe", cmd |-> cmd])
    BY <1>3 DEF SubscribeNotification, Posting, Handlers
  <2>2. QED BY <2>1
<1>4. ASSUME NEW t \in Threads, NEW opt \in SendOpts, SendReqAsync(t, opt)
      PROVE  \E h : Posting(h) /\ h.op = "send"
  <2>1. Posting([op |-> "send", id |-> cur_send_id', opt |-> opt])
    BY <1>4, SendTypes
  <2>2. QED BY <2>1
<1>5. ASSUME NEW ok \in BOOLEAN, ConnectDone(ok)
      PROVE  Posting([op |-> "connect", ok |-> ok])
  BY <1>5 DEF ConnectDone, Posting, Handlers
<1>6. CASE LinkBreaks
  BY <1>6 DEF LinkBreaks, queueVars
<1>7. ASSUME NEW packet \in [kind : {"response"}, id : Requests]
                              \union [kind : {"push"}, id : Pushes],
             ReadReady(packet)
      PROVE  \E h : Posting(h) /\ h.op = "read"
  <2>1. Posting([op |-> "read", packet |-> packet])
    BY <1>7 DEF ReadReady, Posting, Handlers
  <2>2. QED BY <2>1
<1>8. CASE ReadFails
  <2>1. Posting([op |-> "read_error"])
    BY <1>8 DEF ReadFails, Posting, Handlers
  <2>2. QED BY <2>1
<1>9. /\ \A i \in on_wire : Response(i) \in [kind : {"response"}, id : Requests]
      /\ \A p \in Pushes : Push(p) \in [kind : {"push"}, id : Pushes]
  BY DEF TypeInv, NetOK, Response, Push
<1>10. CASE Network
  BY <1>5, <1>6, <1>7, <1>8, <1>9, <1>10 DEF Network
<1>11. QED BY <1>1, <1>2, <1>3, <1>4, <1>10 DEF ClientStep

LEMMA OthersBehind ==
  ASSUME TypeInv, ClientStep, ~RunHandler, ~Second
  PROVE  \/ UNCHANGED ioq
         \/ \E h : /\ Posting(h)
                   /\ h.op \in {"start", "subscribe", "send", "connect", "read",
                                "read_error"}
<1>1. \A ok : [op |-> "connect", ok |-> ok].op = "connect"
  OBVIOUS
<1>2. QED BY <1>1, OthersPost

NotStarted ==
    ~started =>
      /\ DOMAIN timers = {} /\ socket = "closed" /\ reading = 0
      /\ connect_state = "disconnected" /\ notifications = {}
      /\ DOMAIN write_packets = {}
      /\ \A n \in 1..Len(ioq) : ioq[n].op = "start"

\* Until its timer runs, the client does nothing else.
Starting ==
    started /\ DOMAIN timers = {} =>
      /\ connect_state # "connected" /\ notifications = {}
      /\ DOMAIN write_packets = {}
      /\ \E n \in 1..Len(ioq) :
           /\ ioq[n].op = "timer_start"
           /\ \A m \in 1..Len(ioq) : m < n => ioq[m].op = "start"

\* Every tick is of a timer that runs, and a timer that expired has a tick.
TickWaitsOf(t) == \E n \in 1..Len(ioq) : ioq[n].op = "timer" /\ ioq[n].timer = t

Ticking ==
    /\ \A n \in 1..Len(ioq) : ioq[n].op = "timer" => ioq[n].timer \in DOMAIN timers
    /\ \A t \in DOMAIN timers : timers[t] = "expired" => TickWaitsOf(t)

\* A socket that is up was heard of, or will be before any other attempt.
StaysConnected ==
    connect_state = "connected" /\ \A n \in 1..Len(ioq) : ioq[n].op # "connect"

UpIsConnected ==
    socket = "up" =>
      \/ StaysConnected
      \/ \E n \in 1..Len(ioq) :
           /\ ioq[n].op = "connect" /\ ioq[n].ok
           /\ \A m \in 1..Len(ioq) : m > n => ioq[m].op # "connect"

ClientInv == NoStops /\ NotStarted /\ Starting /\ Ticking /\ UpIsConnected

LEMMA NextNoStops ==
  ASSUME TypeInv, NoStops, ClientStep PROVE NoStops'
<1>1. CASE RunHandler
  <2>1. Shifted(CompletionOps \union {"timer_start"})
    BY <1>1, NeverStops, HandlerShifts
  <2>2. QED BY <2>1 DEF Shifted, NoStops, CompletionOps
<1>2. CASE Second
  BY <1>2, SecondTicks DEF Behind, NoStops
<1>3. CASE ~RunHandler /\ ~Second
  <2>1. CASE UNCHANGED ioq
    BY <2>1 DEF NoStops
  <2>2. ASSUME NEW h, Posting(h),
               h.op \in {"start", "subscribe", "send", "connect", "read", "read_error"}
        PROVE  NoStops'
    BY <2>2, PostingBehind DEF Behind, NoStops
  <2>3. QED BY <1>3, <2>1, <2>2, OthersBehind
<1>4. QED BY <1>1, <1>2, <1>3

LEMMA NextNotStarted ==
  ASSUME TypeInv, NotStarted, ClientStep PROVE NotStarted'
<1> SUFFICES ASSUME ~started' PROVE NotStarted'
  BY DEF NotStarted
<1>1. CASE RunHandler
  <2>1. ~started
    BY <1>1
       DEF RunHandler, RunStart, RunStop, RunSend, RunCancel, RunSubscription,
       RunTimerStart, RunTimerStop, RunTimer, RunConnect, RunReadResponse,
       RunReadPush, RunReadError, RunWriteError, clientVars
  <2>2. ioq # <<>>
    BY <1>1, HandlerTypes DEF Consuming, Consumes
  <2>3. Runs("start")
    BY <2>1, <2>2 DEF NotStarted, Runs, TypeInv, QueueOK
  <2>4. RunStart
    BY <1>1, <2>3
       DEF Runs, RunHandler, RunStart, RunStop, RunSend, RunCancel, RunSubscription,
       RunTimerStart, RunTimerStop, RunTimer, RunConnect, RunReadResponse,
       RunReadPush, RunReadError, RunWriteError
  <2>5. QED BY <2>4 DEF RunStart
<1>2. CASE Second
  <2>1. ~started /\ DOMAIN timers = {} /\ ioq' = ioq
    BY <1>2, SecondTicks DEF NotStarted, Second
  <2>2. QED BY <1>2, <2>1 DEF NotStarted, Second, netVars
<1>3. CASE UNCHANGED vars
  BY <1>3 DEF vars, clientVars, timerVars, netVars, queueVars, NotStarted
<1>4. ASSUME NEW t \in Threads, CallStart(t) PROVE NotStarted'
  <2>1. Posting([op |-> "start", thread |-> t])
    BY <1>4 DEF CallStart, Posting, Handlers
  <2>2. Behind({"start"})
    BY <2>1, PostingBehind
  <2>3. QED BY <1>4, <2>2 DEF Behind, NotStarted, CallStart, clientVars, timerVars, netVars
<1>5. CASE started /\ \E t \in Threads, cmd \in Cmds : SubscribeNotification(t, cmd)
  BY <1>5 DEF SubscribeNotification, clientVars
<1>6. CASE notifications = Cmds /\ \E t \in Threads, opt \in SendOpts : SendReqAsync(t, opt)
  BY <1>6, CompositionAssumption DEF SendReqAsync, NotStarted
<1>7. CASE Network
  <2>1. started' = started
    BY <1>7, NetworkTypes DEF Delivers, clientVars
  <2>2. socket = "closed" /\ reading = 0
    BY <2>1 DEF NotStarted
  <2>3. QED
    BY <1>7, <2>2 DEF Network, ConnectDone, LinkBreaks, ReadReady, ReadFails
<1>8. QED BY <1>1, <1>2, <1>3, <1>4, <1>5, <1>6, <1>7 DEF ClientStep

LEMMA BehindStarting ==
  ASSUME TypeInv, Starting, NEW ops, Behind(ops),
         UNCHANGED <<started, connect_state, notifications>>,
         DOMAIN timers' = DOMAIN timers, DOMAIN write_packets' = DOMAIN write_packets
  PROVE  Starting'
<1> SUFFICES ASSUME started', DOMAIN timers' = {} PROVE Starting'
  BY DEF Starting
<1>1. PICK n \in 1..Len(ioq) :
           /\ ioq[n].op = "timer_start"
           /\ \A m \in 1..Len(ioq) : m < n => ioq[m].op = "start"
  BY DEF Starting
<1>2. n \in 1..Len(ioq') /\ ioq'[n].op = "timer_start"
  BY <1>1 DEF Behind
<1>3. ASSUME NEW m \in 1..Len(ioq'), m < n PROVE ioq'[m].op = "start"
  <2>1. m \in 1..Len(ioq)
    BY <1>1, <1>3 DEF Behind
  <2>2. QED BY <1>1, <1>3, <2>1 DEF Behind
<1>4. QED BY <1>2, <1>3 DEF Starting

LEMMA NextStarting ==
  ASSUME TypeInv, NoStops, NotStarted, Starting, ClientStep PROVE Starting'
<1>1. CASE RunHandler
  <2> SUFFICES ASSUME started', DOMAIN timers' = {} PROVE Starting'
    BY DEF Starting
  <2>1. DOMAIN timers = {} /\ ~RunTimerStart /\ ioq # <<>>
    <3>1. ~RunTimerStop
      BY NeverStops
    <3>2. ~RunTimerStart
      BY DEF RunTimerStart
    <3>3. QED
      BY <1>1, <3>1, <3>2, HandlerTypes
         DEF RunHandler, RunStart, RunStop, RunSend, RunCancel, RunSubscription,
         RunTimer, RunConnect, RunReadResponse, RunReadPush, RunReadError,
         RunWriteError, timerVars, Rearmed, Consuming, Consumes
  <2>2. CASE ~started
    <3>1. Runs("start") /\ \A n \in 1..Len(ioq) : ioq[n].op = "start"
      BY <2>1, <2>2 DEF NotStarted, Runs, TypeInv, QueueOK
    <3>2. RunStart
      BY <1>1, <3>1
         DEF Runs, RunHandler, RunStart, RunStop, RunSend, RunCancel,
         RunSubscription, RunTimerStart, RunTimerStop, RunTimer, RunConnect,
         RunReadResponse, RunReadPush, RunReadError, RunWriteError
    <3>3. /\ connect_state' = "connecting"
          /\ UNCHANGED <<notifications, write_packets>>
      BY <2>2, <3>2 DEF RunStart, DoConnect
    <3>4. PICK n \in 1..Len(ioq') :
            ioq'[n] = [op |-> "timer_start", timer |-> cur_timer_id']
      BY <2>2, <3>2, StartQueued
    <3> DEFINE timed == <<[op |-> "timer_start", timer |-> cur_timer_id']>>
    <3>5. Queues(timed) /\ timed \in Seq(Handlers)
      <4>1. Aborted = <<>> /\ cur_timer_id' \in Nat
        <5>1. socket = "closed" /\ reading = 0 /\ cur_timer_id' = cur_timer_id + 1
          BY <2>2, <3>2 DEF NotStarted, RunStart
        <5>2. [k \in 1..reading |-> [op |-> "read_error"]] = <<>>
          BY <5>1
        <5>3. QED BY <5>1, <5>2 DEF Aborted, TypeInv, TimersOK
      <4>2. timed \in Seq(Handlers)
        BY <4>1 DEF Handlers
      <4>3. Queues(Aborted \o timed)
        BY <2>2, <3>2 DEF RunStart
      <4>4. Aborted \o timed = timed
        BY <4>1, <4>2
      <4>5. QED BY <4>2, <4>3, <4>4
    <3>6. /\ Len(ioq) \in Nat \ {0} /\ Len(timed) = 1
          /\ Len(ioq') = Len(ioq) - 1 + Len(timed)
          /\ \A k \in 1..(Len(ioq) - 1) : ioq'[k] = ioq[k + 1]
      <4>1. Len(timed) = 1
        OBVIOUS
      <4> HIDE DEF timed
      <4>2. QED BY <2>1, <3>5, <4>1, QueueAfter DEF TypeInv
    <3>7. ASSUME NEW m \in 1..Len(ioq'), m < n PROVE ioq'[m].op = "start"
      <4>1. m \in 1..(Len(ioq) - 1) /\ m + 1 \in 1..Len(ioq)
        BY <3>6, <3>7
      <4>2. QED BY <3>1, <3>6, <4>1
    <3>8. ioq'[n].op = "timer_start"
      BY <3>4
    <3>9. QED BY <2>2, <3>3, <3>7, <3>8 DEF Starting, NotStarted
  <2>3. CASE started
    <3>1. PICK n \in 1..Len(ioq) :
             /\ ioq[n].op = "timer_start"
             /\ \A m \in 1..Len(ioq) : m < n => ioq[m].op = "start"
      BY <2>1, <2>3 DEF Starting
    <3>2. 1 \in 1..Len(ioq) /\ Head(ioq) = ioq[1] /\ Len(ioq) \in Nat
      BY <2>1 DEF TypeInv, QueueOK
    <3>3. n # 1
      <4>1. ASSUME n = 1 PROVE FALSE
        <5>1. Runs("timer_start")
          BY <2>1, <3>1, <3>2, <4>1 DEF Runs
        <5>2. QED
          BY <1>1, <2>1, <5>1
             DEF Runs, RunHandler, RunStart, RunStop, RunSend, RunCancel,
             RunSubscription, RunTimerStart, RunTimerStop, RunTimer, RunConnect,
             RunReadResponse, RunReadPush, RunReadError, RunWriteError
      <4>2. QED BY <4>1
    <3>4. Runs("start")
      BY <2>1, <3>1, <3>2, <3>3 DEF Runs
    <3>5. RunStart
      BY <1>1, <3>4
         DEF Runs, RunHandler, RunStart, RunStop, RunSend, RunCancel,
         RunSubscription, RunTimerStart, RunTimerStop, RunTimer, RunConnect,
         RunReadResponse, RunReadPush, RunReadError, RunWriteError
    <3>6. /\ Shifted({})
          /\ UNCHANGED <<connect_state, notifications, write_packets>>
      BY <2>1, <2>3, <3>5, NoneShifted DEF RunStart
    <3>7. n - 1 \in 1..Len(ioq') /\ ioq'[n - 1].op = "timer_start"
      BY <3>1, <3>3, <3>6 DEF Shifted
    <3>8. ASSUME NEW m \in 1..Len(ioq'), m < n - 1 PROVE ioq'[m].op = "start"
      BY <3>1, <3>2, <3>6, <3>8 DEF Shifted
    <3>9. QED BY <2>1, <2>3, <3>6, <3>7, <3>8 DEF Starting
  <2>4. QED BY <2>2, <2>3
<1>2. CASE Second
  BY <1>2, SecondTicks, BehindStarting DEF Second
<1>3. CASE ~RunHandler /\ ~Second
  <2>1. UNCHANGED <<started, connect_state, notifications, timers, write_packets>>
    BY <1>3
       DEF ClientStep, vars, clientVars, timerVars, CallStart, SubscribeNotification,
       SendReqAsync, Network, ConnectDone, LinkBreaks, ReadReady, ReadFails
  <2>2. CASE UNCHANGED ioq
    BY <2>1, <2>2 DEF Starting
  <2>3. ASSUME NEW h, Posting(h) PROVE Starting'
    BY <2>1, <2>3, PostingBehind, BehindStarting
  <2>4. QED BY <1>3, <2>2, <2>3, OthersBehind
<1>4. QED BY <1>1, <1>2, <1>3

LEMMA HandlerTimers ==
  ASSUME TypeInv, NoStops, RunHandler
  PROVE  /\ DOMAIN timers \subseteq DOMAIN timers'
         /\ \A t \in DOMAIN timers' : timers'[t] = "expired" =>
              /\ t \in DOMAIN timers /\ timers[t] = "expired"
              /\ Runs("timer") => t # Head(ioq).timer \/ t \notin DOMAIN timers
<1>1. CASE RunTimerStart
  BY <1>1 DEF RunTimerStart, Runs
<1>2. CASE RunTimer
  BY <1>2 DEF RunTimer, Rearmed
<1>3. CASE ~RunTimerStart /\ ~RunTimer
  <2>1. timers' = timers /\ ~Runs("timer")
    BY <1>3, NeverStops
       DEF Runs, RunHandler, RunStart, RunStop, RunSend, RunCancel, RunSubscription,
       RunTimerStop, RunConnect, RunReadResponse, RunReadPush, RunReadError,
       RunWriteError, timerVars
  <2>2. QED BY <2>1
<1>4. QED BY <1>1, <1>2, <1>3

LEMMA BehindTicking ==
  ASSUME TypeInv, Ticking, NEW ops, "timer" \notin ops, Behind(ops), UNCHANGED timers
  PROVE  Ticking'
<1>1. \A n \in 1..Len(ioq') : ioq'[n].op = "timer" => ioq'[n].timer \in DOMAIN timers'
  BY DEF Behind, Ticking
<1>2. \A t \in DOMAIN timers' : timers'[t] = "expired" => TickWaitsOf(t)'
  BY DEF Behind, Ticking, TickWaitsOf
<1>3. QED BY <1>1, <1>2 DEF Ticking

LEMMA NextTicking ==
  ASSUME TypeInv, NoStops, Ticking, ClientStep PROVE Ticking'
<1>1. CASE RunHandler
  <2>1. Shifted(CompletionOps \union {"timer_start"})
    BY <1>1, NeverStops, HandlerShifts
  <2>2. /\ DOMAIN timers \subseteq DOMAIN timers'
        /\ \A t \in DOMAIN timers' : timers'[t] = "expired" =>
              /\ t \in DOMAIN timers /\ timers[t] = "expired"
              /\ Runs("timer") => t # Head(ioq).timer \/ t \notin DOMAIN timers
    BY <1>1, HandlerTimers
  <2>3. ASSUME NEW n \in 1..Len(ioq'), ioq'[n].op = "timer"
        PROVE  ioq'[n].timer \in DOMAIN timers'
    BY <2>1, <2>2, <2>3 DEF Shifted, Ticking, CompletionOps
  <2>4. ASSUME NEW t \in DOMAIN timers', timers'[t] = "expired"
        PROVE  TickWaitsOf(t)'
    <3>1. /\ t \in DOMAIN timers /\ timers[t] = "expired"
          /\ Runs("timer") => t # Head(ioq).timer
      BY <2>2, <2>4
    <3>2. PICK n \in 1..Len(ioq) : ioq[n].op = "timer" /\ ioq[n].timer = t
      BY <3>1 DEF Ticking, TickWaitsOf
    <3>3. n # 1
      <4>1. ASSUME n = 1 PROVE FALSE
        <5>1. ioq # <<>> /\ Head(ioq) = ioq[1]
          BY <3>2 DEF TypeInv, QueueOK
        <5>2. QED BY <3>1, <3>2, <4>1, <5>1 DEF Runs
      <4>2. QED BY <4>1
    <3>4. n - 1 \in 1..Len(ioq') /\ ioq'[n - 1] = ioq[n]
      BY <2>1, <3>3 DEF Shifted
    <3>5. QED BY <3>2, <3>4 DEF TickWaitsOf
  <2>5. QED BY <2>3, <2>4 DEF Ticking
<1>2. CASE Second
  <2>1. /\ Behind({"timer"})
        /\ \A n \in 1..Len(ioq') : n \in 1..Len(ioq) \/ ioq'[n].timer \in DOMAIN timers
        /\ \A t \in DOMAIN timers : timers[t] = "armed" => TickWaitsOf(t)'
        /\ DOMAIN timers' = DOMAIN timers
    BY <1>2, SecondTicks DEF Second, TickWaitsOf
  <2>2. ASSUME NEW n \in 1..Len(ioq'), ioq'[n].op = "timer"
        PROVE  ioq'[n].timer \in DOMAIN timers'
    BY <2>1, <2>2 DEF Behind, Ticking
  <2>3. ASSUME NEW t \in DOMAIN timers PROVE TickWaitsOf(t)'
    <3>1. CASE timers[t] = "armed"
      BY <2>1, <3>1
    <3>2. CASE timers[t] = "expired"
      BY <2>1, <3>2 DEF Behind, Ticking, TickWaitsOf
    <3>3. QED BY <3>1, <3>2 DEF TypeInv, TimersOK
  <2>4. QED BY <2>1, <2>2, <2>3 DEF Ticking
<1>3. CASE ~RunHandler /\ ~Second
  <2>1. UNCHANGED timers
    BY <1>3
       DEF ClientStep, vars, timerVars, CallStart, SubscribeNotification,
       SendReqAsync, Network, ConnectDone, LinkBreaks, ReadReady, ReadFails
  <2>2. CASE UNCHANGED ioq
    BY <2>1, <2>2 DEF Ticking, TickWaitsOf
  <2>3. ASSUME NEW h, Posting(h), h.op # "timer" PROVE Ticking'
    BY <2>1, <2>3, PostingBehind, BehindTicking
  <2>4. QED BY <1>3, <2>2, <2>3, OthersBehind
<1>4. QED BY <1>1, <1>2, <1>3

LEMMA BehindConnected ==
  ASSUME TypeInv, UpIsConnected, NEW ops, "connect" \notin ops, Behind(ops),
         connect_state' = connect_state, socket' = "up" => socket = "up"
  PROVE  UpIsConnected'
<1> SUFFICES ASSUME socket' = "up" PROVE UpIsConnected'
  BY DEF UpIsConnected
<1>1. CASE StaysConnected
  BY <1>1 DEF Behind, StaysConnected, UpIsConnected
<1>2. CASE ~StaysConnected
  <2>1. PICK n \in 1..Len(ioq) :
           /\ ioq[n].op = "connect" /\ ioq[n].ok
           /\ \A m \in 1..Len(ioq) : m > n => ioq[m].op # "connect"
    BY <1>2 DEF UpIsConnected
  <2>2. n \in 1..Len(ioq') /\ ioq'[n].op = "connect" /\ ioq'[n].ok
    BY <2>1 DEF Behind
  <2>3. \A m \in 1..Len(ioq') : m > n => ioq'[m].op # "connect"
    BY <2>1 DEF Behind
  <2>4. QED BY <2>2, <2>3 DEF UpIsConnected
<1>3. QED BY <1>1, <1>2

\* A client that is connected stays so while its socket is up.
LEMMA HandlerStaysConnected ==
  ASSUME TypeInv, NoStops, RunHandler, socket' = "up", StaysConnected
  PROVE  StaysConnected'
<1>1. Shifted({}) /\ ~Runs("connect")
  BY UpShifts, RunsFirst DEF StaysConnected
<1>2. connect_state' = "connected"
  BY <1>1
     DEF StaysConnected, RunHandler, RunStart, RunStop, RunSend, RunCancel,
     RunSubscription, RunTimerStart, RunTimerStop, RunTimer, RunConnect,
     RunReadResponse, RunReadPush, RunReadError, RunWriteError, DoConnect, DoClose,
     clientVars
<1>3. QED BY <1>1, <1>2 DEF Shifted, StaysConnected

LEMMA NextUpIsConnected ==
  ASSUME TypeInv, NoStops, UpIsConnected, ClientStep PROVE UpIsConnected'
<1> SUFFICES ASSUME socket' = "up" PROVE UpIsConnected'
  BY DEF UpIsConnected
<1>1. CASE RunHandler
  <2>1. socket = "up" /\ Shifted({})
    BY <1>1, HandlerWire, UpShifts
  <2>2. CASE StaysConnected
    BY <1>1, <2>2, HandlerStaysConnected DEF UpIsConnected
  <2>3. CASE ~StaysConnected
    <3>1. PICK n \in 1..Len(ioq) :
             /\ ioq[n].op = "connect" /\ ioq[n].ok
             /\ \A m \in 1..Len(ioq) : m > n => ioq[m].op # "connect"
      BY <2>1, <2>3 DEF UpIsConnected
    <3>2. CASE n = 1
      <4>1. ioq # <<>> /\ Head(ioq) = ioq[1] /\ Runs("connect")
        BY <3>1, <3>2 DEF TypeInv, QueueOK, Runs
      <4>2. RunConnect
        BY <1>1, <4>1
           DEF Runs, RunHandler, RunStart, RunStop, RunSend, RunCancel,
           RunSubscription, RunTimerStart, RunTimerStop, RunTimer, RunReadResponse,
           RunReadPush, RunReadError, RunWriteError
      <4>3. connect_state' = "connected"
        BY <2>1, <3>1, <3>2, <4>1, <4>2 DEF RunConnect
      <4>4. \A m \in 1..Len(ioq') : ioq'[m].op # "connect"
        BY <2>1, <3>1, <3>2 DEF Shifted
      <4>5. QED BY <4>3, <4>4 DEF StaysConnected, UpIsConnected
    <3>3. CASE n # 1
      <4>1. n - 1 \in 1..Len(ioq') /\ ioq'[n - 1].op = "connect" /\ ioq'[n - 1].ok
        BY <2>1, <3>1, <3>3 DEF Shifted
      <4>2. \A m \in 1..Len(ioq') : m > n - 1 => ioq'[m].op # "connect"
        BY <2>1, <3>1, <3>3 DEF Shifted
      <4>3. QED BY <4>1, <4>2 DEF UpIsConnected
    <3>4. QED BY <3>2, <3>3
  <2>4. QED BY <2>2, <2>3
<1>2. CASE Second
  BY <1>2, SecondTicks, BehindConnected DEF Second, netVars
<1>3. CASE UNCHANGED vars
  BY <1>3 DEF vars, clientVars, netVars, queueVars, UpIsConnected, StaysConnected
<1>4. CASE ~RunHandler /\ ~Second /\ ~UNCHANGED vars /\ ~\E ok \in BOOLEAN : ConnectDone(ok)
  <2>1. UNCHANGED <<connect_state, socket>>
    BY <1>4
       DEF ClientStep, clientVars, netVars, CallStart, SubscribeNotification,
       SendReqAsync, Network, LinkBreaks, ReadReady, ReadFails
  <2>2. CASE UNCHANGED ioq
    BY <2>1, <2>2 DEF UpIsConnected, StaysConnected
  <2>3. ASSUME NEW h, Posting(h), h.op # "connect" PROVE UpIsConnected'
    BY <2>1, <2>3, PostingBehind, BehindConnected
  <2>4. QED BY <1>4, <2>2, <2>3, OthersPost
<1>5. ASSUME NEW ok \in BOOLEAN, ConnectDone(ok) PROVE UpIsConnected'
  <2> DEFINE h == [op |-> "connect", ok |-> ok]
  <2>1. Posting(h) /\ ok
    BY <1>5 DEF ConnectDone, Posting, Handlers
  <2>2. Behind({"connect"}) /\ Len(ioq') = Len(ioq) + 1 /\ ioq'[Len(ioq) + 1] = h
    BY <2>1, PostingBehind
  <2>3. Len(ioq) + 1 \in 1..Len(ioq') /\ ioq'[Len(ioq) + 1].op = "connect" /\ ioq'[Len(ioq) + 1].ok
    BY <2>1, <2>2 DEF Behind
  <2>4. \A m \in 1..Len(ioq') : ~(m > Len(ioq) + 1)
    BY <2>2 DEF Behind
  <2>5. QED BY <2>3, <2>4 DEF UpIsConnected
<1>6. QED BY <1>1, <1>2, <1>3, <1>4, <1>5

LEMMA InitClientInv == Init => ClientInv
<1> SUFFICES ASSUME Init PROVE ClientInv
  OBVIOUS
<1>1. \A n \in 1..Len(ioq) : FALSE
  BY DEF Init
<1>2. NoStops /\ NotStarted /\ Starting /\ Ticking /\ UpIsConnected
  BY <1>1 DEF Init, NoStops, NotStarted, Starting, Ticking, UpIsConnected
<1>3. QED BY <1>2 DEF ClientInv

LEMMA NextClientInv ==
  ASSUME TypeInv, ClientInv, ClientStep PROVE ClientInv'
<1>1. NoStops /\ NotStarted /\ Starting /\ Ticking /\ UpIsConnected
  BY DEF ClientInv
<1>2. QED
  BY <1>1, NextNoStops, NextNotStarted, NextStarting, NextTicking,
     NextUpIsConnected DEF ClientInv

\* While the client is connected, each second brings a tick.
LEMMA ConnectedTicks ==
  ASSUME TypeInv, ClientInv, Second, connect_state = "connected"
  PROVE  Waits({"timer"})'
<1>1. started /\ DOMAIN timers # {}
  BY DEF ClientInv, NotStarted, Starting
<1>2. PICK t \in DOMAIN timers : TRUE
  BY <1>1
<1>3. CASE timers[t] = "armed"
  BY <1>3, SecondTicks DEF Waits
<1>4. CASE timers[t] = "expired"
  <2>1. PICK n \in 1..Len(ioq) : ioq[n].op = "timer"
    BY <1>4 DEF ClientInv, Ticking, TickWaitsOf
  <2>2. n \in 1..Len(ioq') /\ ioq'[n].op = "timer"
    BY <2>1, SecondTicks DEF Behind
  <2>3. QED BY <2>2 DEF Waits
<1>5. QED BY <1>3, <1>4 DEF TypeInv, TimersOK

-----------------------------------------------------------------------------
(* Heartbeats.                                                             *)

\* What the client and the network do to the server's side.
LEMMA ClientActs ==
  ASSUME Linked, Calls \/ ClientNetwork \/ ClientHandler \/ PacketArrives \/ UNCHANGED tcpVars
  PROVE  /\ UNCHANGED <<sessions, cur_session_id, cur_seq, taken, processed>>
         /\ \A s \in S!Sessions :
              /\ conn'[s].link = "up" => conn[s].link = "up"
              /\ \A m : Holds(conn[s].to_server, m) => Holds(conn'[s].to_server, m)
              /\ \A m : Holds(conn'[s].to_server, m) =>
                   \/ Holds(conn[s].to_server, m)
                   \/ /\ s = cur_session_id /\ socket = "up"
                      /\ ClientHandler /\ Holds(Outgoing, m)
              /\ \A m : Holds(conn'[s].to_client, m) => Holds(conn[s].to_client, m)
<1>1. TypeInv /\ SP!TypeInv /\ CurSession
  BY DEF Linked
<1>2. CASE Calls \/ ClientNetwork \/ UNCHANGED tcpVars
  <2>1. UNCHANGED <<srvVars, processed>>
    BY <1>2
       DEF tcpVars, resultVars, Calls, StartClient, Subscribe, SendRequest,
       ClientNetwork, ConnectFails, ClientNotices, ClientReadFails
  <2>2. QED BY <2>1 DEF srvVars, restVars
<1>3. CASE ClientHandler
  <2>1. HandlerWrites
    BY <1>1, <1>3, ClientHandlerWrites
  <2>2. UNCHANGED <<sessions, cur_session_id, cur_seq, taken, processed>>
    BY <1>3 DEF ClientHandler, restVars
  <2>3. QED BY <1>3, <2>1, <2>2, HoldsNone DEF HandlerWrites
<1>4. CASE PacketArrives
  <2>1. cur_session_id \in S!Sessions
    BY <1>1, <1>4 DEF PacketArrives, CurSession
  <2>2. UNCHANGED <<sessions, cur_session_id, cur_seq, taken, processed>>
    BY <1>4 DEF PacketArrives, restVars, resultVars
  <2>3. \A s \in S!Sessions :
          /\ conn'[s].link = conn[s].link /\ conn'[s].to_server = conn[s].to_server
          /\ \A m : Holds(conn'[s].to_client, m) => Holds(conn[s].to_client, m)
    BY <1>1, <1>4, <2>1, PacketArrivesServes, HoldsTail
  <2>4. QED BY <2>2, <2>3
<1>5. QED BY <1>2, <1>3, <1>4

\* The session of a connection that works reads.
ReadsOn ==
    \A s \in DOMAIN sessions : conn[s].link = "up" => sessions[s].read_pending

LEMMA NextReadsOn ==
  ASSUME Linked, ReadsOn, [TcpNext]_tcpVars PROVE ReadsOn'
<1>1. TypeInv /\ SP!TypeInv /\ ProcessedType /\ acceptor_open
  BY DEF Linked
<1>2. DOMAIN sessions \subseteq S!Sessions
  BY <1>1, SessionFacts
<1>3. CASE ServerAlone
  <2>1. /\ DOMAIN sessions' \subseteq DOMAIN sessions
        /\ \A s \in DOMAIN sessions' :
             /\ sessions'[s].read_pending = sessions[s].read_pending
                  \/ conn[s].link = "down"
             /\ conn'[s].link = "up" => conn[s].link = "up"
    BY <1>1, <1>2, <1>3, ServerAloneMoves
       DEF ServerMoves, SessionsMove, SessionMoves, ChannelsMove
  <2>2. QED BY <2>1 DEF ReadsOn
<1>4. CASE Calls \/ ClientNetwork \/ ClientHandler \/ PacketArrives \/ UNCHANGED tcpVars
  BY <1>2, <1>4, ClientActs DEF ReadsOn
<1>5. CASE Connected
  <2>1. S!NewSession.read_pending = TRUE
    BY DEF S!NewSession
  <2>2. QED BY <1>1, <1>2, <1>5, <2>1, ConnectedOpens DEF ReadsOn
<1>6. CASE BothSecond
  BY <1>1, <1>6, SecondSessions DEF BothSecond, ReadsOn
<1>7. QED BY <1>3, <1>4, <1>5, <1>6, Kinds

\* A connection that neither end knows to be broken.
Alive ==
    /\ socket = "up" /\ cur_session_id \in DOMAIN sessions
    /\ conn[cur_session_id].link = "up"

HeartbeatDue ==
    Holds(conn[cur_session_id].to_server, S!Heartbeat) \/ Waits({"timer"})

\* Either something was heard of the client since handlers were last all run,
\* or it is connected: then it was heard of not long before that, or a
\* heartbeat is under way.
HeardFrom ==
    Alive =>
      LET heard_ago == sessions[cur_session_id].last_recv IN
      \/ heard_ago <= delay
      \/ StaysConnected /\ heard_ago <= MaxDelay
      \/ StaysConnected /\ heard_ago <= MaxDelay + 1 + delay /\ HeartbeatDue

\* Once nothing is under way, the heartbeat was heard.
LEMMA StepHeardFrom ==
  ASSUME Linked, ClientInv', ReadsOn', HeardFrom, Alive, Alive',
         cur_session_id' = cur_session_id, delay' = (IF Waiting' THEN delay ELSE 0),
         sessions'[cur_session_id].last_recv \in
           {sessions[cur_session_id].last_recv, 0},
         StaysConnected => StaysConnected',
         StaysConnected /\ HeartbeatDue =>
           HeartbeatDue' \/ sessions'[cur_session_id].last_recv = 0
  PROVE  HeardFrom'
<1> DEFINE ago == sessions[cur_session_id].last_recv
           now == sessions'[cur_session_id].last_recv
<1>1. ago \in Nat /\ now \in Nat /\ MaxDelay \in Nat /\ delay \in 0..MaxDelay
  <2>1. ago \in 0..HeartbeatInterval
    BY SessionFacts DEF Linked, Alive
  <2>2. QED BY <2>1, CompositionAssumption DEF Linked
<1>2. sessions'[cur_session_id'].last_recv = now /\ sessions[cur_session_id].last_recv = ago
  OBVIOUS
<1>3. \/ ago <= delay
      \/ StaysConnected /\ ago <= MaxDelay
      \/ StaysConnected /\ ago <= MaxDelay + 1 + delay /\ HeartbeatDue
  BY DEF HeardFrom
<1>4. now = ago \/ now = 0
  OBVIOUS
<1> HIDE DEF ago, now
<1>5. CASE now = 0
  <2>1. delay' \in Nat
    BY <1>1
  <2>2. QED BY <1>2, <1>5, <2>1 DEF HeardFrom
<1>6. CASE now = ago /\ now # 0 /\ Waiting'
  <2>1. \/ now <= delay'
        \/ StaysConnected' /\ now <= MaxDelay
        \/ StaysConnected' /\ now <= MaxDelay + 1 + delay' /\ HeartbeatDue'
    BY <1>2, <1>3, <1>6
  <2>2. QED BY <1>2, <2>1 DEF HeardFrom
<1>7. CASE now = ago /\ now # 0 /\ ~Waiting'
  <2>1. ioq' = <<>> /\ ~Waits({"timer"})'
    BY <1>7 DEF Waiting, Waits
  <2>2. StaysConnected'
    BY <2>1 DEF ClientInv, UpIsConnected, Alive
  <2>3. ~Holds(conn[cur_session_id].to_server, S!Heartbeat)'
    <3>1. /\ cur_session_id' \in DOMAIN sessions'
          /\ sessions'[cur_session_id'].read_pending
      BY DEF Alive, ReadsOn
    <3>2. conn'[cur_session_id'].to_server = <<>>
      BY <1>7, <3>1 DEF Waiting
    <3>3. QED BY <3>2, HoldsNone DEF S!Heartbeat
  <2>4. ~HeartbeatDue'
    BY <2>1, <2>3 DEF HeartbeatDue
  <2>5. now <= MaxDelay
    BY <1>1, <1>2, <1>3, <1>7, <2>4
  <2>6. QED BY <1>2, <2>2, <2>5 DEF HeardFrom
<1>8. QED BY <1>4, <1>5, <1>6, <1>7

LEMMA SecondHeardFrom ==
  ASSUME Linked, ClientInv, ReadsOn, HeardFrom, BothSecond PROVE HeardFrom'
<1> SUFFICES ASSUME Alive' PROVE HeardFrom'
  BY DEF HeardFrom
<1>1. TypeInv /\ SP!TypeInv /\ S!Second /\ Second
  BY DEF Linked, BothSecond
<1> DEFINE cur == cur_session_id
           ago == sessions[cur].last_recv
           now == sessions'[cur].last_recv
<1>2. /\ UNCHANGED <<cur_session_id, conn>>
      /\ DOMAIN sessions' = DOMAIN sessions
      /\ \A s \in DOMAIN sessions : sessions'[s].last_recv =
                     S!Capped(sessions[s].last_recv, HeartbeatInterval)
  BY <1>1, SecondSessions
<1>3. UNCHANGED <<socket, connect_state>> /\ Alive
  BY <1>1, <1>2 DEF Second, netVars, Alive
<1>4. cur \in DOMAIN sessions /\ ago \in 0..HeartbeatInterval
  BY <1>1, <1>3, SessionFacts DEF Alive
<1>5. ago \in Nat /\ now \in Nat /\ now <= ago + 1 /\ sessions'[cur_session_id'].last_recv = now
  <2>1. now = S!Capped(ago, HeartbeatInterval)
    BY <1>2, <1>4
  <2>2. QED BY <1>2, <1>4, <2>1, ServerConstants DEF S!Capped
<1>6. MaxDelay \in Nat /\ delay \in 0..MaxDelay
      /\ delay' = IF Waiting THEN delay + 1 ELSE 0
  BY CompositionAssumption DEF Linked, BothSecond
<1>7. \/ ago <= delay
      \/ StaysConnected /\ ago <= MaxDelay
      \/ StaysConnected /\ ago <= MaxDelay + 1 + delay /\ HeartbeatDue
  BY <1>3 DEF HeardFrom
<1> HIDE DEF ago, now
<1>8. StaysConnected => StaysConnected' /\ HeartbeatDue'
  <2>1. ASSUME StaysConnected PROVE StaysConnected' /\ HeartbeatDue'
    <3>1. StaysConnected'
      BY <1>1, <1>3, <2>1, SecondTicks DEF StaysConnected, Behind
    <3>2. Waits({"timer"})'
      BY <1>1, <2>1, ConnectedTicks DEF StaysConnected
    <3>3. QED BY <3>1, <3>2 DEF HeartbeatDue
  <2>2. QED BY <2>1
<1>9. CASE Waiting
  <2>1. \/ now <= delay'
        \/ StaysConnected' /\ now <= MaxDelay + 1 + delay' /\ HeartbeatDue'
    BY <1>5, <1>6, <1>7, <1>8, <1>9
  <2>2. QED BY <1>5, <2>1 DEF HeardFrom
<1>10. CASE ~Waiting
  <2>1. ioq = <<>> /\ ~Waits({"timer"})
    BY <1>10 DEF Waiting, Waits
  <2>2. StaysConnected
    BY <1>3, <2>1 DEF ClientInv, UpIsConnected, Alive
  <2>3. ~HeartbeatDue
    <3>1. sessions[cur].read_pending
      BY <1>3 DEF Alive, ReadsOn
    <3>2. conn[cur].to_server = <<>>
      BY <1>4, <1>10, <3>1 DEF Waiting
    <3>3. QED BY <2>1, <3>2, HoldsNone DEF HeartbeatDue
  <2>4. ago <= MaxDelay
    BY <1>5, <1>6, <1>7, <2>3
  <2>5. now <= MaxDelay + 1 + delay'
    BY <1>5, <1>6, <1>10, <2>4
  <2>6. QED BY <1>5, <1>8, <2>2, <2>5 DEF HeardFrom
<1>11. QED BY <1>9, <1>10

LEMMA NextHeardFrom ==
  ASSUME Linked, ClientInv, ReadsOn, HeardFrom, [TcpNext]_tcpVars PROVE HeardFrom'
<1> SUFFICES ASSUME Alive' PROVE HeardFrom'
  BY DEF HeardFrom
<1>1. TypeInv /\ SP!TypeInv /\ ProcessedType /\ acceptor_open /\ CurSession
  BY DEF Linked
<1>2. ClientInv' /\ ReadsOn'
  BY <1>1, StepsOfClient, NextClientInv, NextReadsOn
<1>3. /\ DOMAIN sessions \subseteq S!Sessions
      /\ S!Heartbeat' = S!Heartbeat
  BY <1>1, SessionFacts DEF S!Heartbeat
<1>4. CASE UNCHANGED tcpVars
  BY <1>4
     DEF tcpVars, vars, clientVars, netVars, queueVars, srvVars, restVars, HeardFrom,
     Alive, HeartbeatDue, StaysConnected, Waits
<1>5. CASE BothSecond
  BY <1>5, SecondHeardFrom
<1>6. CASE Connected
  <2>1. sessions'[cur_session_id'].last_recv = 0
    BY <1>1, <1>6, ConnectedOpens DEF S!NewSession
  <2>2. delay' \in Nat
    BY StepsOfClient, NextLinked, CompositionAssumption DEF Linked
  <2>3. QED BY <2>1, <2>2 DEF HeardFrom
<1>7. CASE ServerAlone /\ delay' = IF Waiting' THEN delay ELSE 0
  <2>1. ServerMoves
    BY <1>1, <1>7, ServerAloneMoves
  <2>2. UNCHANGED <<socket, connect_state, ioq, cur_session_id>>
    BY <2>1 DEF ServerMoves, vars, clientVars, netVars, queueVars
  <2>3. /\ cur_session_id \in DOMAIN sessions /\ cur_session_id \in DOMAIN sessions'
        /\ SessionMoves(cur_session_id) /\ conn[cur_session_id].link = "up"
    BY <1>3, <2>1, <2>2 DEF Alive, ServerMoves, SessionsMove, ChannelsMove
  <2>4. Alive
    BY <2>2, <2>3 DEF Alive
  <2>5. StaysConnected => StaysConnected'
    BY <2>2 DEF StaysConnected
  <2>6. HeartbeatDue => HeartbeatDue' \/ sessions'[cur_session_id].last_recv = 0
    BY <1>3, <2>2, <2>3 DEF HeartbeatDue, Waits, SessionMoves
  <2>7. sessions'[cur_session_id].last_recv \in
           {sessions[cur_session_id].last_recv, 0}
    BY <2>3 DEF SessionMoves
  <2>8. QED BY <1>2, <1>7, <2>2, <2>4, <2>5, <2>6, <2>7, StepHeardFrom
<1>8. CASE /\ Calls \/ ClientNetwork \/ ClientHandler \/ PacketArrives
           /\ delay' = IF Waiting' THEN delay ELSE 0
  <2>1. /\ UNCHANGED <<sessions, cur_session_id>>
        /\ \A s \in S!Sessions :
              /\ conn'[s].link = "up" => conn[s].link = "up"
              /\ \A m : Holds(conn[s].to_server, m) => Holds(conn'[s].to_server, m)
    BY <1>8, ClientActs
  <2>2. socket = "up"
    <3>1. CASE ClientHandler
      BY <1>1, <3>1, HandlerWire DEF Alive, ClientHandler
    <3>2. CASE Calls \/ ClientNetwork \/ PacketArrives
      BY <3>2
         DEF Alive, Calls, StartClient, Subscribe, SendRequest, CallStart,
         SubscribeNotification, SendReqAsync, netVars, ClientNetwork, ConnectFails,
         ClientNotices, ClientReadFails, ConnectDone, LinkBreaks, ReadFails,
         PacketArrives
    <3>3. QED BY <1>8, <3>1, <3>2
  <2>3. Alive /\ cur_session_id \in S!Sessions
    BY <1>3, <2>1, <2>2 DEF Alive
  <2>4. StaysConnected => StaysConnected' /\ (HeartbeatDue => HeartbeatDue')
    <3> SUFFICES ASSUME StaysConnected PROVE StaysConnected' /\ (HeartbeatDue => HeartbeatDue')
      OBVIOUS
    <3>1. Holds(conn[cur_session_id].to_server, S!Heartbeat) => HeartbeatDue'
      BY <1>3, <2>1, <2>3 DEF HeartbeatDue
    <3>2. CASE ClientHandler
      <4>1. RunHandler /\ NoStops /\ Ticking /\ Consuming /\ HandlerWrites
        BY <1>1, <3>2, HandlerTypes, ClientHandlerWrites DEF ClientHandler, ClientInv
      <4>2. StaysConnected'
        BY <1>1, <4>1, HandlerStaysConnected DEF Alive
      <4>3. ASSUME Waits({"timer"}) PROVE HeartbeatDue'
        <5>1. CASE Head(ioq).op \notin {"timer"}
          BY <1>1, <4>1, <4>3, <5>1, HandlerWaits DEF HeartbeatDue
        <5>2. CASE Head(ioq).op = "timer"
          <6>1. ioq # <<>> /\ Runs("timer")
            BY <4>1, <5>2 DEF Consuming, Consumes, Runs
          <6>2. Head(ioq).timer \in DOMAIN timers
            BY <1>1, <4>1, <6>1, RunsFirst DEF Ticking
          <6>3. Holds(Outgoing, S!Heartbeat)
            BY <1>1, <6>1, <6>2, OutgoingIs DEF StaysConnected
          <6>4. Holds(conn'[cur_session_id].to_server, S!Heartbeat)
            BY <2>2, <2>3, <4>1, <6>3 DEF HandlerWrites, Alive
          <6>5. QED BY <1>3, <2>1, <6>4 DEF HeartbeatDue
        <5>3. QED BY <5>1, <5>2
      <4>4. QED BY <3>1, <4>2, <4>3 DEF HeartbeatDue
    <3>3. CASE ~ClientHandler
      <4>1. /\ ~RunHandler /\ ~Second => ClientStep
            /\ connect_state' = connect_state
        BY <1>8, <3>3, StepsOfClient
           DEF Calls, StartClient, Subscribe, SendRequest, CallStart,
           SubscribeNotification, SendReqAsync, clientVars, ClientNetwork,
           ConnectFails, ClientNotices, ClientReadFails, ConnectDone, LinkBreaks,
           ReadFails, PacketArrives, ReadReady
      <4>2. ASSUME NEW h, Posting(h), h.op # "connect"
            PROVE  StaysConnected' /\ (HeartbeatDue => HeartbeatDue')
        <5>1. Behind({h.op})
          BY <1>1, <4>2, PostingBehind
        <5>2. StaysConnected'
          BY <4>1, <4>2, <5>1 DEF Behind, StaysConnected
        <5>3. Waits({"timer"}) => Waits({"timer"})'
          BY <1>1, <4>2, PostingWaits
        <5>4. QED BY <3>1, <5>2, <5>3 DEF HeartbeatDue
      <4>3. CASE UNCHANGED ioq
        BY <3>1, <4>1, <4>3 DEF StaysConnected, HeartbeatDue, Waits
      <4>4. UNCHANGED ioq \/ \E h : Posting(h) /\ h.op # "connect"
        <5>1. CASE \E t \in Threads : CallStart(t)
          <6>1. PICK t \in Threads : CallStart(t)
            BY <5>1
          <6>2. Posting([op |-> "start", thread |-> t])
            BY <6>1 DEF CallStart, Posting, Handlers
          <6>3. QED BY <6>2
        <5>2. CASE \E t \in Threads, cmd \in Cmds : SubscribeNotification(t, cmd)
          <6>1. PICK t \in Threads, cmd \in Cmds : SubscribeNotification(t, cmd)
            BY <5>2
          <6>2. Posting([op |-> "subscribe", cmd |-> cmd])
            BY <6>1 DEF SubscribeNotification, Posting, Handlers
          <6>3. QED BY <6>2
        <5>3. CASE \E t \in Threads, opt \in SendOpts : SendReqAsync(t, opt)
          <6>1. PICK t \in Threads, opt \in SendOpts : SendReqAsync(t, opt)
            BY <5>3
          <6>2. Posting([op |-> "send", id |-> cur_send_id', opt |-> opt])
            BY <1>1, <6>1, SendTypes
          <6>3. QED BY <6>2
        <5>4. CASE PacketArrives
          <6>1. PICK packet \in S!ToClient : ReadReady(packet)
            BY <1>1, <2>3, <5>4, PacketArrivesServes
          <6>2. packet \in [kind : {"response"}, id : Requests]
                             \union [kind : {"push"}, id : Pushes]
            BY Numbering DEF S!ToClient
          <6>3. Posting([op |-> "read", packet |-> packet])
            BY <6>1, <6>2 DEF ReadReady, Posting, Handlers
          <6>4. QED BY <6>3
        <5>5. ~ClientNetwork
          BY <2>2
             DEF Alive, ClientNetwork, ConnectFails, ClientNotices, ClientReadFails,
             ConnectDone, LinkBreaks, ReadFails
        <5>6. QED
          BY <1>8, <3>3, <5>1, <5>2, <5>3, <5>4, <5>5
             DEF Calls, StartClient, Subscribe, SendRequest
      <4>5. QED BY <4>2, <4>3, <4>4
    <3>4. QED BY <3>2, <3>3
  <2>5. QED BY <1>2, <1>8, <2>1, <2>3, <2>4, StepHeardFrom
<1>9. QED BY <1>4, <1>5, <1>6, <1>7, <1>8, Kinds

\* The server gives up silent sessions only.
LEMMA OnlySilentGone ==
  ASSUME SP!TypeInv, acceptor_open, [TcpNext]_tcpVars,
         NEW s \in DOMAIN sessions, s \notin DOMAIN sessions'
  PROVE  sessions[s].last_recv >= HeartbeatInterval
<1>1. CASE ServerTimer
  BY <1>1 DEF ServerTimer, S!RunTimer, S!Silent
<1>2. CASE ServerHandler
  BY <1>2
     DEF ServerHandler, S!RunReadRequest, S!RunReadPush, S!RunReadError,
     S!RunSessionTimer
<1>3. CASE Publish
  BY <1>3 DEF Publish, S!PublishNotification
<1>4. CASE StartServer \/ RegisterProcessor \/ SendResponse \/ ConnectionRequested
             \/ AcceptCompletes \/ ConnectionBreaks
  BY <1>4
     DEF StartServer, RegisterProcessor, SendResponse, ConnectionRequested,
     AcceptCompletes, ConnectionBreaks, S!Start, S!RegisterReqProcessor,
     S!SendRspForReq, S!ClientConnects, S!AcceptReady, S!LinkBreaks, S!serverVars
<1>5. CASE UNCHANGED tcpVars \/ Calls \/ ClientNetwork \/ ClientHandler \/ PacketArrives
  BY <1>5
     DEF tcpVars, srvVars, restVars, Calls, StartClient, Subscribe, SendRequest,
     ClientNetwork, ConnectFails, ClientNotices, ClientReadFails, ClientHandler,
     PacketArrives
<1>6. CASE Connected
  BY <1>6, ConnectedOpens
<1>7. CASE BothSecond
  BY <1>7, SecondSessions DEF BothSecond
<1>8. QED
  BY <1>1, <1>2, <1>3, <1>4, <1>5, <1>6, <1>7, Kinds DEF ServerAlone

\* A silent session outlives a heartbeat that is late at the client, on its
\* way and at the server.
HeartbeatsInTime == HeartbeatInterval > 2 * MaxDelay + 1

(* The server gives a session up only when it has lost its client: of a    *)
(* connection that both ends take to be up, do_timeout_check never closes  *)
(* the session, if max_heartbeat_interval_seconds is longer than the tick  *)
(* of the client's timer and the delays of its heartbeat.                  *)
THEOREM TcpHeartbeats ==
  ASSUME HeartbeatsInTime PROVE TcpSpec => HeartbeatsKeepSession
<1> DEFINE Inv == ClientInv /\ ReadsOn /\ HeardFrom
<1>1. TcpInit => Inv
  BY InitClientInv DEF TcpInit, Init, S!Init, ReadsOn, HeardFrom, Alive
<1>2. Linked /\ Inv /\ [TcpNext]_tcpVars => Inv'
  BY StepsOfClient, NextClientInv, NextReadsOn, NextHeardFrom DEF Linked
<1>3. Linked /\ Inv /\ [TcpNext]_tcpVars
        => [\A s \in DOMAIN sessions \ DOMAIN sessions' :
              conn[s].link # "up" \/ s # cur_session_id \/ socket # "up"]_tcpVars
  <2> SUFFICES ASSUME Linked, Inv, [TcpNext]_tcpVars,
                      NEW s \in DOMAIN sessions, s \notin DOMAIN sessions',
                      conn[s].link = "up", s = cur_session_id, socket = "up"
               PROVE  FALSE
    OBVIOUS
  <2>1. sessions[s].last_recv >= HeartbeatInterval
    BY OnlySilentGone DEF Linked
  <2>2. Alive /\ HeardFrom
    BY DEF Alive
  <2>3. /\ sessions[s].last_recv \in 0..HeartbeatInterval
        /\ delay \in 0..MaxDelay /\ MaxDelay \in Nat /\ HeartbeatInterval \in Nat
    BY SessionFacts, CompositionAssumption DEF Linked
  <2>4. \/ sessions[s].last_recv <= delay
        \/ sessions[s].last_recv <= MaxDelay
        \/ sessions[s].last_recv <= MaxDelay + 1 + delay
    BY <2>2 DEF HeardFrom
  <2>5. HeartbeatInterval > 2 * MaxDelay + 1
    BY DEF HeartbeatsInTime
  <2>6. QED BY <2>1, <2>3, <2>4, <2>5
<1> HIDE DEF Inv
<1>4. QED BY <1>1, <1>2, <1>3, AlwaysLinked, PTL DEF TcpSpec, HeartbeatsKeepSession

-----------------------------------------------------------------------------
(* What the service promises, and what it takes.  Requests and             *)
(* notifications that are sent again are told from new ones only while     *)
(* they are in the receiver's window, so that all the attempts have to be  *)
(* over before it has passed.                                              *)

\* The timers tick once a second, so that an attempt takes one at least.
Pace(interval) == IF interval = 0 THEN 1 ELSE interval

\* How long after the first attempt that many more are over.
Over(tries, interval) == tries * (Pace(interval) + MaxDelay)

\* The last attempt of a request or of a notification, and its delay, end
\* before the window does.
WindowLongEnough ==
    /\ MaxDelay < Window
    /\ \A opt \in SendOpts :
         Over(Attempts(opt) - 1, opt.interval_seconds) < Window
    /\ Over(ResendTries - 1, ResendInterval) < Window

\* What the histories of the service may be.
Once ==
    /\ processed \in [S!Sessions -> [Requests -> {0, 1}]]
    /\ notified \in [Pushes -> {0, 1}]

\* The result of a request is that of its callback.
Outcomes ==
    /\ outcome \in [Requests -> {"unsent", "pending", "answered", "failed"}]
    /\ \A i \in Requests :
         /\ ~(i <= cur_send_id) <=> outcome[i] = "unsent"
         /\ i <= cur_send_id /\ called[i] = 0 <=> outcome[i] = "pending"

\* Sessions to come have processed nothing.
FreshSessions ==
    \A s \in S!Sessions : s > cur_session_id =>
      \A i \in Requests : processed[s][i] = 0

\* Only what was sent is processed, and only what was processed is answered.
WasSent(i) == i <= cur_send_id /\ ~Sending(i)
WasProcessed(i) == \E s \in S!Sessions : processed[s][i] = 1

Reading(packet) == [op |-> "read", packet |-> packet]

Causes ==
    /\ \A s \in S!Sessions, i \in Requests :
         /\ Holds(conn[s].to_server, S!Request(i)) => WasSent(i)
         /\ processed[s][i] = 1 => WasSent(i)
         /\ <<s, i>> \in taken => processed[s][i] = 1
         /\ Holds(conn[s].to_client, S!Response(i)) => WasProcessed(i)
    /\ \A i \in Requests : Holds(ioq, Reading(Response(i))) => WasProcessed(i)

\* Only what was published is called back.
Published ==
    /\ \A p \in Pushes : ~(p <= cur_seq) => notified[p] = 0
    /\ \A s \in S!Sessions, p \in Pushes :
         Holds(conn[s].to_client, S!Push(p)) => p <= cur_seq
    /\ \A s \in DOMAIN sessions : \A p \in DOMAIN sessions[s].write_packets :
         p <= cur_seq
    /\ \A p \in Pushes : Holds(ioq, Reading(Push(p))) => p <= cur_seq

-----------------------------------------------------------------------------
(* Time.                                                                   *)

TickQueued == Waits({"timer"})

\* When the next attempt is due, the check that makes it is queued.
ChecksRequests ==
    \A i \in DOMAIN write_packets :
      LET w == write_packets[i] IN
      /\ w.since <= w.opt.interval_seconds
      /\ w.opt.interval_seconds > 0 /\ w.since = w.opt.interval_seconds =>
           TickQueued

CheckDue(s) == sessions[s].check_timer = "due"

ChecksPushes ==
    \A s \in DOMAIN sessions :
      \A p \in DOMAIN sessions[s].write_packets :
        ResendInterval > 0 /\ sessions[s].write_packets[p].since >= ResendInterval =>
          CheckDue(s)

\* How long ago at most the last attempt was made, given that the check that
\* makes the next one runs within MaxDelay of the second it is due.
Elapsed(since, interval, checking) ==
    IF since >= interval /\ checking THEN Pace(interval) + delay ELSE since

\* A request that was processed is as old as its attempts allow.
RequestYoung(s, i) ==
    LET w == write_packets[i]
        interval == w.opt.interval_seconds
    IN
    processed[s][i] = 1 =>
      Age(s, i) <= Over(w.cur_tries - 1, interval)
                     + Elapsed(w.since, interval, TickQueued)

RequestsYoung ==
    \A s \in DOMAIN sessions : \A i \in DOMAIN write_packets : RequestYoung(s, i)

\* A copy of it that is under way arrives while it is remembered.
CopiesInTime ==
    \A s \in DOMAIN sessions, i \in Requests :
      Arriving(s, S!Request(i)) /\ processed[s][i] = 1 =>
        Age(s, i) + MaxDelay < Window + delay

\* The same of notifications.
PushYoung(s, p) ==
    LET info == sessions[s].write_packets[p] IN
    notified[p] = 1 =>
      rencently_packet_tracker[p]
        <= Over(info.cur_tries - 1, ResendInterval)
             + Elapsed(info.since, ResendInterval, CheckDue(s))

PushesYoung ==
    \A s \in DOMAIN sessions :
      \A p \in DOMAIN sessions[s].write_packets : PushYoung(s, p)

\* A packet that the client has yet to look at.
Coming(packet) ==
    \/ socket = "up" /\ Holds(conn[cur_session_id].to_client, packet)
    \/ Holds(ioq, Reading(packet))

PushesInTime ==
    \A p \in Pushes :
      Coming(Push(p)) /\ notified[p] = 1 =>
        rencently_packet_tracker[p] + MaxDelay < Window + delay

\* While any of these wait, nothing that is under way gets more time.
LEMMA Busy ==
  ASSUME TypeInv
  PROVE  /\ \A ops : Waits(ops) => Waiting
         /\ \A s, packet : Arriving(s, packet) => Waiting
         /\ \A s \in DOMAIN sessions : CheckDue(s) => Waiting
         /\ \A packet : Coming(packet) => Waiting
<1>1. ioq \in Seq(Handlers)
  BY DEF TypeInv, QueueOK
<1>2. \A s, packet : Arriving(s, packet) => conn[s].to_server # <<>>
  BY DEF Arriving, Holds
<1>3. \A packet : Coming(packet) =>
        \/ socket = "up" /\ conn[cur_session_id].to_client # <<>>
        \/ ioq # <<>>
  BY DEF Coming, Holds
<1>4. \A ops : Waits(ops) => ioq # <<>>
  BY DEF Waits
<1>5. \A s \in DOMAIN sessions : CheckDue(s) => Waiting
  BY DEF CheckDue, Waiting
<1>6. \A s, packet : Arriving(s, packet) => Waiting
  BY <1>2 DEF Arriving, Waiting
<1>7. QED BY <1>3, <1>4, <1>5, <1>6 DEF Waiting

\* The same of the next state.
LEMMA BusyNext ==
  ASSUME TypeInv'
  PROVE  /\ \A ops : Waits(ops)' => Waiting'
         /\ \A s, packet : Arriving(s, packet)' => Waiting'
         /\ \A s \in DOMAIN sessions' : CheckDue(s)' => Waiting'
         /\ \A packet : Coming(packet)' => Waiting'
<1>1. ioq' \in Seq(Handlers)
  BY DEF TypeInv, QueueOK
<1>2. \A s, packet : Arriving(s, packet)' => conn'[s].to_server # <<>>
  BY DEF Arriving, Holds
<1>3. \A packet : Coming(packet)' =>
        \/ socket' = "up" /\ conn'[cur_session_id'].to_client # <<>>
        \/ ioq' # <<>>
  BY DEF Coming, Holds
<1>4. \A ops : Waits(ops)' => ioq' # <<>>
  BY DEF Waits
<1>5. \A s \in DOMAIN sessions' : CheckDue(s)' => Waiting'
  BY DEF CheckDue, Waiting
<1>6. \A s, packet : Arriving(s, packet)' => Waiting'
  BY <1>2 DEF Arriving, Waiting
<1>7. QED BY <1>3, <1>4, <1>5, <1>6 DEF Waiting

\* Attempts in numbers.
LEMMA Paces ==
  ASSUME NEW interval \in Nat
  PROVE  /\ Pace(interval) \in Nat \ {0} /\ interval <= Pace(interval)
         /\ interval = 0 => Pace(interval) = 1
         /\ interval # 0 => Pace(interval) = interval
         /\ MaxDelay \in Nat
         /\ \A n \in Nat : Over(n, interval) \in Nat
         /\ \A n \in Nat :
              Over(n + 1, interval) = Over(n, interval) + Pace(interval) + MaxDelay
         /\ \A n, m \in Nat : n <= m => Over(n, interval) <= Over(m, interval)
<1>1. Pace(interval) \in Nat \ {0} /\ MaxDelay \in Nat
  BY CompositionAssumption DEF Pace
<1> DEFINE k == Pace(interval) + MaxDelay
<1>2. k \in Nat
  BY <1>1
<1>3. \A n : Over(n, interval) = n * k
  BY DEF Over
<1> HIDE DEF k
<1>4. \A n \in Nat : n * k \in Nat /\ (n + 1) * k = n * k + k
  BY <1>2
<1>5. ASSUME NEW n \in Nat, NEW m \in Nat, n <= m PROVE n * k <= m * k
  <2>1. PICK d \in Nat : m = n + d
    <3>1. m - n \in Nat /\ m = n + (m - n)
      BY <1>5
    <3>2. QED BY <3>1
  <2>2. m * k = n * k + d * k
    BY <1>2, <2>1
  <2>3. n * k \in Nat /\ d * k \in Nat
    BY <1>2
  <2>4. QED BY <2>2, <2>3
<1>6. \A n \in Nat : (n + 1) * k = n * k + Pace(interval) + MaxDelay
  <2>1. k = Pace(interval) + MaxDelay
    BY DEF k
  <2> SUFFICES ASSUME NEW n \in Nat
               PROVE  (n + 1) * k = n * k + Pace(interval) + MaxDelay
    OBVIOUS
  <2>2. n * k \in Nat /\ (n + 1) * k = n * k + k
    BY <1>4
  <2>3. QED BY <1>1, <2>1, <2>2
<1>7. QED BY <1>1, <1>3, <1>4, <1>5, <1>6 DEF Pace

-----------------------------------------------------------------------------
(* What a step does to the sessions, the connections and the queue.        *)

\* Packets come from where they are written.
LEMMA ChannelsStep ==
  ASSUME Linked, [TcpNext]_tcpVars, NEW s \in S!Sessions
  PROVE  /\ \A m : Holds(conn'[s].to_server, m) =>
              \/ Holds(conn[s].to_server, m)
              \/ /\ s = cur_session_id /\ socket = "up"
                 /\ ClientHandler /\ Holds(Outgoing, m)
         /\ \A m : Holds(conn'[s].to_client, m) =>
              \/ Holds(conn[s].to_client, m)
              \/ \E i \in Requests : m = S!Response(i) /\ <<s, i>> \in taken
              \/ \E p \in Pushes : m = S!Push(p) /\ Pushed(s, p) /\ ~BothSecond
<1>1. TypeInv /\ SP!TypeInv /\ ProcessedType /\ acceptor_open
  BY DEF Linked
<1>2. CASE BothSecond
  <2>1. conn' = conn
    BY <1>1, <1>2, SecondSessions DEF BothSecond
  <2>2. QED BY <2>1
<1>3. CASE ServerAlone /\ ~BothSecond
  <2>1. ChannelsMove
    BY <1>1, <1>3, ServerAloneMoves DEF ServerMoves
  <2>2. QED BY <1>3, <2>1 DEF ChannelsMove
<1>4. CASE Calls \/ ClientNetwork \/ ClientHandler \/ PacketArrives \/ UNCHANGED tcpVars
  BY <1>4, ClientActs
<1>5. CASE Connected
  <2>1. S!NewConnection.to_server = <<>> /\ S!NewConnection.to_client = <<>>
    BY DEF S!NewConnection, S!NoConnection
  <2>2. s = cur_session_id' => conn'[s] = S!NewConnection
    BY <1>1, <1>5, ConnectedOpens
  <2>3. s # cur_session_id' => conn'[s] = conn[s]
    BY <1>1, <1>5, ConnectedOpens
  <2>4. QED BY <2>1, <2>2, <2>3, HoldsNone
<1>6. QED BY <1>2, <1>3, <1>4, <1>5, Kinds

\* Requests are processed when they arrive.
LEMMA RequestsStep ==
  ASSUME Linked, [TcpNext]_tcpVars PROVE RequestsMove
<1>1. TypeInv /\ SP!TypeInv /\ ProcessedType /\ acceptor_open
  BY DEF Linked
<1>2. CASE ServerAlone
  BY <1>1, <1>2, ServerAloneMoves DEF ServerMoves
<1>3. CASE ~ServerAlone
  <2>1. UNCHANGED <<processed, taken>>
    <3>1. CASE BothSecond
      BY <1>1, <3>1, SecondSessions DEF BothSecond, resultVars
    <3>2. CASE Calls \/ ClientNetwork \/ ClientHandler \/ PacketArrives \/ UNCHANGED tcpVars
      BY <3>2, ClientActs
    <3>3. CASE Connected
      BY <1>1, <3>3, ConnectedOpens DEF resultVars
    <3>4. QED BY <1>3, <3>1, <3>2, <3>3, Kinds
  <2>2. QED BY <1>1, <2>1, StillRequests
<1>4. QED BY <1>2, <1>3

\* A step that takes no time.
LEMMA SessionsStep ==
  ASSUME Linked, [TcpNext]_tcpVars, ~BothSecond
  PROVE  /\ cur_seq <= cur_seq' /\ cur_session_id <= cur_session_id'
         /\ Waiting' => delay' = delay
         /\ \A s \in DOMAIN sessions' :
              \/ s \in DOMAIN sessions /\ SessionMoves(s)
              \/ /\ s > cur_session_id /\ s \in S!Sessions /\ UNCHANGED processed
                 /\ sessions'[s].write_packets = [p \in {} |-> {}]
                 /\ conn'[s].to_server = <<>>
<1>1. /\ TypeInv /\ SP!TypeInv /\ ProcessedType /\ acceptor_open
      /\ cur_session_id \in Nat /\ cur_seq \in Nat
  BY ServerFields DEF Linked
<1>2. Waiting' => delay' = delay
  BY Kinds DEF tcpVars
<1>3. CASE ServerAlone
  BY <1>1, <1>2, <1>3, ServerAloneMoves DEF ServerMoves, SessionsMove
<1>4. CASE Calls \/ ClientNetwork \/ ClientHandler \/ PacketArrives \/ UNCHANGED tcpVars
  <2>1. UNCHANGED <<sessions, cur_session_id, cur_seq>>
    BY <1>4, ClientActs
  <2>2. \A s \in S!Sessions : \A m : Holds(conn[s].to_server, m) => Holds(conn'[s].to_server, m)
    BY <1>4, ClientActs
  <2>3. DOMAIN sessions \subseteq S!Sessions
    BY <1>1, SessionFacts
  <2>4. \A s \in DOMAIN sessions : SessionMoves(s)
    BY <2>1, <2>2, <2>3 DEF SessionMoves
  <2>5. QED BY <1>1, <1>2, <2>1, <2>4
<1>5. CASE Connected
  <2> DEFINE new == cur_session_id'
  <2>1. /\ new = cur_session_id + 1 /\ new \in S!Sessions
        /\ DOMAIN sessions' = DOMAIN sessions \union {new}
        /\ sessions'[new] = S!NewSession /\ new \notin DOMAIN sessions
        /\ \A s \in DOMAIN sessions : sessions'[s] = sessions[s]
        /\ conn'[new] = S!NewConnection
        /\ \A s \in S!Sessions : s # new => conn'[s] = conn[s]
        /\ UNCHANGED <<cur_seq, processed>>
    BY <1>1, <1>5, ConnectedOpens DEF resultVars
  <2> HIDE DEF new
  <2>2. /\ S!NewSession.write_packets = [p \in {} |-> {}]
        /\ S!NewConnection.to_server = <<>>
    BY DEF S!NewSession, S!NewConnection, S!NoConnection
  <2>3. DOMAIN sessions \subseteq S!Sessions
    BY <1>1, SessionFacts
  <2>4. \A s \in DOMAIN sessions : SessionMoves(s)
    BY <2>1, <2>3 DEF SessionMoves
  <2>5. cur_session_id' = cur_session_id + 1
    BY <2>1 DEF new
  <2>6. new > cur_session_id
    BY <1>1, <2>1
  <2>7. ASSUME NEW s \in DOMAIN sessions'
        PROVE  \/ s \in DOMAIN sessions /\ SessionMoves(s)
               \/ /\ s > cur_session_id /\ s \in S!Sessions /\ UNCHANGED processed
                  /\ sessions'[s].write_packets = [p \in {} |-> {}]
                  /\ conn'[s].to_server = <<>>
    BY <2>1, <2>2, <2>4, <2>6
  <2>8. QED BY <1>1, <1>2, <2>1, <2>5, <2>7
<1>6. QED BY <1>3, <1>4, <1>5, Kinds

LEMMA SecondStep ==
  ASSUME Linked, BothSecond
  PROVE  /\ UNCHANGED <<cur_session_id, cur_seq, conn, taken, outcome, processed,
                        notified, socket>>
         /\ Second /\ S!Second /\ delay' = IF Waiting THEN delay + 1 ELSE 0
  BY SecondSessions DEF BothSecond, Linked, resultVars, Second, netVars

\* A send that has run stays in the past.
LEMMA SentStep ==
  ASSUME TypeInv, Accounted, ClientStep
  PROVE  /\ cur_send_id <= cur_send_id'
         /\ \A i \in Requests : WasSent(i) => WasSent(i)'
<1>1. cur_send_id \in Nat /\ SentOnce
  BY Numbers DEF TypeInv, FieldsOK, Accounted
<1>2. ASSUME cur_send_id' = cur_send_id, \A i : Sending(i)' => Sending(i)
      PROVE  /\ cur_send_id <= cur_send_id'
             /\ \A i \in Requests : WasSent(i) => WasSent(i)'
  BY <1>1, <1>2 DEF WasSent
<1>3. CASE RunHandler
  <2>1. cur_send_id' = cur_send_id
    BY <1>3 DEF RunHandler, RunStart, RunStop, RunSend, RunCancel,
       RunSubscription, RunTimerStart, RunTimerStop, RunTimer, RunConnect,
       RunReadResponse, RunReadPush, RunReadError, RunWriteError, clientVars
  <2>2. \A i : Sending(i)' => Sending(i)
    BY <1>1, <1>3, HandlerTypes, HandlerSending
  <2>3. QED BY <1>2, <2>1, <2>2
<1>4. ASSUME NEW t \in Threads, NEW opt \in SendOpts, SendReqAsync(t, opt)
      PROVE  /\ cur_send_id <= cur_send_id'
             /\ \A i \in Requests : WasSent(i) => WasSent(i)'
  <2> DEFINE h == [op |-> "send", id |-> cur_send_id', opt |-> opt]
  <2>1. /\ cur_send_id' = cur_send_id + 1 /\ cur_send_id' \in Requests
        /\ Posting(h)
    BY <1>4, SendTypes
  <2>2. ~(cur_send_id' <= cur_send_id)
    BY <1>1, <2>1
  <2>3. ~Sending(cur_send_id')
    BY <2>1, <2>2 DEF Accounted, NotYet
  <2>4. h.op = "send" /\ h.id = cur_send_id'
    OBVIOUS
  <2> HIDE DEF h
  <2>5. \A i : Sending(i)' <=> Sending(i) \/ (h.op = "send" /\ h.id = i)
    BY <1>1, <2>1, <2>3, <2>4, PostingSending
  <2>6. ASSUME NEW i \in Requests, WasSent(i) PROVE WasSent(i)'
    <3>1. i <= cur_send_id /\ ~Sending(i) /\ i \in Int
      BY <2>6, Numbers DEF WasSent, Requests
    <3>2. i <= cur_send_id' /\ i # cur_send_id'
      BY <1>1, <2>1, <3>1
    <3>3. QED BY <2>4, <2>5, <3>1, <3>2 DEF WasSent
  <2>7. QED BY <1>1, <2>1, <2>6
<1>5. CASE Second
  <2>1. cur_send_id' = cur_send_id
    BY <1>5 DEF Second
  <2>2. \A i : Sending(i)' => Sending(i)
    BY <1>1, <1>5, SecondSending
  <2>3. QED BY <1>2, <2>1, <2>2
<1>6. ASSUME cur_send_id' = cur_send_id,
             UNCHANGED ioq \/ \E h : Posting(h) /\ h.op # "send"
      PROVE  /\ cur_send_id <= cur_send_id'
             /\ \A i \in Requests : WasSent(i) => WasSent(i)'
  <2>1. \A i : Sending(i)' => Sending(i)
    <3>1. CASE UNCHANGED ioq
      BY <3>1 DEF Sending, Queued
    <3>2. CASE \E h : Posting(h) /\ h.op # "send"
      BY <1>1, <3>2, PostingSending
    <3>3. QED BY <1>6, <3>1, <3>2
  <2>2. QED BY <1>2, <1>6, <2>1
<1>7. CASE \E t \in Threads : CallStart(t) \/ \E cmd \in Cmds : SubscribeNotification(t, cmd)
  <2>1. cur_send_id' = cur_send_id
    BY <1>7 DEF CallStart, SubscribeNotification, clientVars
  <2>2. \E h : Posting(h) /\ h.op # "send"
    BY <1>7, CallTypes
  <2>3. QED BY <1>6, <2>1, <2>2
<1>8. CASE Network
  <2>1. Delivers
    BY <1>8, NetworkTypes
  <2>2. cur_send_id' = cur_send_id
    BY <2>1 DEF Delivers, clientVars
  <2>3. UNCHANGED ioq \/ \E h : Posting(h) /\ h.op # "send"
    BY <2>1 DEF Delivers, queueVars
  <2>4. QED BY <1>6, <2>2, <2>3
<1>9. CASE UNCHANGED vars
  BY <1>6, <1>9 DEF vars, clientVars, queueVars
<1>10. QED BY <1>3, <1>4, <1>5, <1>7, <1>8, <1>9 DEF ClientStep

\* What the client's calls and its network queue.
OtherSteps ==
    Calls \/ ClientNetwork \/ PacketArrives \/ Connected \/ UNCHANGED vars

LEMMA OtherQueues ==
  ASSUME Linked, OtherSteps
  PROVE  /\ UNCHANGED <<write_packets, rencently_packet_tracker>>
         /\ \/ UNCHANGED ioq
            \/ \E h : Posting(h) /\ h.op # "read"
            \/ /\ socket = "up" /\ cur_session_id \in S!Sessions
               /\ \E m : /\ Holds(conn[cur_session_id].to_client, m)
                         /\ Posting(Reading(m))
<1>1. TypeInv /\ SP!TypeInv /\ CurSession
  BY DEF Linked
<1>2. ASSUME NEW t \in Threads, CallStart(t) PROVE \E h : Posting(h) /\ h.op # "read"
  <2>1. Posting([op |-> "start", thread |-> t])
    BY <1>2 DEF CallStart, Posting, Handlers
  <2>2. QED BY <2>1
<1>3. ASSUME NEW t \in Threads, NEW cmd \in Cmds, SubscribeNotification(t, cmd)
      PROVE  \E h : Posting(h) /\ h.op # "read"
  <2>1. Posting([op |-> "subscribe", cmd |-> cmd])
    BY <1>3 DEF SubscribeNotification, Posting, Handlers
  <2>2. QED BY <2>1
<1>4. ASSUME NEW t \in Threads, NEW opt \in SendOpts, SendReqAsync(t, opt)
      PROVE  \E h : Posting(h) /\ h.op # "read"
  <2>1. Posting([op |-> "send", id |-> cur_send_id', opt |-> opt])
    BY <1>1, <1>4, SendTypes
  <2>2. QED BY <2>1
<1>5. CASE Calls
  <2>1. UNCHANGED <<write_packets, rencently_packet_tracker>>
    BY <1>5
       DEF Calls, StartClient, Subscribe, SendRequest, CallStart,
       SubscribeNotification, SendReqAsync, clientVars
  <2>2. \E h : Posting(h) /\ h.op # "read"
    BY <1>2, <1>3, <1>4, <1>5 DEF Calls, StartClient, Subscribe, SendRequest
  <2>3. QED BY <2>1, <2>2
<1>6. ASSUME NEW ok \in BOOLEAN, ConnectDone(ok)
      PROVE  \E h : Posting(h) /\ h.op # "read"
  <2>1. Posting([op |-> "connect", ok |-> ok])
    BY <1>6 DEF ConnectDone, Posting, Handlers
  <2>2. QED BY <2>1
<1>7. ReadFails => \E h : Posting(h) /\ h.op # "read"
  <2>1. ReadFails => Posting([op |-> "read_error"])
    BY DEF ReadFails, Posting, Handlers
  <2>2. QED BY <2>1
<1>8. CASE Connected \/ ClientNetwork
  <2>1. UNCHANGED <<write_packets, rencently_packet_tracker>>
    BY <1>8
       DEF Connected, ClientNetwork, ConnectFails, ClientNotices,
       ClientReadFails, ConnectDone, LinkBreaks, ReadFails, clientVars
  <2>2. UNCHANGED ioq \/ \E h : Posting(h) /\ h.op # "read"
    BY <1>6, <1>7, <1>8
       DEF Connected, ClientNetwork, ConnectFails, ClientNotices,
       ClientReadFails, LinkBreaks, queueVars
  <2>3. QED BY <2>1, <2>2
<1>9. CASE PacketArrives
  <2> DEFINE channel == conn[cur_session_id].to_client
  <2>1. socket = "up" /\ cur_session_id \in S!Sessions
    BY <1>1, <1>9 DEF PacketArrives, CurSession
  <2>2. /\ channel # <<>> /\ channel \in Seq(S!ToClient) /\ ReadReady(Head(channel))
        /\ Head(channel) \in S!ToClient
    BY <1>1, <1>9, <2>1, PacketArrivesServes
  <2> HIDE DEF channel
  <2>3. Posted(Reading(Head(channel))) /\ UNCHANGED <<write_packets, rencently_packet_tracker>>
    BY <2>2 DEF ReadReady, Reading, clientVars
  <2>4. Reading(Head(channel)) \in Handlers /\ Reading(Head(channel)).op # "timer_start"
    BY <2>2, Numbering DEF Reading, Handlers, S!ToClient
  <2>5. Holds(channel, Head(channel))
    BY <2>2, HoldsHead
  <2>6. QED BY <2>1, <2>3, <2>4, <2>5 DEF Posting, channel
<1>10. CASE UNCHANGED vars
  BY <1>10 DEF vars, clientVars, queueVars
<1>11. QED BY <1>5, <1>8, <1>9, <1>10 DEF OtherSteps

LEMMA StepKinds ==
  ASSUME Linked, [TcpNext]_tcpVars
  PROVE  OtherSteps \/ ClientHandler \/ BothSecond
<1>1. ServerAlone => UNCHANGED vars
  BY ServerAloneMoves DEF ServerMoves, Linked
<1>2. QED BY <1>1, Kinds DEF OtherSteps, tcpVars

\* A packet that the client is to look at was looked forward to.
LEMMA InboxStep ==
  ASSUME Linked, ClientInv, [TcpNext]_tcpVars, NEW m, Holds(ioq', Reading(m))
  PROVE  \/ Holds(ioq, Reading(m))
         \/ /\ socket = "up" /\ cur_session_id \in S!Sessions
            /\ Holds(conn[cur_session_id].to_client, m)
<1>1. TypeInv /\ NoStops
  BY DEF Linked, ClientInv
<1>2. PICK n \in 1..Len(ioq') : ioq'[n] = Reading(m)
  BY DEF Holds
<1>3. ioq'[n].op = "read" /\ ioq'[n].packet = m
  BY <1>2 DEF Reading
<1>4. ASSUME NEW ops, "read" \notin ops, Behind(ops) \/ Shifted(ops)
      PROVE  Holds(ioq, Reading(m))
  BY <1>2, <1>3, <1>4 DEF Behind, Shifted, Holds
<1>5. CASE ClientHandler
  <2>1. Shifted(CompletionOps \union {"timer_start"})
    BY <1>1, <1>5, HandlerShifts, NeverStops DEF ClientHandler
  <2>2. QED BY <1>4, <2>1 DEF CompletionOps
<1>6. CASE BothSecond
  BY <1>1, <1>4, <1>6, SecondTicks DEF BothSecond
<1>7. CASE OtherSteps
  <2>1. CASE UNCHANGED ioq
    BY <2>1
  <2>2. ASSUME NEW h, Posting(h), h.op # "read" PROVE Holds(ioq, Reading(m))
    <3>1. Behind({h.op})
      BY <1>1, <2>2, PostingBehind
    <3>2. QED BY <1>4, <2>2, <3>1
  <2>3. ASSUME NEW x, Posting(Reading(x))
        PROVE  Holds(ioq, Reading(m)) \/ m = x
    <3>1. ioq' = Append(ioq, Reading(x)) /\ ioq \in Seq(Handlers)
      BY <1>1, <2>3 DEF Posting, Posted, TypeInv, QueueOK
    <3>2. (n \in 1..Len(ioq) /\ ioq'[n] = ioq[n]) \/ ioq'[n] = Reading(x)
      BY <3>1
    <3>3. Reading(x).packet = x
      BY DEF Reading
    <3>4. QED BY <1>2, <1>3, <3>2, <3>3 DEF Holds
  <2>4. QED BY <1>7, <2>1, <2>2, <2>3, OtherQueues
<1>8. QED BY <1>5, <1>6, <1>7, StepKinds

-----------------------------------------------------------------------------
(* Once each, as long as copies arrive in time.                            *)

LEMMA ProcessedOnce ==
  ASSUME Linked, Once, CopiesInTime, [TcpNext]_tcpVars,
         NEW s \in S!Sessions, NEW i \in Requests
  PROVE  \/ processed'[s][i] = processed[s][i]
         \/ /\ processed[s][i] = 0 /\ processed'[s][i] = 1
            /\ Arriving(s, S!Request(i))
            /\ s \in DOMAIN sessions' /\ Age(s, i)' = 0
<1>1. /\ SP!TypeInv /\ RequestsMove /\ delay \in 0..MaxDelay /\ MaxDelay \in Nat
      /\ Window \in Nat
  BY RequestsStep, CompositionAssumption, Numbers DEF Linked
<1>2. processed[s][i] \in {0, 1}
  BY DEF Once
<1>3. CASE processed'[s][i] # processed[s][i]
  <2>1. processed'[s][i] = processed[s][i] + 1 /\ ProcessesNow(s, i)
    BY <1>1, <1>3 DEF RequestsMove
  <2>2. /\ Arriving(s, S!Request(i)) /\ s \in DOMAIN sessions
        /\ ~(Age(s, i) < Window)
        /\ s \in DOMAIN sessions' /\ Age(s, i)' = 0
    BY <2>1 DEF ProcessesNow, Arriving, Seen, Age
  <2>3. Age(s, i) \in 0..Window
    BY <1>1, <2>2, SessionFacts DEF Age, Ages
  <2>4. processed[s][i] # 1
    BY <1>1, <2>2, <2>3 DEF CopiesInTime
  <2>5. QED BY <1>2, <2>1, <2>2, <2>4
<1>4. QED BY <1>3

LEMMA CalledBackOnce ==
  ASSUME Linked, Once, PushesInTime, [TcpNext]_tcpVars, NEW p \in Pushes
  PROVE  \/ notified'[p] = notified[p]
         \/ /\ notified[p] = 0 /\ notified'[p] = 1 /\ ClientHandler
            /\ Holds(ioq, Reading(Push(p))) /\ rencently_packet_tracker'[p] = 0
<1>1. /\ TypeInv /\ delay \in 0..MaxDelay /\ MaxDelay \in Nat /\ Window \in Nat
      /\ rencently_packet_tracker \in [Pushes -> 0..Window]
  BY CompositionAssumption, Numbers DEF Linked, TypeInv, PushesOK, Ages
<1>2. notified[p] \in {0, 1}
  BY DEF Once
<1>3. CASE ClientHandler
  <2>1. notified'[p] = IF Notifies(p) THEN notified[p] + 1 ELSE notified[p]
    BY <1>3 DEF ClientHandler
  <2>2. CASE Notifies(p)
    <3>1. /\ ioq # <<>> /\ Head(ioq).op = "read" /\ Head(ioq).packet = Push(p)
          /\ ~(rencently_packet_tracker[p] < Window)
      BY <2>2 DEF Notifies, Runs, Seen
    <3>2. ioq \in Seq(Handlers) /\ Head(ioq) \in Handlers
      BY <1>1, <3>1 DEF TypeInv, QueueOK
    <3>3. Head(ioq) = Reading(Push(p))
      BY <3>1, <3>2 DEF Handlers, Reading
    <3>4. Holds(ioq, Reading(Push(p)))
      BY <3>1, <3>2, <3>3, HoldsHead
    <3>5. notified[p] # 1
      BY <1>1, <3>1, <3>4 DEF PushesInTime, Coming
    <3>6. RunReadPush
      <4>1. RunHandler
        BY <1>3 DEF ClientHandler
      <4>2. Head(ioq).packet.kind = "push"
        BY <3>1 DEF Push
      <4>3. QED
        BY <3>1, <4>1, <4>2
           DEF RunHandler, RunStart, RunStop, RunSend, RunCancel,
           RunSubscription, RunTimerStart, RunTimerStop, RunTimer, RunConnect,
           RunReadResponse, RunReadError, RunWriteError, Runs
    <3>7. Head(ioq).packet.id = p
      BY <3>1 DEF Push
    <3>8. rencently_packet_tracker' = [rencently_packet_tracker EXCEPT ![p] = 0]
      BY <3>1, <3>6, <3>7 DEF RunReadPush, Recorded, Seen
    <3>9. rencently_packet_tracker'[p] = 0
      BY <1>1, <3>8
    <3>10. QED BY <1>2, <1>3, <2>1, <2>2, <3>4, <3>5, <3>9
  <2>3. QED BY <2>1, <2>2
<1>4. CASE ~ClientHandler
  <2>1. notified' = notified
    <3>1. CASE ServerAlone
      BY <3>1, ServerAloneMoves DEF ServerMoves, Linked
    <3>2. CASE Calls \/ ClientNetwork \/ PacketArrives \/ Connected \/ UNCHANGED tcpVars
      BY <3>2
         DEF Calls, StartClient, Subscribe, SendRequest, ClientNetwork,
         ConnectFails, ClientNotices, ClientReadFails, PacketArrives, Connected,
         tcpVars, resultVars
    <3>3. CASE BothSecond
      BY <3>3, SecondStep
    <3>4. QED BY <1>4, <3>1, <3>2, <3>3, Kinds
  <2>2. QED BY <2>1
<1>5. QED BY <1>3, <1>4

LEMMA NextOnce ==
  ASSUME Linked, Linked', Once, CopiesInTime, PushesInTime, [TcpNext]_tcpVars
  PROVE  Once'
<1>1. processed' \in [S!Sessions -> [Requests -> Nat]]
  BY DEF Linked, ProcessedType
<1>2. \A s \in S!Sessions, i \in Requests : processed'[s][i] \in {0, 1}
  BY ProcessedOnce DEF Once
<1>3. processed' \in [S!Sessions -> [Requests -> {0, 1}]]
  <2>1. ASSUME NEW s \in S!Sessions PROVE processed'[s] \in [Requests -> {0, 1}]
    <3>1. processed'[s] \in [Requests -> Nat]
      BY <1>1
    <3>2. QED BY <1>2, <3>1
  <2>2. QED BY <1>1, <2>1
<1>4. \A p \in Pushes : notified'[p] \in {0, 1}
  BY CalledBackOnce DEF Once
<1>5. notified' = [p \in Pushes |-> notified'[p]]
  <2>1. CASE ClientHandler
    BY <2>1 DEF ClientHandler
  <2>2. CASE UNCHANGED notified
    BY <2>2 DEF Once
  <2>3. CASE ServerAlone
    BY <2>2, <2>3, ServerAloneMoves DEF ServerMoves, Linked
  <2>4. CASE Calls \/ ClientNetwork \/ PacketArrives \/ Connected \/ UNCHANGED tcpVars
    BY <2>2, <2>4
       DEF Calls, StartClient, Subscribe, SendRequest, ClientNetwork,
       ConnectFails, ClientNotices, ClientReadFails, PacketArrives, Connected,
       tcpVars, resultVars
  <2>5. CASE BothSecond
    BY <2>2, <2>5, SecondStep
  <2>6. QED BY <2>1, <2>3, <2>4, <2>5, Kinds
<1>6. QED BY <1>3, <1>4, <1>5 DEF Once

-----------------------------------------------------------------------------
(* What happens has its cause.                                             *)

\* What is written to the server was sent by the application.
LEMMA OutgoingSent ==
  ASSUME TypeInv, Accounted', RunHandler, NEW i \in Requests,
         Holds(Outgoing, S!Request(i))
  PROVE  WasSent(i)'
<1>1. ioq # <<>>
  BY HandlerTypes DEF Consuming, Consumes
<1>2. Requesting(i)
  BY <1>1, OutgoingIs
<1>3. i \in DOMAIN write_packets'
  <2>1. CASE Runs("send") /\ i = Head(ioq).id
    <3>1. RunSend
      BY <2>1
         DEF RunHandler, RunStart, RunStop, RunCancel, RunSubscription,
         RunTimerStart, RunTimerStop, RunTimer, RunConnect, RunReadResponse,
         RunReadPush, RunReadError, RunWriteError, Runs
    <3>2. QED BY <2>1, <3>1 DEF RunSend
  <2>2. CASE Runs("timer") /\ Head(ioq).timer \in DOMAIN timers /\ i \in Due \ Exhausted
    <3>1. RunTimer
      BY <2>2
         DEF RunHandler, RunStart, RunStop, RunSend, RunCancel, RunSubscription,
         RunTimerStart, RunTimerStop, RunConnect, RunReadResponse,
         RunReadPush, RunReadError, RunWriteError, Runs
    <3>2. DOMAIN write_packets' = DOMAIN write_packets \ Exhausted
      BY <2>2, <3>1 DEF RunTimer
    <3>3. QED BY <2>2, <3>2 DEF Due
  <2>3. QED BY <1>2, <2>1, <2>2 DEF Requesting
<1>4. QED BY <1>3 DEF Accounted, Placed, NotYet, WasSent

LEMMA NextCounters ==
  ASSUME Linked, [TcpNext]_tcpVars PROVE cur_session_id' \in Nat /\ cur_seq' \in Nat
<1>1. SP!CountersOK'
  BY NextServerTypes DEF SP!TypeInv
<1>2. QED BY <1>1, ServerConstants DEF SP!CountersOK

LEMMA NextFresh ==
  ASSUME Linked, Once, CopiesInTime, FreshSessions, [TcpNext]_tcpVars
  PROVE  FreshSessions'
<1>1. cur_session_id \in Nat /\ cur_session_id' \in Nat /\ cur_session_id <= cur_session_id'
  <2>1. SP!TypeInv
    BY DEF Linked
  <2>2. cur_session_id \in Nat /\ cur_session_id' \in Nat
    BY <2>1, NextCounters, ServerFields
  <2>3. cur_session_id <= cur_session_id'
    BY <2>2, SessionsStep, SecondStep
  <2>4. QED BY <2>2, <2>3
<1>2. SUFFICES ASSUME NEW s \in S!Sessions, s > cur_session_id', NEW i \in Requests
               PROVE  processed'[s][i] = 0
  BY DEF FreshSessions
<1>3. s > cur_session_id /\ s \in Nat
  BY <1>1, <1>2, Numbering, CompositionAssumption
<1>4. processed[s][i] = 0
  BY <1>3 DEF FreshSessions
<1>5. s \notin DOMAIN sessions
  BY <1>1, <1>3, SessionFacts DEF Linked
<1>6. QED BY <1>4, <1>5, ProcessedOnce DEF Arriving

LEMMA NextCauses ==
  ASSUME Linked, ClientInv, Accounted, Accounted', Once, CopiesInTime, Causes,
         [TcpNext]_tcpVars
  PROVE  Causes'
<1>1. TypeInv /\ SP!TypeInv /\ RequestsMove
  BY RequestsStep DEF Linked
<1>2. \A i \in Requests : WasSent(i) => WasSent(i)'
  BY <1>1, SentStep, StepsOfClient
<1>3. \A s \in S!Sessions, i \in Requests :
        /\ processed[s][i] = 1 => processed'[s][i] = 1
        /\ processed'[s][i] = processed[s][i] + 1 => processed'[s][i] = 1
        /\ processed'[s][i] = 1 => processed[s][i] = 1 \/ Arriving(s, S!Request(i))
  <2> SUFFICES ASSUME NEW s \in S!Sessions, NEW i \in Requests
               PROVE  /\ processed[s][i] = 1 => processed'[s][i] = 1
                      /\ processed'[s][i] = processed[s][i] + 1 => processed'[s][i] = 1
                      /\ processed'[s][i] = 1 =>
                           processed[s][i] = 1 \/ Arriving(s, S!Request(i))
    OBVIOUS
  <2>1. processed[s][i] \in {0, 1}
    BY DEF Once
  <2>2. QED BY <2>1, ProcessedOnce
<1>4. \A i \in Requests : WasProcessed(i) => WasProcessed(i)'
  BY <1>3 DEF WasProcessed
<1>5. ASSUME NEW s \in S!Sessions, NEW i \in Requests,
             Holds(conn'[s].to_server, S!Request(i))
      PROVE  WasSent(i)'
  <2>1. CASE Holds(conn[s].to_server, S!Request(i))
    BY <1>2, <2>1 DEF Causes
  <2>2. CASE ClientHandler /\ Holds(Outgoing, S!Request(i))
    BY <1>1, <2>2, OutgoingSent DEF ClientHandler
  <2>3. QED BY <1>5, <2>1, <2>2, ChannelsStep
<1>6. ASSUME NEW s \in S!Sessions, NEW i \in Requests, processed'[s][i] = 1
      PROVE  WasSent(i)'
  BY <1>2, <1>3, <1>6 DEF Causes, Arriving
<1>7. ASSUME NEW s \in S!Sessions, NEW i \in Requests, <<s, i>> \in taken'
      PROVE  processed'[s][i] = 1
  BY <1>1, <1>3, <1>7 DEF Causes, RequestsMove
<1>8. ASSUME NEW s \in S!Sessions, NEW i \in Requests,
             Holds(conn'[s].to_client, S!Response(i))
      PROVE  WasProcessed(i)'
  <2>1. CASE Holds(conn[s].to_client, S!Response(i))
    BY <1>4, <2>1 DEF Causes
  <2>2. ASSUME NEW j \in Requests, S!Response(i) = S!Response(j), <<s, j>> \in taken
        PROVE  WasProcessed(i)'
    <3>1. i = j
      BY <2>2 DEF S!Response
    <3>2. processed[s][i] = 1
      BY <2>2, <3>1 DEF Causes
    <3>3. QED BY <1>4, <3>2 DEF WasProcessed
  <2>3. \A p : S!Response(i) # S!Push(p)
    BY DEF S!Response, S!Push
  <2>4. QED BY <1>8, <2>1, <2>2, <2>3, ChannelsStep
<1>9. ASSUME NEW i \in Requests, Holds(ioq', Reading(Response(i)))
      PROVE  WasProcessed(i)'
  <2>1. Response(i) = S!Response(i)
    BY DEF Response, S!Response
  <2>2. WasProcessed(i)
    BY <1>9, <2>1, InboxStep DEF Causes
  <2>3. QED BY <1>4, <2>2
<1>10. QED BY <1>5, <1>6, <1>7, <1>8, <1>9 DEF Causes

LEMMA NextPublished ==
  ASSUME Linked, ClientInv, Once, PushesInTime, Published, [TcpNext]_tcpVars
  PROVE  Published'
<1>1. /\ cur_seq \in Nat /\ cur_seq' \in Nat /\ cur_seq <= cur_seq'
      /\ \A p \in Pushes : p \in Int
  <2>1. SP!TypeInv
    BY DEF Linked
  <2>2. cur_seq \in Nat /\ cur_seq' \in Nat
    BY <2>1, NextCounters, ServerFields
  <2>3. cur_seq <= cur_seq'
    BY <2>2, SessionsStep, SecondStep
  <2>4. QED BY <2>2, <2>3, CompositionAssumption
<1>2. \A p \in Pushes : p <= cur_seq => p <= cur_seq'
  BY <1>1
<1>3. ASSUME NEW p \in Pushes, ~(p <= cur_seq') PROVE notified'[p] = 0
  <2>1. ~(p <= cur_seq)
    BY <1>1, <1>3
  <2>2. ~Holds(ioq, Reading(Push(p)))
    BY <2>1 DEF Published
  <2>3. QED BY <2>1, <2>2, CalledBackOnce DEF Published
<1>7. ASSUME NEW s \in DOMAIN sessions', NEW p \in DOMAIN sessions'[s].write_packets
      PROVE  p <= cur_seq'
  <2>1. CASE BothSecond
    <3>1. s \in DOMAIN sessions /\ p \in DOMAIN sessions[s].write_packets
      BY <1>7, <2>1, SecondSessions, SecondStep DEF Linked
    <3>2. p <= cur_seq /\ cur_seq' = cur_seq
      BY <2>1, <3>1, SecondStep DEF Published
    <3>3. QED BY <3>2
  <2>2. CASE ~BothSecond /\ s \in DOMAIN sessions /\ SessionMoves(s)
    <3>1. CASE p \in DOMAIN sessions[s].write_packets
      <4>1. p \in Pushes /\ p <= cur_seq
        BY <2>2, <3>1, SessionFacts DEF Linked, Published
      <4>2. QED BY <1>2, <4>1
    <3>2. CASE Pushed(s, p) /\ p \notin DOMAIN sessions[s].write_packets
      <4>1. p = cur_seq'
        BY <3>2 DEF Pushed
      <4>2. QED BY <1>1, <4>1
    <3>3. QED BY <1>7, <2>2, <3>1, <3>2 DEF SessionMoves
  <2>3. CASE ~BothSecond /\ sessions'[s].write_packets = [q \in {} |-> {}]
    BY <1>7, <2>3
  <2>4. QED BY <1>7, <2>1, <2>2, <2>3, SessionsStep
<1>4. ASSUME NEW s \in S!Sessions, NEW p \in Pushes, Holds(conn'[s].to_client, S!Push(p))
      PROVE  p <= cur_seq'
  <2>1. CASE Holds(conn[s].to_client, S!Push(p))
    BY <1>2, <2>1 DEF Published
  <2>2. \A i : S!Push(p) # S!Response(i)
    BY DEF S!Push, S!Response
  <2>3. ASSUME NEW q \in Pushes, S!Push(p) = S!Push(q), Pushed(s, q)
        PROVE  p <= cur_seq'
    <3>1. p = q
      BY <2>3 DEF S!Push
    <3>2. s \in DOMAIN sessions' /\ p \in DOMAIN sessions'[s].write_packets
      BY <2>3, <3>1 DEF Pushed
    <3>3. QED BY <1>7, <3>2
  <2>4. QED BY <1>4, <2>1, <2>2, <2>3, ChannelsStep
<1>5. ASSUME NEW p \in Pushes, Holds(ioq', Reading(Push(p))) PROVE p <= cur_seq'
  <2>1. Push(p) = S!Push(p)
    BY DEF Push, S!Push
  <2>2. p <= cur_seq
    BY <1>5, <2>1, InboxStep DEF Published
  <2>3. QED BY <1>2, <2>2
<1>6. QED BY <1>3, <1>4, <1>5, <1>7 DEF Published

\* A handler calls back requests that are pending.
LEMMA HandlerCalls ==
  ASSUME TypeInv, Accounted, RunHandler
  PROVE  /\ cur_send_id' = cur_send_id
         /\ \A i \in Requests :
              \/ called'[i] = called[i]
              \/ called[i] = 0 /\ called'[i] = 1 /\ i <= cur_send_id
<1>1. cur_send_id' = cur_send_id
  BY DEF RunHandler, RunStart, RunStop, RunSend, RunCancel,
     RunSubscription, RunTimerStart, RunTimerStop, RunTimer, RunConnect,
     RunReadResponse, RunReadPush, RunReadError, RunWriteError, clientVars
<1>2. CASE RunSend
  BY <1>1, <1>2 DEF RunSend, historyVars
<1>3. CASE ~RunSend
  <2>1. PICK ids : Settles(ids)
    BY <1>3, HandlersSettle
  <2>2. ASSUME NEW i \in Requests, called'[i] # called[i]
        PROVE  called[i] = 0 /\ called'[i] = 1 /\ i <= cur_send_id
    <3>1. called' = CalledFor(ids) /\ ids \subseteq DOMAIN write_packets
      BY <2>1, <2>2 DEF Settles
    <3>2. i \in DOMAIN write_packets /\ called'[i] = called[i] + 1
      BY <2>2, <3>1 DEF CalledFor
    <3>3. i <= cur_send_id /\ called[i] = 0
      BY <3>2 DEF Accounted, Placed, NotYet
    <3>4. QED BY <3>2, <3>3
  <2>3. QED BY <1>1, <2>2
<1>4. QED BY <1>2, <1>3

LEMMA NextOutcomes ==
  ASSUME Linked, Accounted, Outcomes, [TcpNext]_tcpVars
  PROVE  Outcomes'
<1>1. TypeInv /\ cur_send_id \in Nat /\ \A i \in Requests : i \in Int
  BY Numbers DEF Linked, TypeInv, FieldsOK, Requests
<1>2. CASE UNCHANGED <<outcome, called, cur_send_id>>
  BY <1>2 DEF Outcomes
<1>3. CASE SendRequest
  <2>1. /\ \E t \in Threads, opt \in SendOpts : SendReqAsync(t, opt)
        /\ outcome' = [outcome EXCEPT ![cur_send_id'] = "pending"]
    BY <1>3 DEF SendRequest
  <2>2. cur_send_id' = cur_send_id + 1 /\ cur_send_id' \in Requests /\ called' = called
    BY <1>1, <2>1, SendTypes DEF SendReqAsync, historyVars
  <2>3. ~(cur_send_id' <= cur_send_id)
    BY <1>1, <2>2
  <2>4. called[cur_send_id'] = 0
    BY <2>2, <2>3 DEF Accounted, NotYet
  <2>5. /\ outcome' \in [Requests -> {"unsent", "pending", "answered", "failed"}]
        /\ outcome'[cur_send_id'] = "pending"
        /\ \A i \in Requests : i # cur_send_id' => outcome'[i] = outcome[i]
    BY <2>1, <2>2 DEF Outcomes
  <2>6. \A i \in Requests : i # cur_send_id' => (i <= cur_send_id' <=> i <= cur_send_id)
    BY <1>1, <2>2
  <2>7. ASSUME NEW i \in Requests
        PROVE  /\ ~(i <= cur_send_id') <=> outcome'[i] = "unsent"
               /\ i <= cur_send_id' /\ called'[i] = 0 <=> outcome'[i] = "pending"
    <3>1. CASE i = cur_send_id'
      <4>1. i <= cur_send_id'
        BY <1>1, <3>1
      <4>2. QED BY <2>2, <2>4, <2>5, <3>1, <4>1
    <3>2. CASE i # cur_send_id'
      BY <2>2, <2>5, <2>6, <3>2 DEF Outcomes
    <3>3. QED BY <3>1, <3>2
  <2>8. QED BY <2>5, <2>7 DEF Outcomes
<1>4. CASE ClientHandler
  <2>1. /\ RunHandler
        /\ outcome' = [i \in Requests |->
                         IF called'[i] = called[i] THEN outcome[i]
                         ELSE IF Runs("timer") THEN "failed" ELSE "answered"]
    BY <1>4 DEF ClientHandler
  <2>2. /\ cur_send_id' = cur_send_id
        /\ \A i \in Requests :
             \/ called'[i] = called[i]
             \/ called[i] = 0 /\ called'[i] = 1 /\ i <= cur_send_id
    BY <1>1, <2>1, HandlerCalls
  <2>3. outcome' \in [Requests -> {"unsent", "pending", "answered", "failed"}]
    BY <2>1 DEF Outcomes
  <2>4. ASSUME NEW i \in Requests
        PROVE  /\ ~(i <= cur_send_id') <=> outcome'[i] = "unsent"
               /\ i <= cur_send_id' /\ called'[i] = 0 <=> outcome'[i] = "pending"
    <3>1. CASE called'[i] = called[i]
      BY <2>1, <2>2, <3>1 DEF Outcomes
    <3>2. CASE called'[i] # called[i]
      <4>1. outcome'[i] \in {"failed", "answered"}
        BY <2>1, <3>2
      <4>2. QED BY <2>2, <3>2, <4>1
    <3>3. QED BY <3>1, <3>2
  <2>5. QED BY <2>3, <2>4 DEF Outcomes
<1>5. CASE ServerAlone
  BY <1>2, <1>5, ServerAloneMoves
     DEF ServerMoves, Linked, vars, clientVars, historyVars
<1>6. CASE StartClient \/ Subscribe
  BY <1>2, <1>6
     DEF StartClient, Subscribe, CallStart, SubscribeNotification, clientVars,
     historyVars, resultVars
<1>7. CASE ClientNetwork \/ PacketArrives \/ Connected
  BY <1>2, <1>7
     DEF ClientNetwork, ConnectFails, ClientNotices, ClientReadFails,
     PacketArrives, Connected, ConnectDone, LinkBreaks, ReadFails, ReadReady,
     clientVars, historyVars, resultVars
<1>8. CASE BothSecond
  BY <1>2, <1>8, SecondStep DEF Second
<1>9. CASE UNCHANGED tcpVars
  BY <1>2, <1>9 DEF tcpVars, vars, clientVars, historyVars, resultVars
<1>10. QED BY <1>3, <1>4, <1>5, <1>6, <1>7, <1>8, <1>9, Kinds DEF Calls

-----------------------------------------------------------------------------
(* What a step that takes no time does to the attempts.                    *)

\* Checks that are queued stay so until they run.
TickStays == TickQueued => TickQueued'

LEMMA TickWaitsOn ==
  ASSUME TypeInv, RunHandler, ~Runs("timer") PROVE TickStays
<1>1. Consuming /\ ioq # <<>>
  BY HandlerTypes DEF Consuming, Consumes
<1>2. Head(ioq).op \notin {"timer"}
  BY <1>1 DEF Runs
<1>3. QED BY <1>1, <1>2, HandlerWaits DEF TickStays, TickQueued

LEMMA OtherTicks ==
  ASSUME Linked, OtherSteps PROVE TickStays
<1>1. TypeInv
  BY DEF Linked
<1>2. CASE UNCHANGED ioq
  BY <1>2 DEF TickStays, TickQueued, Waits
<1>3. ASSUME NEW h, Posting(h) PROVE TickStays
  BY <1>1, <1>3, PostingWaits DEF TickStays, TickQueued
<1>4. QED BY <1>2, <1>3, OtherQueues

\* A request in write_packets_ is kept, or is new, or a check sends it again.
RequestKept(i) ==
    /\ i \in DOMAIN write_packets /\ write_packets'[i] = write_packets[i]
    /\ TickStays \/ write_packets[i].since < write_packets[i].opt.interval_seconds

RequestNew(i) ==
    /\ Sending(i) /\ write_packets'[i] \in Packets
    /\ write_packets'[i].cur_tries = 1 /\ write_packets'[i].since = 0

RequestAgain(i) ==
    /\ TickQueued /\ i \in DOMAIN write_packets
    /\ LET old == write_packets[i]
           new == write_packets'[i]
       IN
       /\ old.since >= old.opt.interval_seconds /\ old.cur_tries < old.opt.tries
       /\ new.opt = old.opt /\ new.since = 0 /\ new.cur_tries = old.cur_tries + 1

LEMMA RequestsNext ==
  ASSUME Linked, ClientInv, [TcpNext]_tcpVars, ~BothSecond,
         NEW i \in DOMAIN write_packets'
  PROVE  RequestKept(i) \/ RequestNew(i) \/ RequestAgain(i)
<1>1. TypeInv /\ NoStops /\ Ticking
  BY DEF Linked, ClientInv
<1>2. ASSUME TickStays,
             \A j \in DOMAIN write_packets' :
               j \in DOMAIN write_packets /\ write_packets'[j] = write_packets[j]
      PROVE  RequestKept(i)
  BY <1>2 DEF RequestKept
<1>3. CASE OtherSteps
  BY <1>2, <1>3, OtherQueues, OtherTicks
<1>4. CASE RunSend
  <2> DEFINE h == Head(ioq)
             new == [opt |-> h.opt, cur_tries |-> 1, since |-> 0]
  <2>1. /\ write_packets' = [j \in DOMAIN write_packets \union {h.id} |->
                               IF j = h.id THEN new ELSE write_packets[j]]
        /\ Runs("send") /\ RunHandler
    BY <1>4 DEF RunSend, RunHandler
  <2>2. h \in Handlers /\ h.op = "send" /\ h = ioq[1] /\ 1 \in 1..Len(ioq)
    BY <1>1, <2>1, NextHandler DEF TypeInv
  <2>3. h.opt \in SendOpts /\ Attempts(h.opt) \in Nat \ {0}
    BY <2>2, HandlerParts, OptParts
  <2>4. TickStays
    BY <1>1, <2>1, TickWaitsOn DEF Runs
  <2>5. CASE i = h.id
    <3>1. Sending(i)
      BY <2>2, <2>5 DEF Sending, Queued
    <3>2. write_packets'[i] = new
      BY <2>1, <2>5
    <3>3. new \in Packets
      BY <2>3 DEF Packets
    <3>4. new.cur_tries = 1 /\ new.since = 0
      OBVIOUS
    <3>5. QED BY <3>1, <3>2, <3>3, <3>4 DEF RequestNew
  <2>6. CASE i # h.id
    <3>1. i \in DOMAIN write_packets /\ write_packets'[i] = write_packets[i]
      BY <2>1, <2>6
    <3>2. QED BY <2>4, <3>1 DEF RequestKept
  <2>7. QED BY <2>5, <2>6
<1>5. CASE RunTimer
  <2>1. Runs("timer") /\ Head(ioq) = ioq[1] /\ 1 \in 1..Len(ioq) /\ ioq[1].op = "timer"
    BY <1>1, <1>5, NextHandler DEF RunTimer, TypeInv
  <2>2. Head(ioq).timer \in DOMAIN timers /\ TickQueued
    BY <1>1, <2>1 DEF Ticking, TickQueued, Waits
  <2>3. write_packets' = [j \in DOMAIN write_packets \ Exhausted |->
                            IF j \in Due THEN Retried(j) ELSE write_packets[j]]
    BY <1>5, <2>2 DEF RunTimer
  <2>4. i \in DOMAIN write_packets /\ i \notin Exhausted
    BY <2>3
  <2> DEFINE w == write_packets[i]
  <2>5. /\ w \in [opt : SendOpts, cur_tries : Nat, since : Nat]
        /\ w.cur_tries \in Nat /\ w.since \in Nat
        /\ w.opt.interval_seconds \in Nat /\ w.opt.tries \in Nat
    BY <1>1, <2>4, PendingPackets, OptParts DEF Packets
  <2>6. CASE i \in Due
    <3>1. write_packets'[i] = [w EXCEPT !.cur_tries = w.cur_tries + 1, !.since = 0]
      BY <2>3, <2>4, <2>6 DEF Retried
    <3>2. w.since >= w.opt.interval_seconds /\ w.cur_tries < w.opt.tries
      BY <2>4, <2>5, <2>6 DEF Due, Exhausted
    <3>3. w.cur_tries + 1 \in Nat
      BY <2>5
    <3> HIDE DEF w
    <3>4. /\ write_packets'[i].opt = w.opt /\ write_packets'[i].since = 0
          /\ write_packets'[i].cur_tries = w.cur_tries + 1
      BY <2>5, <3>1, <3>3, OneMoreTry
    <3>5. QED BY <2>2, <2>4, <3>2, <3>4 DEF RequestAgain, w
  <2>7. CASE i \notin Due
    <3>1. write_packets'[i] = w /\ w.since < w.opt.interval_seconds
      BY <2>3, <2>4, <2>5, <2>7 DEF Due
    <3>2. QED BY <2>4, <3>1 DEF RequestKept
  <2>8. QED BY <2>6, <2>7
<1>6. CASE RunHandler /\ ~RunSend /\ ~RunTimer
  <2>1. ~Runs("timer")
    BY <1>6
       DEF RunHandler, RunStart, RunStop, RunCancel, RunSubscription,
       RunTimerStart, RunTimerStop, RunConnect, RunReadResponse,
       RunReadPush, RunReadError, RunWriteError, Runs
  <2>2. TickStays
    BY <1>1, <1>6, <2>1, TickWaitsOn
  <2>3. \/ write_packets' = write_packets
        \/ \E ids : write_packets' = Without(ids)
    BY <1>6
       DEF RunHandler, RunStart, RunStop, RunCancel, RunSubscription,
       RunTimerStart, RunTimerStop, RunConnect, RunReadResponse,
       RunReadPush, RunReadError, RunWriteError, clientVars
  <2>4. QED BY <1>2, <2>2, <2>3 DEF Without
<1>7. QED BY <1>3, <1>4, <1>5, <1>6, StepKinds DEF ClientHandler

\* Of requests that sessions processed, and of copies under way.
LEMMA AgesNext ==
  ASSUME Linked, Once, CopiesInTime, FreshSessions, [TcpNext]_tcpVars, ~BothSecond,
         NEW s \in DOMAIN sessions', NEW i \in Requests, processed'[s][i] = 1
  PROVE  \/ Age(s, i)' = 0
         \/ s \in DOMAIN sessions /\ processed[s][i] = 1 /\ Age(s, i)' = Age(s, i)
<1>1. SP!TypeInv
  BY DEF Linked
<1>2. CASE s \in DOMAIN sessions /\ SessionMoves(s)
  <2>1. Age(s, i)' \in {Age(s, i), 0}
    BY <1>2 DEF SessionMoves, Age
  <2>2. s \in S!Sessions
    BY <1>1, <1>2, SessionFacts
  <2>3. QED BY <1>2, <2>1, <2>2, ProcessedOnce
<1>3. CASE s > cur_session_id /\ s \in S!Sessions /\ UNCHANGED processed
  BY <1>3 DEF FreshSessions
<1>4. QED BY <1>2, <1>3, SessionsStep

\* While a request is pending, each second brings a tick.
LEMMA PendingTicks ==
  ASSUME TypeInv, ClientInv, Second, DOMAIN write_packets # {} PROVE TickQueued'
<1>1. started /\ DOMAIN timers # {}
  BY DEF ClientInv, NotStarted, Starting
<1>2. PICK t \in DOMAIN timers : TRUE
  BY <1>1
<1>3. CASE timers[t] = "armed"
  BY <1>3, SecondTicks DEF TickQueued, Waits
<1>4. CASE timers[t] = "expired"
  <2>1. PICK n \in 1..Len(ioq) : ioq[n].op = "timer"
    BY <1>4 DEF ClientInv, Ticking, TickWaitsOf
  <2>2. n \in 1..Len(ioq') /\ ioq'[n].op = "timer"
    BY <2>1, SecondTicks DEF Behind
  <2>3. QED BY <2>2 DEF TickQueued, Waits
<1>5. QED BY <1>3, <1>4 DEF TypeInv, TimersOK

\* What a request in write_packets_ is, and what a second makes of it.
LEMMA PacketNumbers ==
  ASSUME TypeInv, NEW i \in DOMAIN write_packets
  PROVE  LET w == write_packets[i] IN
         /\ i \in Requests /\ w \in Packets /\ w.opt \in SendOpts
         /\ w.opt.interval_seconds \in Nat /\ w.opt.tries \in Nat
         /\ w.since \in Nat /\ w.cur_tries \in Nat \ {0}
         /\ w.cur_tries <= Attempts(w.opt) /\ Attempts(w.opt) \in Nat \ {0}
         /\ w.cur_tries < w.opt.tries => w.cur_tries <= Attempts(w.opt) - 1
<1> DEFINE w == write_packets[i]
<1>1. /\ i \in Requests /\ w \in Packets
      /\ w \in [opt : SendOpts, cur_tries : Nat, since : Nat]
      /\ w.cur_tries \in 1..Attempts(w.opt)
  BY PendingPackets DEF Packets
<1> HIDE DEF w
<1>2. w.opt \in SendOpts /\ w.since \in Nat
  BY <1>1
<1>3. /\ w.opt.interval_seconds \in Nat /\ w.opt.tries \in Nat
      /\ Attempts(w.opt) \in Nat \ {0}
  BY <1>2, OptParts
<1>4. w.cur_tries \in Nat \ {0} /\ w.cur_tries <= Attempts(w.opt)
  BY <1>1, <1>3
<1>5. w.cur_tries < w.opt.tries => w.cur_tries <= Attempts(w.opt) - 1
  BY <1>3, <1>4 DEF Attempts
<1>6. QED BY <1>1, <1>2, <1>3, <1>4, <1>5 DEF w

LEMMA SecondPackets ==
  ASSUME TypeInv, Second
  PROVE  /\ DOMAIN write_packets' = DOMAIN write_packets
         /\ \A i \in DOMAIN write_packets :
              /\ write_packets'[i].opt = write_packets[i].opt
              /\ write_packets'[i].cur_tries = write_packets[i].cur_tries
              /\ write_packets'[i].since =
                   Capped(write_packets[i].since, write_packets[i].opt.interval_seconds)
<1>1. /\ DOMAIN write_packets' = DOMAIN write_packets
      /\ \A i \in DOMAIN write_packets' :
           write_packets'[i] =
             [write_packets[i] EXCEPT
                !.since = Capped(@, write_packets[i].opt.interval_seconds)]
  BY DEF Second
<1>2. ASSUME NEW i \in DOMAIN write_packets
      PROVE  /\ write_packets'[i].opt = write_packets[i].opt
             /\ write_packets'[i].cur_tries = write_packets[i].cur_tries
             /\ write_packets'[i].since =
                  Capped(write_packets[i].since, write_packets[i].opt.interval_seconds)
  <2> DEFINE w == write_packets[i]
  <2>1. w \in [opt : SendOpts, cur_tries : Nat, since : Nat]
    BY PendingPackets DEF Packets
  <2>2. write_packets'[i] = [w EXCEPT !.since = Capped(w.since, w.opt.interval_seconds)]
    BY <1>1
  <2> HIDE DEF w
  <2>3. /\ write_packets'[i].opt = w.opt /\ write_packets'[i].cur_tries = w.cur_tries
        /\ write_packets'[i].since = Capped(w.since, w.opt.interval_seconds)
    BY <2>1, <2>2
  <2>4. QED BY <2>3 DEF w
<1>3. QED BY <1>1, <1>2

LEMMA NextChecksRequests ==
  ASSUME Linked, ClientInv, ChecksRequests, [TcpNext]_tcpVars
  PROVE  ChecksRequests'
<1>1. TypeInv
  BY DEF Linked
<1>2. SUFFICES ASSUME NEW i \in DOMAIN write_packets'
               PROVE  LET w == write_packets'[i] IN
                      /\ w.since <= w.opt.interval_seconds
                      /\ w.opt.interval_seconds > 0
                           /\ w.since = w.opt.interval_seconds => TickQueued'
  BY DEF ChecksRequests
<1>3. CASE BothSecond
  <2>1. Second
    BY <1>3 DEF BothSecond
  <2>2. i \in DOMAIN write_packets /\ TickQueued'
    BY <1>1, <2>1, SecondPackets, PendingTicks
  <2>3. /\ write_packets'[i].opt = write_packets[i].opt
        /\ write_packets'[i].since =
             Capped(write_packets[i].since, write_packets[i].opt.interval_seconds)
    BY <1>1, <2>1, <2>2, SecondPackets
  <2>4. write_packets[i].since \in Nat /\ write_packets[i].opt.interval_seconds \in Nat
    BY <1>1, <2>2, PacketNumbers
  <2>5. QED BY <2>2, <2>3, <2>4 DEF Capped
<1>4. CASE ~BothSecond
  <2>1. CASE RequestKept(i)
    <3>1. write_packets[i].since \in Nat /\ write_packets[i].opt.interval_seconds \in Nat
      BY <1>1, <2>1, PacketNumbers DEF RequestKept
    <3>2. QED BY <2>1, <3>1 DEF RequestKept, TickStays, ChecksRequests
  <2>2. CASE RequestNew(i)
    <3>1. write_packets'[i].opt.interval_seconds \in Nat /\ write_packets'[i].since = 0
      BY <2>2, Intervals DEF RequestNew
    <3>2. QED BY <3>1
  <2>3. CASE RequestAgain(i)
    <3>1. /\ write_packets'[i].opt.interval_seconds \in Nat
          /\ write_packets'[i].since = 0
      BY <1>1, <2>3, PacketNumbers DEF RequestAgain
    <3>2. QED BY <3>1
  <2>4. QED BY <1>4, <2>1, <2>2, <2>3, RequestsNext
<1>5. QED BY <1>3, <1>4

-----------------------------------------------------------------------------
(* What is remembered is as old as the attempts allow.                     *)

\* How long ago the last attempt was made, once the timers ticked.
ElapsedThen(since, interval) ==
    IF since >= interval THEN Pace(interval) + delay' ELSE since

LEMMA ElapsedLater ==
  ASSUME Linked, delay' = (IF Waiting THEN delay + 1 ELSE 0),
         NEW interval \in Nat, NEW since \in 0..interval, NEW checking \in BOOLEAN,
         checking => Waiting, interval > 0 /\ since = interval => checking
  PROVE  /\ Elapsed(since, interval, checking) \in Nat
         /\ ElapsedThen(Capped(since, interval), interval) \in Nat
         /\ Elapsed(since, interval, checking) + 1
              <= ElapsedThen(Capped(since, interval), interval)
<1>1. /\ delay \in Nat /\ delay' \in Nat /\ since \in Nat /\ since <= interval
      /\ Pace(interval) \in Nat \ {0} /\ interval <= Pace(interval)
  <2>1. Pace(interval) \in Nat \ {0} /\ interval <= Pace(interval)
    BY Paces
  <2>2. delay \in Nat
    BY CompositionAssumption DEF Linked
  <2>3. delay' \in Nat /\ since \in Nat /\ since <= interval
    BY <2>2
  <2>4. QED BY <2>1, <2>2, <2>3
<1>2. CASE since = interval /\ checking
  <2>1. delay' = delay + 1 /\ Capped(since, interval) = interval
    BY <1>1, <1>2 DEF Capped
  <2>2. QED BY <1>1, <1>2, <2>1 DEF Elapsed, ElapsedThen
<1>3. CASE since = interval /\ ~checking
  <2>1. interval = 0
    BY <1>3
  <2>2. Capped(since, interval) = interval
    BY <1>1, <1>3 DEF Capped
  <2>3. QED BY <1>1, <1>3, <2>1, <2>2 DEF Elapsed, ElapsedThen
<1>4. CASE since < interval
  <2>1. Capped(since, interval) = since + 1
    BY <1>1, <1>4 DEF Capped
  <2>2. QED BY <1>1, <1>4, <2>1 DEF Elapsed, ElapsedThen
<1>5. QED BY <1>1, <1>2, <1>3, <1>4

\* An age in a second.
LEMMA OneOlder ==
  ASSUME NEW ids, NEW ages \in Ages(ids), NEW i \in ids
  PROVE  ages[i] \in Nat /\ Aged(ages)[i] \in Nat /\ Aged(ages)[i] <= ages[i] + 1
<1>1. ages[i] \in 0..Window /\ Window \in Nat /\ DOMAIN ages = ids
  BY Numbers DEF Ages
<1>2. QED BY <1>1 DEF Aged

LEMMA SecondRequestsYoung ==
  ASSUME Linked, ClientInv, ChecksRequests, RequestsYoung, BothSecond
  PROVE  RequestsYoung'
<1>1. TypeInv /\ SP!TypeInv /\ Second /\ S!Second
  BY SecondStep DEF Linked
<1>2. /\ UNCHANGED processed /\ delay' = IF Waiting THEN delay + 1 ELSE 0
      /\ DOMAIN sessions' = DOMAIN sessions
      /\ \A s \in DOMAIN sessions : sessions'[s].rencently_packet_tracker
                                     = Aged(sessions[s].rencently_packet_tracker)
  BY <1>1, SecondStep, SecondSessions
<1>3. SUFFICES ASSUME NEW s \in DOMAIN sessions', NEW i \in DOMAIN write_packets'
               PROVE  RequestYoung(s, i)'
  BY DEF RequestsYoung
<1> DEFINE w == write_packets[i]
           interval == w.opt.interval_seconds
<1>4. /\ s \in DOMAIN sessions /\ i \in DOMAIN write_packets
      /\ write_packets'[i].opt = w.opt /\ write_packets'[i].cur_tries = w.cur_tries
      /\ write_packets'[i].since = Capped(w.since, interval)
  BY <1>1, <1>2, <1>3, SecondPackets
<1>5. /\ i \in Requests /\ interval \in Nat /\ w.since \in Nat
      /\ w.cur_tries - 1 \in Nat /\ w.since <= interval
  BY <1>1, <1>4, PacketNumbers DEF ChecksRequests
<1>6. TickQueued' /\ (TickQueued => Waiting) /\ TickQueued \in BOOLEAN
      /\ (interval > 0 /\ w.since = interval => TickQueued)
  BY <1>1, <1>4, PendingTicks, Busy DEF TickQueued, ChecksRequests, Waits
<1>7. Age(s, i) \in Nat /\ Age(s, i)' \in Nat /\ Age(s, i)' <= Age(s, i) + 1
  <2>1. sessions[s].rencently_packet_tracker \in Ages(Requests)
    BY <1>1, <1>4, SessionFacts
  <2>2. QED BY <1>2, <1>4, <1>5, <2>1, OneOlder DEF Age
<1> DEFINE over == Over(w.cur_tries - 1, interval)
           now == Elapsed(w.since, interval, TickQueued)
           later == ElapsedThen(Capped(w.since, interval), interval)
<1>8. now \in Nat /\ later \in Nat /\ now + 1 <= later
  BY <1>2, <1>5, <1>6, ElapsedLater
<1>9. over \in Nat
  BY <1>5, Paces
<1>10. SUFFICES ASSUME processed[s][i] = 1 PROVE Age(s, i)' <= over + later
  BY <1>2, <1>4, <1>6 DEF RequestYoung, Elapsed, ElapsedThen, Over, Pace
<1>11. Age(s, i) <= over + now
  BY <1>4, <1>10 DEF RequestsYoung, RequestYoung
<1> HIDE DEF over, now, later
<1>12. QED BY <1>7, <1>8, <1>9, <1>11

\* What an attempt adds.
LEMMA OneMoreOver ==
  ASSUME NEW interval \in Nat, NEW tries \in Nat \ {0}
  PROVE  /\ Pace(interval) \in Nat /\ Over(tries - 1, interval) \in Nat
         /\ Over(tries, interval) \in Nat
         /\ Over(tries, interval) = Over(tries - 1, interval) + Pace(interval) + MaxDelay
<1>1. PICK n \in Nat : n = tries - 1 /\ n + 1 = tries
  <2>1. tries - 1 \in Nat /\ (tries - 1) + 1 = tries
    OBVIOUS
  <2>2. QED BY <2>1
<1>2. /\ Pace(interval) \in Nat /\ Over(n, interval) \in Nat
      /\ Over(n + 1, interval) = Over(n, interval) + Pace(interval) + MaxDelay
      /\ MaxDelay \in Nat
  BY Paces
<1>3. Over(n + 1, interval) \in Nat
  BY <1>2
<1>4. QED BY <1>1, <1>2, <1>3

LEMMA SendingRequests == ASSUME TypeInv, NEW i, Sending(i) PROVE i \in Requests
<1>1. PICK n \in 1..Len(ioq) : ioq[n].op = "send" /\ ioq[n].id = i
  BY DEF Sending, Queued
<1>2. ioq[n] \in Handlers
  BY <1>1 DEF TypeInv, QueueOK
<1>3. QED BY <1>1, <1>2, HandlerParts

LEMMA NextRequestsYoung ==
  ASSUME Linked, Linked', ClientInv, Once, Causes, FreshSessions, CopiesInTime,
         ChecksRequests, RequestsYoung, [TcpNext]_tcpVars
  PROVE  RequestsYoung'
<1>1. TypeInv /\ TypeInv' /\ SP!TypeInv
  BY DEF Linked
<1>2. CASE BothSecond
  BY <1>2, SecondRequestsYoung
<1>3. CASE ~BothSecond
  <2> SUFFICES ASSUME NEW s \in DOMAIN sessions', NEW i \in DOMAIN write_packets',
                      processed'[s][i] = 1
               PROVE  RequestYoung(s, i)'
    BY DEF RequestsYoung, RequestYoung
  <2> DEFINE w == write_packets[i]
             v == write_packets'[i]
             age == Age(s, i)
  <2>1. delay \in Nat /\ delay' \in Nat /\ (TickQueued' => delay' = delay)
        /\ MaxDelay \in Nat /\ TickQueued \in BOOLEAN /\ TickQueued' \in BOOLEAN
    <3>1. TickQueued' => Waiting'
      BY <1>1, BusyNext DEF TickQueued
    <3>2. Waiting' => delay' = delay
      BY <1>3, SessionsStep
    <3>3. MaxDelay \in Nat /\ delay \in 0..MaxDelay /\ delay' \in 0..MaxDelay
      BY CompositionAssumption DEF Linked
    <3>4. QED BY <3>1, <3>2, <3>3 DEF TickQueued, Waits
  <2>2. CASE i \in Requests /\ Age(s, i)' = 0
    <3>1. /\ v.opt.interval_seconds \in Nat /\ v.since \in Nat
          /\ v.cur_tries \in Nat \ {0}
      <4>1. CASE RequestKept(i)
        BY <1>1, <4>1, PacketNumbers DEF RequestKept
      <4>2. CASE RequestNew(i)
        BY <4>2, Intervals DEF RequestNew
      <4>3. CASE RequestAgain(i)
        <5>1. w.cur_tries \in Nat \ {0} /\ w.opt.interval_seconds \in Nat
          BY <1>1, <4>3, PacketNumbers DEF RequestAgain
        <5>2. v.since = 0 /\ v.cur_tries = w.cur_tries + 1 /\ v.opt = w.opt
          BY <4>3 DEF RequestAgain
        <5>3. v.cur_tries \in Nat \ {0}
          BY <5>1, <5>2
        <5>4. QED BY <5>1, <5>2, <5>3
      <4>4. QED BY <1>3, <4>1, <4>2, <4>3, RequestsNext
    <3> DEFINE interval == v.opt.interval_seconds
    <3>2. Over(v.cur_tries - 1, interval) \in Nat
      <4>1. v.cur_tries - 1 \in Nat
        BY <3>1
      <4>2. QED BY <3>1, <4>1, Paces
    <3>3. Pace(interval) \in Nat
      BY <3>1, Paces
    <3> HIDE DEF v, interval
    <3>4. 0 <= Over(v.cur_tries - 1, interval)
                 + (IF v.since >= interval /\ TickQueued'
                    THEN Pace(interval) + delay' ELSE v.since)
      BY <2>1, <3>1, <3>2, <3>3 DEF interval
    <3>5. QED
      BY <2>2, <3>4 DEF RequestYoung, Elapsed, Over, Pace, v, interval
  <2>3. CASE i \in Requests /\ s \in DOMAIN sessions /\ processed[s][i] = 1
             /\ Age(s, i)' = age /\ RequestKept(i)
    <3> DEFINE interval == w.opt.interval_seconds
               over == Over(w.cur_tries - 1, interval)
               later == IF w.since >= interval /\ TickQueued'
                        THEN Pace(interval) + delay' ELSE w.since
    <3>1. v = w /\ (TickStays \/ w.since < interval) /\ i \in DOMAIN write_packets
      BY <2>3 DEF RequestKept
    <3>2. /\ interval \in Nat /\ w.since \in Nat /\ w.cur_tries - 1 \in Nat
          /\ w.since <= interval
      BY <1>1, <3>1, PacketNumbers DEF ChecksRequests
    <3>3. Pace(interval) \in Nat /\ interval <= Pace(interval) /\ over \in Nat
      BY <3>2, Paces
    <3>4. age <= over + Elapsed(w.since, interval, TickQueued)
      BY <2>3, <3>1 DEF RequestsYoung, RequestYoung
    <3>5. age \in Nat
      <4>1. sessions[s].rencently_packet_tracker \in Ages(Requests)
        BY <1>1, <2>3, SessionFacts
      <4>2. QED BY <2>3, <4>1, OneOlder DEF Age
    <3> HIDE DEF w, interval, over, age
    <3>6. age <= over + later
      <4>1. CASE w.since >= interval /\ TickQueued
        <5>1. TickQueued' /\ delay' = delay
          BY <2>1, <3>1, <3>2, <4>1 DEF TickStays
        <5>2. age <= over + (Pace(interval) + delay)
          BY <3>4, <4>1 DEF Elapsed
        <5>3. QED BY <4>1, <5>1, <5>2
      <4>2. CASE ~(w.since >= interval /\ TickQueued)
        <5>1. age <= over + w.since
          BY <3>4, <4>2 DEF Elapsed
        <5>2. later \in Nat /\ w.since <= later
          BY <2>1, <3>2, <3>3
        <5> HIDE DEF later
        <5>3. QED BY <3>2, <3>3, <3>5, <5>1, <5>2
      <4>3. QED BY <4>1, <4>2
    <3>7. QED
      BY <2>3, <3>1, <3>6
         DEF RequestYoung, Elapsed, Over, Pace, w, interval, over, age
  <2>4. CASE i \in Requests /\ s \in DOMAIN sessions /\ processed[s][i] = 1
             /\ Age(s, i)' = age /\ RequestAgain(i)
    <3> DEFINE interval == w.opt.interval_seconds
               over == Over(w.cur_tries - 1, interval)
    <3>1. /\ TickQueued /\ i \in DOMAIN write_packets /\ w.since >= interval
          /\ v.opt = w.opt /\ v.since = 0 /\ v.cur_tries = w.cur_tries + 1
      BY <2>4 DEF RequestAgain
    <3>2. /\ interval \in Nat /\ w.since \in Nat
          /\ w.cur_tries \in Nat \ {0} /\ w.since <= interval
      BY <1>1, <3>1, PacketNumbers DEF ChecksRequests
    <3>3. /\ Pace(interval) \in Nat /\ over \in Nat
          /\ Over(w.cur_tries, interval) = over + Pace(interval) + MaxDelay
          /\ Over(w.cur_tries, interval) \in Nat
      BY <3>2, OneMoreOver
    <3>4. v.cur_tries - 1 = w.cur_tries
      BY <3>1, <3>2
    <3>5. age <= over + (Pace(interval) + delay)
      BY <2>4, <3>1 DEF RequestsYoung, RequestYoung, Elapsed
    <3>6. age \in Nat /\ delay <= MaxDelay
      <4>1. sessions[s].rencently_packet_tracker \in Ages(Requests)
        BY <1>1, <2>4, SessionFacts
      <4>2. age \in Nat
        BY <2>4, <4>1, OneOlder DEF Age
      <4>3. QED BY <2>1, <4>2 DEF Linked
    <3> DEFINE now == Over(v.cur_tries - 1, interval)
    <3>7. now = over + Pace(interval) + MaxDelay
      BY <3>3, <3>4
    <3>8. now \in Nat
      BY <3>3, <3>4
    <3> HIDE DEF w, v, interval, over, age, now
    <3>9. age <= now
      BY <2>1, <3>3, <3>5, <3>6, <3>7, <3>8
    <3>10. age <= now + (IF v.since >= interval /\ TickQueued'
                         THEN Pace(interval) + delay' ELSE v.since)
      BY <2>1, <3>1, <3>3, <3>6, <3>8, <3>9
    <3>11. QED
      BY <2>4, <3>1, <3>10
         DEF RequestYoung, Elapsed, Over, Pace, w, v, interval, now, age
  <2>5. CASE i \in Requests /\ s \in DOMAIN sessions /\ processed[s][i] = 1
             /\ RequestNew(i)
    <3>1. s \in S!Sessions
      BY <1>1, <2>5, SessionFacts
    <3>2. QED BY <2>5, <3>1 DEF RequestNew, Causes, WasSent
  <2>6. i \in Requests
    BY <1>1, <1>3, RequestsNext, PacketNumbers, SendingRequests
       DEF RequestKept, RequestNew, RequestAgain
  <2>7. QED
    BY <1>3, <2>2, <2>3, <2>4, <2>5, <2>6, RequestsNext, AgesNext
<1>4. QED BY <1>2, <1>3

\* A request is sent again while those who processed it remember it.
LEMMA SentAgainInTime ==
  ASSUME Linked, ClientInv, Causes, ChecksRequests, RequestsYoung, WindowLongEnough,
         ClientHandler, NEW i \in Requests, Holds(Outgoing, S!Request(i)),
         NEW s \in DOMAIN sessions, processed[s][i] = 1
  PROVE  Age(s, i) + MaxDelay < Window + delay
<1>1. TypeInv /\ SP!TypeInv /\ s \in S!Sessions /\ Requests # {}
  BY SessionFacts DEF Linked
<1>2. ioq # <<>> /\ Requesting(i)
  <2>1. ioq # <<>>
    BY <1>1, HandlerTypes DEF ClientHandler, Consuming, Consumes
  <2>2. QED BY <1>1, <2>1, OutgoingIs
<1>3. Head(ioq) = ioq[1] /\ 1 \in 1..Len(ioq)
  BY <1>1, <1>2, RunsFirst DEF Requesting
<1>4. ~(Runs("send") /\ i = Head(ioq).id)
  <2>1. WasSent(i)
    BY <1>1 DEF Causes
  <2>2. QED BY <1>3, <2>1 DEF WasSent, Sending, Queued, Runs
<1>5. Runs("timer") /\ i \in Due \ Exhausted
  BY <1>2, <1>4 DEF Requesting
<1> DEFINE w == write_packets[i]
           interval == w.opt.interval_seconds
           over == Over(w.cur_tries - 1, interval)
           next == Over(w.cur_tries, interval)
           last == Over(Attempts(w.opt) - 1, interval)
           age == Age(s, i)
<1>6. i \in DOMAIN write_packets /\ w.since >= interval /\ ~(w.cur_tries >= w.opt.tries)
  BY <1>5 DEF Due, Exhausted
<1>7. /\ w.opt \in SendOpts /\ interval \in Nat /\ w.cur_tries \in Nat \ {0}
      /\ w.opt.tries \in Nat /\ Attempts(w.opt) \in Nat \ {0}
      /\ w.cur_tries < w.opt.tries => w.cur_tries <= Attempts(w.opt) - 1
  BY <1>1, <1>6, PacketNumbers
<1>8. w.cur_tries <= Attempts(w.opt) - 1
  BY <1>6, <1>7
<1>9. age <= over + (Pace(interval) + delay)
  <2>1. TickQueued
    BY <1>3, <1>5 DEF TickQueued, Waits, Runs
  <2>2. QED BY <1>6, <2>1 DEF RequestsYoung, RequestYoung, Elapsed
<1>10. /\ Pace(interval) \in Nat /\ over \in Nat /\ next \in Nat
       /\ next = over + Pace(interval) + MaxDelay
  BY <1>7, OneMoreOver
<1>11. last \in Nat /\ next <= last
  <2>1. PICK n \in Nat, m \in Nat : n = w.cur_tries /\ m = Attempts(w.opt) - 1 /\ n <= m
    BY <1>7, <1>8
  <2>2. Over(n, interval) <= Over(m, interval) /\ Over(m, interval) \in Nat
    BY <1>7, <2>1, Paces
  <2>3. QED BY <2>1, <2>2
<1>12. last < Window
  BY <1>7 DEF WindowLongEnough
<1>13. age \in Nat
  <2>1. sessions[s].rencently_packet_tracker \in Ages(Requests)
    BY <1>1, SessionFacts
  <2>2. QED BY <2>1, OneOlder DEF Age
<1>14. delay \in Nat /\ MaxDelay \in Nat /\ Window \in Nat
  BY CompositionAssumption, Numbers DEF Linked
<1> HIDE DEF w, interval, over, next, last, age
<1>15. age + MaxDelay < Window + delay
  BY <1>9, <1>10, <1>11, <1>12, <1>13, <1>14
<1>16. QED BY <1>15 DEF age

LEMMA NextCopiesInTime ==
  ASSUME Linked, Linked', ClientInv, Once, Causes, FreshSessions, CopiesInTime,
         ChecksRequests, RequestsYoung, WindowLongEnough, [TcpNext]_tcpVars
  PROVE  CopiesInTime'
<1>1. /\ TypeInv /\ TypeInv' /\ SP!TypeInv
      /\ MaxDelay \in Nat /\ Window \in Nat /\ MaxDelay < Window
      /\ delay \in Nat /\ delay' \in Nat
  <2>1. MaxDelay \in Nat /\ delay \in 0..MaxDelay /\ delay' \in 0..MaxDelay
    BY CompositionAssumption DEF Linked
  <2>2. QED BY <2>1, Numbers DEF Linked, WindowLongEnough
<1>2. SUFFICES ASSUME NEW s \in DOMAIN sessions', NEW i \in Requests,
                      Arriving(s, S!Request(i))', processed'[s][i] = 1
               PROVE  Age(s, i)' + MaxDelay < Window + delay'
  BY DEF CopiesInTime, S!Request
<1>3. Waiting' /\ sessions'[s].read_pending /\ Holds(conn'[s].to_server, S!Request(i))
  <2>1. Waiting'
    BY <1>1, <1>2, BusyNext
  <2>2. QED BY <1>2, <2>1 DEF Arriving, Holds, S!Request
<1>4. CASE BothSecond
  <2>1. /\ UNCHANGED <<conn, processed>> /\ S!Second
        /\ delay' = IF Waiting THEN delay + 1 ELSE 0
    BY <1>4, SecondStep
  <2>2. /\ s \in DOMAIN sessions
        /\ sessions'[s].rencently_packet_tracker = Aged(sessions[s].rencently_packet_tracker)
        /\ sessions'[s].read_pending = sessions[s].read_pending
    BY <1>1, <1>2, <2>1, SecondSessions
  <2>3. Arriving(s, S!Request(i)) /\ processed[s][i] = 1
    BY <1>2, <1>3, <2>1, <2>2 DEF Arriving
  <2>4. delay' = delay + 1
    BY <1>1, <2>1, <2>3, Busy
  <2>5. Age(s, i) + MaxDelay < Window + delay
    BY <2>2, <2>3 DEF CopiesInTime
  <2>6. Age(s, i) \in Nat /\ Age(s, i)' \in Nat /\ Age(s, i)' <= Age(s, i) + 1
    <3>1. sessions[s].rencently_packet_tracker \in Ages(Requests)
      BY <1>1, <2>2, SessionFacts
    <3>2. QED BY <2>2, <3>1, OneOlder DEF Age
  <2>7. QED BY <1>1, <2>4, <2>5, <2>6
<1>5. CASE ~BothSecond
  <2>1. CASE Age(s, i)' = 0
    <3>1. 0 + MaxDelay < Window + delay'
      <4>1. \A d \in Nat, x \in Nat, y \in Nat : x < y => 0 + x < y + d
        OBVIOUS
      <4>2. QED BY <1>1, <4>1
    <3>2. QED BY <2>1, <3>1 DEF Age
  <2>2. CASE s \in DOMAIN sessions /\ processed[s][i] = 1 /\ Age(s, i)' = Age(s, i)
    <3>1. delay' = delay
      BY <1>3, <1>5, SessionsStep
    <3>2. s \in S!Sessions
      BY <1>1, <2>2, SessionFacts
    <3>3. sessions[s].read_pending
      <4>1. \/ SessionMoves(s)
            \/ conn'[s].to_server = <<>>
        BY <1>5, SessionsStep
      <4>2. CASE SessionMoves(s)
        BY <1>3, <4>2 DEF SessionMoves
      <4>3. CASE conn'[s].to_server = <<>>
        BY <1>3, <4>3, HoldsNone
      <4>4. QED BY <4>1, <4>2, <4>3
    <3>4. Age(s, i) + MaxDelay < Window + delay
      <4>1. CASE Holds(conn[s].to_server, S!Request(i))
        BY <2>2, <3>3, <4>1 DEF CopiesInTime, Arriving
      <4>2. CASE ClientHandler /\ Holds(Outgoing, S!Request(i))
        BY <2>2, <4>2, SentAgainInTime
      <4>3. QED BY <1>3, <3>2, <4>1, <4>2, ChannelsStep
    <3>5. QED BY <2>2, <3>1, <3>4
  <2>3. QED BY <1>2, <1>5, <2>1, <2>2, AgesNext
<1>6. QED BY <1>4, <1>5

LEMMA NextChecksPushes ==
  ASSUME Linked, ChecksPushes, [TcpNext]_tcpVars PROVE ChecksPushes'
<1>1. SP!TypeInv /\ ResendInterval \in Nat
  BY ServerConstants DEF Linked
<1>2. SUFFICES ASSUME NEW s \in DOMAIN sessions',
                      NEW p \in DOMAIN sessions'[s].write_packets,
                      ResendInterval > 0,
                      sessions'[s].write_packets[p].since >= ResendInterval
               PROVE  sessions'[s].check_timer = "due"
  BY DEF ChecksPushes, CheckDue
<1>3. CASE BothSecond
  BY <1>1, <1>2, <1>3, SecondStep, SecondSessions
<1>4. CASE ~BothSecond
  <2>1. ~Pushed(s, p)
    BY <1>1, <1>2 DEF Pushed
  <2>2. s \in DOMAIN sessions /\ SessionMoves(s)
    BY <1>2, <1>4, SessionsStep
  <2>3. /\ p \in DOMAIN sessions[s].write_packets
        /\ sessions'[s].write_packets[p] = sessions[s].write_packets[p]
        /\ sessions'[s].check_timer = sessions[s].check_timer
    BY <1>2, <2>1, <2>2 DEF SessionMoves
  <2>4. QED BY <1>2, <2>2, <2>3 DEF ChecksPushes, CheckDue
<1>5. QED BY <1>3, <1>4

\* What the client remembers of notifications, in a step that takes no time.
LEMMA TrackerNext ==
  ASSUME Linked, ClientInv, [TcpNext]_tcpVars, ~BothSecond, NEW p \in Pushes
  PROVE  rencently_packet_tracker'[p] \in {rencently_packet_tracker[p], 0}
<1>1. TypeInv /\ NoStops /\ rencently_packet_tracker \in [Pushes -> 0..Window]
  BY DEF Linked, ClientInv, TypeInv, PushesOK, Ages
<1>2. CASE OtherSteps
  BY <1>2, OtherQueues
<1>3. CASE RunReadPush
  <2>1. rencently_packet_tracker' = Recorded(rencently_packet_tracker, Head(ioq).packet.id)
    BY <1>3 DEF RunReadPush
  <2>2. QED BY <1>1, <2>1 DEF Recorded
<1>4. CASE RunHandler /\ ~RunReadPush
  <2>1. ~RunStop
    BY <1>1, NeverStops
  <2>2. rencently_packet_tracker' = rencently_packet_tracker
    BY <1>4, <2>1
       DEF RunHandler, RunStart, RunSend, RunCancel, RunSubscription,
       RunTimerStart, RunTimerStop, RunTimer, RunConnect, RunReadResponse,
       RunReadError, RunWriteError, clientVars
  <2>3. QED BY <2>2
<1>5. QED BY <1>2, <1>3, <1>4, StepKinds DEF ClientHandler

\* The same of one that was called back.
LEMMA NotedNext ==
  ASSUME Linked, ClientInv, Once, PushesInTime, [TcpNext]_tcpVars, ~BothSecond,
         NEW p \in Pushes, notified'[p] = 1
  PROVE  \/ rencently_packet_tracker'[p] = 0
         \/ /\ notified[p] = 1
            /\ rencently_packet_tracker'[p] = rencently_packet_tracker[p]
BY TrackerNext, CalledBackOnce

\* What a session has pending.
LEMMA PushNumbers ==
  ASSUME SP!TypeInv, NEW s \in DOMAIN sessions, NEW p \in DOMAIN sessions[s].write_packets
  PROVE  LET info == sessions[s].write_packets[p] IN
         /\ s \in S!Sessions /\ p \in Pushes
         /\ info.cur_tries \in Nat \ {0} /\ info.cur_tries <= ResendTries
         /\ info.since \in 0..ResendInterval /\ info.since \in Nat
         /\ info.since <= ResendInterval
         /\ ResendTries \in Nat \ {0} /\ ResendInterval \in Nat
<1> DEFINE info == sessions[s].write_packets[p]
<1>1. ResendTries \in Nat \ {0} /\ ResendInterval \in Nat
  BY ServerConstants
<1>2. /\ s \in S!Sessions /\ p \in Pushes
      /\ info \in [cur_tries : 1..ResendTries, since : 0..ResendInterval]
  BY SessionFacts
<1> HIDE DEF info
<1>3. info.cur_tries \in 1..ResendTries /\ info.since \in 0..ResendInterval
  BY <1>2
<1>4. /\ info.cur_tries \in Nat \ {0} /\ info.cur_tries <= ResendTries
      /\ info.since \in Nat /\ info.since <= ResendInterval
  BY <1>1, <1>3
<1>5. QED BY <1>1, <1>2, <1>3, <1>4 DEF info

LEMMA PushNumbersNext ==
  (SP!TypeInv => \A s \in DOMAIN sessions : \A p \in DOMAIN sessions[s].write_packets :
     /\ p \in Pushes
     /\ sessions[s].write_packets[p].cur_tries \in Nat \ {0}
     /\ sessions[s].write_packets[p].cur_tries <= ResendTries
     /\ sessions[s].write_packets[p].since \in Nat)'
<1>1. SP!TypeInv => \A s \in DOMAIN sessions : \A p \in DOMAIN sessions[s].write_packets :
        /\ p \in Pushes
        /\ sessions[s].write_packets[p].cur_tries \in Nat \ {0}
        /\ sessions[s].write_packets[p].cur_tries <= ResendTries
        /\ sessions[s].write_packets[p].since \in Nat
  BY PushNumbers
<1>2. QED BY <1>1, PTL

LEMMA SecondPushesYoung ==
  ASSUME Linked, ChecksPushes, PushesYoung, BothSecond PROVE PushesYoung'
<1>1. TypeInv /\ SP!TypeInv /\ Second /\ S!Second
  BY SecondStep DEF Linked
<1>2. /\ UNCHANGED notified /\ delay' = IF Waiting THEN delay + 1 ELSE 0
      /\ DOMAIN sessions' = DOMAIN sessions
      /\ rencently_packet_tracker' = Aged(rencently_packet_tracker)
  BY <1>1, SecondStep, SecondSessions DEF Second
<1>3. SUFFICES ASSUME NEW s \in DOMAIN sessions',
                      NEW p \in DOMAIN sessions'[s].write_packets, notified[p] = 1
               PROVE  PushYoung(s, p)'
  BY <1>2 DEF PushesYoung, PushYoung
<1> DEFINE info == sessions[s].write_packets[p]
           over == Over(info.cur_tries - 1, ResendInterval)
           now == Elapsed(info.since, ResendInterval, CheckDue(s))
           later == ElapsedThen(Capped(info.since, ResendInterval), ResendInterval)
           age == rencently_packet_tracker[p]
<1>4. /\ s \in DOMAIN sessions /\ p \in DOMAIN sessions[s].write_packets
      /\ sessions'[s].write_packets[p].cur_tries = info.cur_tries
      /\ sessions'[s].write_packets[p].since = Capped(info.since, ResendInterval)
      /\ sessions'[s].check_timer = "due"
  BY <1>1, <1>2, <1>3, SecondSessions DEF S!Capped, Capped
<1>5. /\ p \in Pushes /\ ResendInterval \in Nat /\ info.since \in 0..ResendInterval
      /\ info.cur_tries \in Nat \ {0}
  BY <1>1, <1>4, PushNumbers
<1>6. /\ CheckDue(s) => Waiting
      /\ CheckDue(s) \in BOOLEAN
      /\ ResendInterval > 0 /\ info.since = ResendInterval => CheckDue(s)
  <2>1. ResendInterval > 0 /\ info.since = ResendInterval => CheckDue(s)
    BY <1>4, <1>5 DEF ChecksPushes
  <2>2. QED BY <1>1, <1>4, <2>1, Busy DEF CheckDue
<1>7. age \in Nat /\ rencently_packet_tracker'[p] \in Nat
      /\ rencently_packet_tracker'[p] <= age + 1
  <2>1. rencently_packet_tracker \in Ages(Pushes)
    BY <1>1 DEF TypeInv, PushesOK
  <2>2. QED BY <1>2, <1>5, <2>1, OneOlder
<1>8. now \in Nat /\ later \in Nat /\ now + 1 <= later
  BY <1>2, <1>5, <1>6, ElapsedLater
<1>9. over \in Nat
  BY <1>5, OneMoreOver
<1>10. age <= over + now
  BY <1>3, <1>4 DEF PushesYoung, PushYoung
<1> HIDE DEF info, over, now, later, age
<1>11. rencently_packet_tracker'[p] <= over + later
  BY <1>7, <1>8, <1>9, <1>10
<1>12. QED
  BY <1>4, <1>11
     DEF PushYoung, Elapsed, ElapsedThen, CheckDue, Over, Pace, over, later

\* A notification that was called back is sent again while all the attempts
\* before are over.
LEMMA SentTriesBefore ==
  ASSUME Linked, Published, PushesYoung, NEW s, NEW p \in Pushes, Pushed(s, p),
         notified[p] = 1
  PROVE  LET info == sessions'[s].write_packets[p] IN
         /\ rencently_packet_tracker[p] + MaxDelay
              <= Over(info.cur_tries - 1, ResendInterval) + delay
         /\ info.since = 0
<1>1. TypeInv /\ SP!TypeInv /\ cur_seq \in Nat /\ p \in Nat
  BY ServerFields, CompositionAssumption DEF Linked
<1> DEFINE info == sessions'[s].write_packets[p]
           old == sessions[s].write_packets[p]
           age == rencently_packet_tracker[p]
           over == Over(old.cur_tries - 1, ResendInterval)
           next == Over(old.cur_tries, ResendInterval)
<1>2. p <= cur_seq
  BY DEF Published
<1>3. p # cur_seq + 1
  BY <1>1, <1>2
<1>4. /\ s \in DOMAIN sessions /\ p \in DOMAIN sessions[s].write_packets
      /\ info.since = 0 /\ CheckDue(s) /\ old.since >= ResendInterval
      /\ info.cur_tries = old.cur_tries + 1
  BY <1>3 DEF Pushed, CheckDue
<1>5. old.cur_tries \in Nat \ {0} /\ ResendInterval \in Nat
  BY <1>1, <1>4, PushNumbers
<1>6. age <= over + (Pace(ResendInterval) + delay)
  BY <1>4 DEF PushesYoung, PushYoung, Elapsed
<1>7. /\ Pace(ResendInterval) \in Nat /\ over \in Nat /\ next \in Nat
      /\ next = over + Pace(ResendInterval) + MaxDelay
  BY <1>5, OneMoreOver
<1>8. info.cur_tries - 1 = old.cur_tries
  BY <1>4, <1>5
<1>9. age \in Nat /\ delay \in Nat /\ MaxDelay \in Nat
  <2>1. rencently_packet_tracker \in Ages(Pushes)
    BY <1>1 DEF TypeInv, PushesOK
  <2>2. age \in Nat
    BY <2>1, OneOlder
  <2>3. QED BY <2>2, CompositionAssumption DEF Linked
<1> HIDE DEF age, over, next
<1>10. age + MaxDelay <= next + delay
  BY <1>6, <1>7, <1>9
<1>11. QED BY <1>4, <1>8, <1>10 DEF age, next

LEMMA NextPushesYoung ==
  ASSUME Linked, Linked', ClientInv, Once, Published, ChecksPushes, PushesYoung,
         PushesInTime, [TcpNext]_tcpVars
  PROVE  PushesYoung'
<1>1. TypeInv /\ TypeInv' /\ SP!TypeInv /\ SP!TypeInv'
  BY DEF Linked
<1>2. CASE BothSecond
  BY <1>2, SecondPushesYoung
<1>3. CASE ~BothSecond
  <2> SUFFICES ASSUME NEW s \in DOMAIN sessions',
                      NEW p \in DOMAIN sessions'[s].write_packets, notified'[p] = 1
               PROVE  PushYoung(s, p)'
    BY DEF PushesYoung, PushYoung
  <2> DEFINE v == sessions'[s].write_packets[p]
             w == sessions[s].write_packets[p]
             interval == ResendInterval
             now == rencently_packet_tracker'[p]
             age == rencently_packet_tracker[p]
             over == Over(v.cur_tries - 1, interval)
             later == IF v.since >= interval /\ CheckDue(s)'
                      THEN Pace(interval) + delay' ELSE v.since
  <2>1. delay \in Nat /\ delay' \in Nat /\ (CheckDue(s)' => delay' = delay)
        /\ MaxDelay \in Nat /\ delay <= MaxDelay /\ interval \in Nat
    <3>1. CheckDue(s)' => Waiting'
      BY <1>1, BusyNext
    <3>2. Waiting' => delay' = delay
      BY <1>3, SessionsStep
    <3>3. MaxDelay \in Nat /\ delay \in 0..MaxDelay /\ delay' \in 0..MaxDelay
      BY CompositionAssumption DEF Linked
    <3>4. QED BY <3>1, <3>2, <3>3, ServerConstants
  <2>2. s \in DOMAIN sessions /\ SessionMoves(s)
    BY <1>3, SessionsStep
  <2>3. v.cur_tries \in Nat \ {0} /\ v.since \in Nat
    BY <1>1, PushNumbersNext
  <2>4. Pace(interval) \in Nat /\ interval <= Pace(interval) /\ over \in Nat
    BY <2>1, <2>3, OneMoreOver, Paces
  <2>5. p \in Pushes
    BY <1>1, PushNumbersNext
  <2>6. SUFFICES now <= over + later
    BY DEF PushYoung, Elapsed, CheckDue, Over, Pace
  <2>7. CASE now = 0
    <3> HIDE DEF over, now, v, interval
    <3>1. QED BY <2>1, <2>3, <2>4, <2>7
  <2>8. CASE /\ notified[p] = 1 /\ now = age /\ p \in DOMAIN sessions[s].write_packets
             /\ v = w /\ (CheckDue(s) => CheckDue(s)' \/ w.since < interval)
    <3>1. age <= over + Elapsed(v.since, interval, CheckDue(s))
      BY <2>2, <2>8 DEF PushesYoung, PushYoung
    <3>2. v.since <= interval /\ age \in Nat
      <4>1. v.since <= interval
        BY <1>1, <2>2, <2>8, PushNumbers
      <4>2. rencently_packet_tracker \in Ages(Pushes)
        BY <1>1 DEF TypeInv, PushesOK
      <4>3. QED BY <2>5, <4>1, <4>2, OneOlder
    <3>3. CheckDue(s) => CheckDue(s)' \/ v.since < interval
      BY <2>8
    <3> HIDE DEF over, now, age, v, interval
    <3>4. CASE v.since >= interval /\ CheckDue(s)
      <4>1. CheckDue(s)' /\ delay' = delay
        BY <2>1, <2>3, <3>3, <3>4
      <4>2. age <= over + (Pace(interval) + delay)
        BY <3>1, <3>4 DEF Elapsed
      <4>3. QED BY <2>8, <3>4, <4>1, <4>2
    <3>5. CASE ~(v.since >= interval /\ CheckDue(s))
      <4>1. age <= over + v.since
        BY <3>1, <3>5 DEF Elapsed
      <4>2. later \in Nat /\ v.since <= later
        BY <2>1, <2>3, <2>4, <3>2
      <4> HIDE DEF later
      <4>3. QED BY <2>3, <2>4, <2>8, <3>2, <4>1, <4>2
    <3>6. QED BY <3>4, <3>5
  <2>9. CASE /\ notified[p] = 1 /\ now = age /\ Pushed(s, p)
    <3>1. age + MaxDelay <= over + delay /\ v.since = 0
      BY <2>5, <2>9, SentTriesBefore
    <3>2. age \in Nat
      <4>1. rencently_packet_tracker \in Ages(Pushes)
        BY <1>1 DEF TypeInv, PushesOK
      <4>2. QED BY <2>5, <4>1, OneOlder
    <3> HIDE DEF over, now, age, v, interval
    <3>3. age <= over
      BY <2>1, <2>4, <3>1, <3>2
    <3>4. later \in Nat
      BY <2>1, <2>3, <2>4
    <3> HIDE DEF later
    <3>5. QED BY <2>4, <2>9, <3>2, <3>3, <3>4
  <2>10. QED
    <3>1. \/ now = 0 \/ (notified[p] = 1 /\ now = age)
      BY <1>3, <2>5, NotedNext
    <3>2. \/ Pushed(s, p)
          \/ /\ p \in DOMAIN sessions[s].write_packets /\ v = w
             /\ CheckDue(s) => CheckDue(s)' \/ w.since < interval
      <4>1. \/ Pushed(s, p)
            \/ p \in DOMAIN sessions[s].write_packets /\ v = w
        BY <2>2 DEF SessionMoves
      <4>2. CASE sessions'[s].check_timer = sessions[s].check_timer
        BY <4>1, <4>2 DEF CheckDue
      <4>3. CASE v.since >= interval => Pushed(s, p)
        BY <2>1, <2>3, <4>1, <4>3
      <4>4. QED BY <2>2, <4>2, <4>3 DEF SessionMoves
    <3>3. QED BY <2>7, <2>8, <2>9, <3>1, <3>2
<1>4. QED BY <1>2, <1>3

\* The client that looks forward to a packet did so before, or the server
\* just sent it.
LEMMA ComingStep ==
  ASSUME Linked, ClientInv, [TcpNext]_tcpVars, NEW p \in Pushes, Coming(Push(p))'
  PROVE  \/ Coming(Push(p))
         \/ cur_session_id \in S!Sessions /\ Pushed(cur_session_id, p) /\ ~BothSecond
<1>1. TypeInv /\ SP!TypeInv /\ acceptor_open /\ Push(p)' = Push(p)
  BY DEF Linked, Push
<1>2. \/ Holds(ioq', Reading(Push(p)))
      \/ socket' = "up" /\ Holds(conn'[cur_session_id'].to_client, Push(p))
  BY DEF Coming, Holds, Reading, Push
<1>3. CASE Holds(ioq', Reading(Push(p)))
  BY <1>3, InboxStep DEF Coming
<1>4. CASE socket' = "up" /\ Holds(conn'[cur_session_id'].to_client, Push(p))
  <2>1. ASSUME socket = "up", cur_session_id' = cur_session_id
        PROVE  \/ Coming(Push(p))
               \/ /\ cur_session_id \in S!Sessions /\ Pushed(cur_session_id, p)
                  /\ ~BothSecond
    <3>1. cur_session_id \in S!Sessions
      BY <2>1 DEF Linked, CurSession
    <3>2. /\ \A i : Push(p) # S!Response(i)
          /\ \A q \in Pushes : Push(p) = S!Push(q) => p = q
      BY DEF Push, S!Response, S!Push
    <3>3. CASE Holds(conn[cur_session_id].to_client, Push(p))
      BY <2>1, <3>3 DEF Coming
    <3>4. QED BY <1>4, <2>1, <3>1, <3>2, <3>3, ChannelsStep
  <2>2. CASE ServerAlone
    BY <1>1, <1>4, <2>1, <2>2, ServerAloneMoves
       DEF ServerMoves, Linked, vars, netVars
  <2>3. CASE ClientHandler
    BY <1>1, <1>4, <2>1, <2>3, HandlerWire, ClientActs DEF ClientHandler
  <2>4. CASE Calls \/ ClientNetwork \/ PacketArrives \/ UNCHANGED tcpVars
    <3>1. cur_session_id' = cur_session_id
      BY <2>4, ClientActs
    <3>2. socket = "up"
      BY <1>4, <2>4
         DEF Calls, StartClient, Subscribe, SendRequest, CallStart,
         SubscribeNotification, SendReqAsync, ClientNetwork, ConnectFails,
         ClientNotices, ClientReadFails, ConnectDone, LinkBreaks, ReadFails,
         PacketArrives, tcpVars, vars, netVars
    <3>3. QED BY <2>1, <3>1, <3>2
  <2>5. CASE BothSecond
    BY <1>4, <2>1, <2>5, SecondStep
  <2>6. CASE Connected
    <3>1. conn'[cur_session_id'].to_client = <<>>
      BY <1>1, <2>6, ConnectedOpens DEF S!NewConnection, S!NoConnection
    <3>2. QED BY <1>4, <3>1, HoldsNone
  <2>7. QED BY <2>2, <2>3, <2>4, <2>5, <2>6, Kinds
<1>5. QED BY <1>2, <1>3, <1>4

LEMMA NextPushesInTime ==
  ASSUME Linked, Linked', ClientInv, Once, Published, PushesYoung, PushesInTime,
         WindowLongEnough, [TcpNext]_tcpVars
  PROVE  PushesInTime'
<1>1. TypeInv /\ TypeInv' /\ SP!TypeInv /\ SP!TypeInv'
  BY DEF Linked
<1>2. /\ MaxDelay \in Nat /\ Window \in Nat /\ MaxDelay < Window
      /\ delay \in Nat /\ delay' \in Nat
  <2>1. MaxDelay \in Nat /\ delay \in 0..MaxDelay /\ delay' \in 0..MaxDelay
    BY CompositionAssumption DEF Linked
  <2>2. QED BY <2>1, Numbers DEF WindowLongEnough
<1>3. SUFFICES ASSUME NEW p \in Pushes, Coming(Push(p))', notified'[p] = 1
               PROVE  rencently_packet_tracker'[p] + MaxDelay < Window + delay'
  BY DEF PushesInTime, Push
<1> DEFINE age == rencently_packet_tracker[p]
           now == rencently_packet_tracker'[p]
<1>4. age \in Nat
  <2>1. rencently_packet_tracker \in Ages(Pushes)
    BY <1>1 DEF TypeInv, PushesOK
  <2>2. QED BY <2>1, OneOlder
<1>5. CASE BothSecond
  <2>1. /\ UNCHANGED notified /\ delay' = IF Waiting THEN delay + 1 ELSE 0
        /\ rencently_packet_tracker' = Aged(rencently_packet_tracker)
    BY <1>5, SecondStep DEF Second
  <2>2. Coming(Push(p)) /\ notified[p] = 1
    BY <1>3, <1>5, <2>1, ComingStep
  <2>3. delay' = delay + 1
    BY <1>1, <2>1, <2>2, Busy
  <2>4. age + MaxDelay < Window + delay
    BY <2>2 DEF PushesInTime
  <2>5. now \in Nat /\ now <= age + 1
    <3>1. rencently_packet_tracker \in Ages(Pushes)
      BY <1>1 DEF TypeInv, PushesOK
    <3>2. QED BY <2>1, <3>1, OneOlder
  <2> HIDE DEF age, now
  <2>6. now + MaxDelay < Window + delay'
    BY <1>2, <1>4, <2>3, <2>4, <2>5
  <2>7. QED BY <2>6 DEF now
<1>6. CASE ~BothSecond
  <2>1. CASE now = 0
    <3>1. 0 + MaxDelay < Window + delay'
      <4>1. \A d \in Nat, x \in Nat, y \in Nat : x < y => 0 + x < y + d
        OBVIOUS
      <4>2. QED BY <1>2, <4>1
    <3>2. QED BY <2>1, <3>1
  <2>2. CASE notified[p] = 1 /\ now = age
    <3>1. delay' = delay
      BY <1>1, <1>3, <1>6, BusyNext, SessionsStep
    <3>2. CASE Coming(Push(p))
      BY <2>2, <3>1, <3>2 DEF PushesInTime
    <3>3. ASSUME NEW s \in S!Sessions, Pushed(s, p)
          PROVE  age + MaxDelay < Window + delay
      <4> DEFINE info == sessions'[s].write_packets[p]
                 over == Over(info.cur_tries - 1, ResendInterval)
                 last == Over(ResendTries - 1, ResendInterval)
      <4>1. age + MaxDelay <= over + delay
        BY <2>2, <3>3, SentTriesBefore
      <4>2. /\ info.cur_tries \in Nat \ {0} /\ info.cur_tries <= ResendTries
            /\ ResendTries \in Nat \ {0} /\ ResendInterval \in Nat
        BY <1>1, <3>3, PushNumbersNext, ServerConstants DEF Pushed
      <4>3. over \in Nat /\ last \in Nat /\ over <= last
        <5> DEFINE n == info.cur_tries - 1
                   m == ResendTries - 1
        <5>1. n \in Nat /\ m \in Nat /\ n <= m
          BY <4>2
        <5> HIDE DEF n, m
        <5>2. /\ Over(n, ResendInterval) <= Over(m, ResendInterval)
              /\ Over(n, ResendInterval) \in Nat /\ Over(m, ResendInterval) \in Nat
          BY <4>2, <5>1, Paces
        <5>3. QED BY <5>2 DEF n, m
      <4>4. last < Window
        BY DEF WindowLongEnough
      <4> HIDE DEF age, over, last
      <4>5. QED BY <1>2, <1>4, <4>1, <4>3, <4>4
    <3>4. QED BY <1>3, <1>6, <2>2, <3>1, <3>2, <3>3, ComingStep
  <2>3. QED BY <1>3, <1>6, <2>1, <2>2, NotedNext
<1>7. QED BY <1>5, <1>6

-----------------------------------------------------------------------------
(* Every step keeps the service's promises.                                *)

Promises ==
    /\ Accounted /\ Once /\ Outcomes /\ FreshSessions /\ Causes /\ Published
    /\ ChecksRequests /\ RequestsYoung /\ CopiesInTime
    /\ ChecksPushes /\ PushesYoung /\ PushesInTime

ServiceStep == [Service!Next]_(Service!vars)

LEMMA ServiceIdles ==
  ASSUME UNCHANGED <<outcome, processed, notified, cur_seq>> PROVE ServiceStep
<1>1. UNCHANGED (1..cur_seq)
  OBVIOUS
<1>2. UNCHANGED Service!vars
  BY <1>1 DEF Service!vars
<1>3. QED BY <1>2 DEF ServiceStep

LEMMA PublishServes ==
  ASSUME SP!TypeInv, Publish PROVE ServiceStep
<1>1. /\ cur_seq < MaxPushes /\ cur_seq' = cur_seq + 1
      /\ UNCHANGED <<outcome, processed, notified>>
  BY DEF Publish, S!PublishNotification, resultVars
<1>2. cur_seq \in Nat /\ MaxPushes \in Nat /\ Pushes = 1..MaxPushes
  BY ServerFields, CompositionAssumption
<1>3. /\ cur_seq' \in Pushes /\ cur_seq' \notin 1..cur_seq
      /\ 1..cur_seq' = (1..cur_seq) \union {cur_seq'}
  BY <1>1, <1>2
<1>4. Service!Publish(cur_seq')
  BY <1>1, <1>3 DEF Service!Publish
<1>5. QED BY <1>3, <1>4 DEF ServiceStep, Service!Next

LEMMA ProcessingServes ==
  ASSUME Linked, Promises, ServerHandler, [TcpNext]_tcpVars PROVE ServiceStep
<1>1. UNCHANGED <<outcome, notified>>
  BY DEF ServerHandler
<1>2. PICK s \in S!Sessions :
         \/ /\ S!RunReadRequest(s)
            /\ processed' =
                 [processed EXCEPT ![s] = [i \in Requests |->
                    IF Processes(s, i) THEN processed[s][i] + 1
                                       ELSE processed[s][i]]]
         \/ /\ S!RunReadPush(s) \/ S!RunReadError(s) \/ S!RunSessionTimer(s)
            /\ UNCHANGED processed
  BY DEF ServerHandler
<1>3. cur_seq' = cur_seq
  BY <1>2 DEF S!RunReadRequest, S!RunReadPush, S!RunReadError, S!RunSessionTimer
<1>4. Once /\ Causes /\ Outcomes /\ CopiesInTime
  BY DEF Promises
<1>5. processed \in [S!Sessions -> [Requests -> {0, 1}]]
  BY <1>4 DEF Once
<1>6. CASE UNCHANGED processed
  BY <1>1, <1>3, <1>6, ServiceIdles
<1> DEFINE f == [i \in Requests |-> IF Processes(s, i) THEN processed[s][i] + 1
                                                       ELSE processed[s][i]]
<1>7. CASE processed' = [processed EXCEPT ![s] = f] /\ \A i \in Requests : ~Processes(s, i)
  <2>1. f = processed[s]
    BY <1>5, <1>7
  <2> HIDE DEF f
  <2>2. processed' = processed
    BY <1>5, <1>7, <2>1
  <2>3. QED BY <1>6, <2>2
<1>8. ASSUME processed' = [processed EXCEPT ![s] = f], NEW i \in Requests, Processes(s, i)
      PROVE  ServiceStep
  <2>1. \A j \in Requests : Processes(s, j) => j = i
    BY <1>8 DEF Processes, S!Request
  <2>2. f \in [Requests -> Int] /\ processed'[s] = f /\ f[i] = processed[s][i] + 1
    BY <1>5, <1>8
  <2>3. /\ processed[s][i] = 0 /\ processed'[s][i] = 1 /\ Arriving(s, S!Request(i))
    <3>1. processed'[s][i] # processed[s][i]
      BY <1>5, <2>2
    <3>2. QED BY <1>4, <3>1, ProcessedOnce
  <2>4. f = [processed[s] EXCEPT ![i] = 1]
    <3>1. f[i] = 1 /\ \A j \in Requests : j # i => f[j] = processed[s][j]
      BY <2>1, <2>2, <2>3
    <3>2. QED BY <1>5, <2>2, <3>1
  <2> HIDE DEF f
  <2>5. processed' = [processed EXCEPT ![s][i] = 1]
    BY <1>8, <2>4
  <2>6. outcome[i] # "unsent"
    BY <1>4, <2>3 DEF Causes, WasSent, Outcomes, Arriving
  <2>7. Service!Process(s, i)
    BY <1>1, <1>3, <2>3, <2>5, <2>6 DEF Service!Process
  <2>8. QED BY <2>7 DEF ServiceStep, Service!Next
<1>9. QED BY <1>2, <1>6, <1>7, <1>8

LEMMA SendServes ==
  ASSUME Linked, Promises, SendRequest PROVE ServiceStep
<1>1. TypeInv /\ cur_send_id \in Nat
  BY Numbers DEF Linked, TypeInv, FieldsOK
<1>2. /\ \E t \in Threads, opt \in SendOpts : SendReqAsync(t, opt)
      /\ outcome' = [outcome EXCEPT ![cur_send_id'] = "pending"]
      /\ UNCHANGED <<cur_seq, processed, notified>>
  BY DEF SendRequest, srvVars, restVars
<1>3. cur_send_id' = cur_send_id + 1 /\ cur_send_id' \in Requests
  BY <1>1, <1>2, SendTypes
<1>4. ~(cur_send_id' <= cur_send_id)
  BY <1>1, <1>3
<1>5. outcome[cur_send_id'] = "unsent"
  BY <1>3, <1>4 DEF Promises, Outcomes
<1>6. Service!Send(cur_send_id')
  BY <1>2, <1>5 DEF Service!Send
<1>7. QED BY <1>3, <1>6 DEF ServiceStep, Service!Next

\* What a handler of the client tells the application.
LEMMA ResultsServe ==
  ASSUME Linked, Promises, ClientHandler, [TcpNext]_tcpVars,
         RunTimer \/ RunReadResponse
  PROVE  ServiceStep
<1>1. TypeInv /\ Accounted /\ Outcomes /\ Causes
  BY DEF Linked, Promises
<1>2. /\ RunHandler
      /\ outcome' = [i \in Requests |->
                       IF called'[i] = called[i] THEN outcome[i]
                       ELSE IF Runs("timer") THEN "failed" ELSE "answered"]
      /\ notified' = [p \in Pushes |-> IF Notifies(p) THEN notified[p] + 1
                                                      ELSE notified[p]]
      /\ UNCHANGED <<processed, cur_seq>>
  BY DEF ClientHandler, restVars
<1>3. \A p : ~Notifies(p)
  <2>1. ASSUME NEW p, Notifies(p) PROVE FALSE
    <3>1. Runs("read") /\ Head(ioq).packet.kind = "push"
      BY <2>1 DEF Notifies, Push
    <3>2. QED BY <3>1 DEF RunTimer, RunReadResponse, Runs
  <2>2. QED BY <2>1
<1>4. notified' = notified
  BY <1>2, <1>3 DEF Promises, Once
<1>5. \A i \in Requests : called'[i] # called[i] => outcome[i] = "pending"
  <2>1. \A i \in Requests :
          \/ called'[i] = called[i]
          \/ called[i] = 0 /\ called'[i] = 1 /\ i <= cur_send_id
    BY <1>1, <1>2, HandlerCalls
  <2>2. QED BY <1>1, <2>1 DEF Outcomes
<1> DEFINE told == {i \in Requests : called'[i] # called[i]}
<1>6. CASE told = {}
  <2>1. outcome' = outcome
    BY <1>1, <1>2, <1>6 DEF Outcomes
  <2>2. QED BY <1>2, <1>4, <2>1, ServiceIdles
<1>7. CASE told # {} /\ RunTimer
  <2>1. Runs("timer")
    BY <1>7 DEF RunTimer
  <2>2. outcome' = [i \in Requests |-> IF i \in told THEN "failed" ELSE outcome[i]]
    BY <1>2, <2>1
  <2>3. \A i \in told : outcome[i] = "pending"
    BY <1>5
  <2>4. told \in SUBSET Requests
    OBVIOUS
  <2> HIDE DEF told
  <2>5. Service!Fail(told)
    BY <1>2, <1>4, <1>7, <2>2, <2>3 DEF Service!Fail
  <2>6. QED BY <2>4, <2>5 DEF ServiceStep, Service!Next
<1>8. CASE told # {} /\ RunReadResponse
  <2>1. PICK i \in Requests : called'[i] # called[i]
    BY <1>8
  <2> DEFINE h == Head(ioq)
  <2>2. /\ Runs("read") /\ h.packet.kind = "response"
        /\ called' = CalledFor({h.packet.id} \intersect DOMAIN write_packets)
    BY <1>8 DEF RunReadResponse
  <2>3. \A j \in Requests : called'[j] # called[j] => j = h.packet.id
    BY <2>2 DEF CalledFor
  <2>4. \A j \in Requests : called'[j] # called[j] <=> j = i
    BY <2>1, <2>3
  <2>5. ~Runs("timer")
    BY <2>2 DEF Runs
  <2>6. outcome' = [outcome EXCEPT ![i] = "answered"]
    <3>1. outcome' = [j \in Requests |-> IF j = i THEN "answered" ELSE outcome[j]]
      BY <1>2, <2>4, <2>5
    <3>2. QED BY <1>1, <3>1 DEF Outcomes
  <2>7. WasProcessed(i)
    <3>1. /\ ioq # <<>> /\ ioq \in Seq(Handlers) /\ h \in Handlers /\ h.op = "read"
      BY <1>1, <2>2 DEF TypeInv, QueueOK, Runs
    <3>2. h = Reading(Response(i))
      <4>1. h = Reading(h.packet)
        BY <3>1 DEF Handlers, Reading
      <4>2. h.packet = Response(i)
        BY <2>1, <2>2, <2>3, <3>1 DEF Handlers, Response, Push
      <4>3. QED BY <4>1, <4>2
    <3> HIDE DEF h
    <3>3. Holds(ioq, h)
      BY <3>1, HoldsHead DEF h
    <3>4. QED BY <1>1, <3>2, <3>3 DEF Causes
  <2>8. outcome[i] = "pending"
    BY <1>5, <2>1
  <2>9. Service!Answer(i)
    BY <1>2, <1>4, <2>6, <2>7, <2>8 DEF Service!Answer, WasProcessed
  <2>10. QED BY <2>1, <2>9 DEF ServiceStep, Service!Next
<1>9. QED BY <1>6, <1>7, <1>8

LEMMA NotifyingServes ==
  ASSUME Linked, ClientInv, Promises, ClientHandler, [TcpNext]_tcpVars,
         ~RunTimer, ~RunReadResponse
  PROVE  ServiceStep
<1>1. TypeInv /\ NoStops /\ Outcomes /\ Once /\ Published /\ PushesInTime
  BY DEF Linked, Promises, ClientInv
<1>2. /\ RunHandler
      /\ outcome' = [i \in Requests |->
                       IF called'[i] = called[i] THEN outcome[i]
                       ELSE IF Runs("timer") THEN "failed" ELSE "answered"]
      /\ notified' = [p \in Pushes |-> IF Notifies(p) THEN notified[p] + 1
                                                      ELSE notified[p]]
      /\ UNCHANGED <<processed, cur_seq>>
  BY DEF ClientHandler, restVars
<1>3. called' = called
  <2>1. ~RunStop /\ ~RunCancel
    BY <1>1, NeverStops
  <2>2. QED
    BY <1>2, <2>1
       DEF RunHandler, RunStart, RunSend, RunSubscription, RunTimerStart,
       RunTimerStop, RunConnect, RunReadPush, RunReadError, RunWriteError,
       historyVars
<1>4. outcome' = outcome
  BY <1>1, <1>2, <1>3 DEF Outcomes
<1>5. CASE \A p \in Pushes : ~Notifies(p)
  <2>1. notified' = notified
    BY <1>1, <1>2, <1>5 DEF Once
  <2>2. QED BY <1>2, <1>4, <2>1, ServiceIdles
<1>6. ASSUME NEW p \in Pushes, Notifies(p) PROVE ServiceStep
  <2>1. \A q \in Pushes : Notifies(q) => q = p
    BY <1>6 DEF Notifies, Push
  <2>2. /\ notified[p] = 0 /\ notified'[p] = 1 /\ Holds(ioq, Reading(Push(p)))
    <3>1. notified[p] \in {0, 1} /\ notified'[p] = notified[p] + 1
      BY <1>1, <1>2, <1>6 DEF Once
    <3>2. QED BY <1>1, <3>1, CalledBackOnce
  <2>3. notified' = [notified EXCEPT ![p] = 1]
    BY <1>1, <1>2, <2>1, <2>2 DEF Once
  <2>4. p \in 1..cur_seq
    <3>1. p <= cur_seq
      BY <1>1, <2>2 DEF Published
    <3>2. p \in 1..MaxPushes /\ MaxPushes \in Nat /\ cur_seq \in Nat
      BY ServerFields, CompositionAssumption DEF Linked
    <3>3. QED BY <3>1, <3>2
  <2>5. Service!Notify(p)
    BY <1>2, <1>4, <2>2, <2>3, <2>4 DEF Service!Notify
  <2>6. QED BY <2>5 DEF ServiceStep, Service!Next
<1>7. QED BY <1>5, <1>6

LEMMA NextServes ==
  ASSUME Linked, ClientInv, Promises, [TcpNext]_tcpVars PROVE ServiceStep
<1>1. SP!TypeInv /\ cur_seq \in Nat
  BY ServerFields DEF Linked
<1>2. CASE UNCHANGED <<outcome, processed, notified, cur_seq>>
  BY <1>2, ServiceIdles
<1>3. CASE ServerAlone
  <2>1. CASE StartServer \/ RegisterProcessor \/ SendResponse \/ ServerTimer
               \/ ConnectionRequested \/ AcceptCompletes \/ ConnectionBreaks
    BY <1>2, <2>1
       DEF StartServer, S!Start, RegisterProcessor, S!RegisterReqProcessor,
       SendResponse, S!SendRspForReq, ServerTimer, S!RunTimer,
       ConnectionRequested, S!ClientConnects, AcceptCompletes, S!AcceptReady,
       ConnectionBreaks, S!LinkBreaks, S!serverVars, resultVars
  <2>2. QED
    BY <1>1, <1>3, <2>1, PublishServes, ProcessingServes DEF ServerAlone
<1>4. CASE ClientHandler
  BY <1>4, ResultsServe, NotifyingServes
<1>5. CASE SendRequest
  BY <1>5, SendServes
<1>6. CASE StartClient \/ Subscribe \/ ClientNetwork \/ PacketArrives \/ UNCHANGED tcpVars
  BY <1>2, <1>6
     DEF StartClient, Subscribe, ClientNetwork, ConnectFails, ClientNotices,
     ClientReadFails, PacketArrives, srvVars, restVars, resultVars, tcpVars
<1>7. CASE Connected
  BY <1>1, <1>2, <1>7, ConnectedOpens DEF Linked, resultVars
<1>8. CASE BothSecond
  BY <1>2, <1>8, SecondStep
<1>9. QED BY <1>3, <1>4, <1>5, <1>6, <1>7, <1>8, Kinds DEF Calls

LEMMA InitPromises == TcpInit => Promises
<1> SUFFICES ASSUME TcpInit PROVE Promises
  OBVIOUS
<1>1. /\ Init /\ Linked /\ Accounted
      /\ outcome = [i \in Requests |-> "unsent"]
      /\ processed = [s \in S!Sessions |-> [i \in Requests |-> 0]]
      /\ notified = [p \in Pushes |-> 0]
  BY InitLinked, InitAccounted DEF TcpInit
<1>2. /\ cur_send_id = 0 /\ DOMAIN write_packets = {} /\ ioq = <<>>
      /\ socket = "closed"
  BY <1>1 DEF Init
<1>3. /\ DOMAIN sessions = {} /\ taken = {}
      /\ conn = [s \in S!Sessions |-> S!NoConnection]
  BY DEF TcpInit, S!Init
<1>4. \A s \in S!Sessions : conn[s].to_server = <<>> /\ conn[s].to_client = <<>>
  BY <1>3 DEF S!NoConnection
<1>5. Once /\ FreshSessions
  BY <1>1 DEF Once, FreshSessions
<1>6. Outcomes
  <2>1. \A i \in Requests : ~(i <= cur_send_id)
    BY <1>2, Numbers DEF Requests
  <2>2. QED BY <1>1, <2>1 DEF Outcomes
<1>7. Causes /\ Published
  <2>1. \A x : ~Holds(ioq, x)
    BY <1>2, HoldsNone
  <2>2. \A s \in S!Sessions : \A x :
          ~Holds(conn[s].to_server, x) /\ ~Holds(conn[s].to_client, x)
    BY <1>4, HoldsNone
  <2>3. Causes
    BY <1>1, <1>3, <2>1, <2>2 DEF Causes
  <2>4. Published
    BY <1>1, <1>3, <2>1, <2>2 DEF Published
  <2>5. QED BY <2>3, <2>4
<1>8. ChecksRequests /\ ChecksPushes /\ RequestsYoung /\ PushesYoung
  BY <1>2, <1>3 DEF ChecksRequests, ChecksPushes, RequestsYoung, PushesYoung
<1>9. CopiesInTime /\ PushesInTime
  BY <1>1, <1>3 DEF CopiesInTime, PushesInTime
<1>10. QED BY <1>1, <1>5, <1>6, <1>7, <1>8, <1>9 DEF Promises

LEMMA NextPromises ==
  ASSUME WindowLongEnough, Linked, Linked', ClientInv, Promises, [TcpNext]_tcpVars
  PROVE  Promises'
<1>1. /\ TypeInv
      /\ Accounted /\ Once /\ Outcomes /\ FreshSessions /\ Causes /\ Published
      /\ ChecksRequests /\ RequestsYoung /\ CopiesInTime
      /\ ChecksPushes /\ PushesYoung /\ PushesInTime
  BY DEF Linked, Promises
<1>2. Accounted'
  BY <1>1, StepsOfClient, ClientSteps, NextAccounted
<1>3. Once' /\ Outcomes' /\ FreshSessions'
  BY <1>1, NextOnce, NextOutcomes, NextFresh
<1>4. Causes' /\ Published'
  BY <1>1, <1>2, NextCauses, NextPublished
<1>5. ChecksRequests' /\ RequestsYoung' /\ CopiesInTime'
  BY <1>1, NextChecksRequests, NextRequestsYoung, NextCopiesInTime
<1>6. ChecksPushes' /\ PushesYoung' /\ PushesInTime'
  BY <1>1, NextChecksPushes, NextPushesYoung, NextPushesInTime
<1>7. QED BY <1>2, <1>3, <1>4, <1>5, <1>6 DEF Promises

\* The client and the server implement the service: a request is processed
\* once at most on each connection (process_request_packet), called back once,
\* and answered only after it was processed, and a notification is called back
\* once at most (process_push_packet), whatever is resent, delayed or lost,
\* and whenever the connection breaks.  This takes a window in which
\* duplicates are known that outlasts all the attempts and their delays.
THEOREM TcpService ==
  ASSUME WindowLongEnough PROVE TcpSpec => ImplementsService
<1> DEFINE Inv == ClientInv /\ Promises
<1>1. TcpInit => Inv
  BY InitClientInv, InitPromises DEF TcpInit
<1>2. Linked /\ Linked' /\ Inv /\ [TcpNext]_tcpVars => Inv'
  BY StepsOfClient, NextClientInv, NextPromises DEF Linked
<1>3. Linked /\ Inv /\ [TcpNext]_tcpVars => ServiceStep
  BY NextServes
<1>4. TcpInit => Service!Init
  <2>1. TcpInit => cur_seq = 0
    BY DEF TcpInit, S!Init
  <2>2. 1..0 = {}
    OBVIOUS
  <2>3. QED BY <2>1, <2>2 DEF TcpInit, Service!Init
<1> HIDE DEF Inv
<1>5. TcpSpec => Service!Init /\ [][Service!Next]_(Service!vars)
  BY <1>1, <1>2, <1>3, <1>4, AlwaysLinked, PTL DEF TcpSpec, ServiceStep
<1>6. QED BY <1>5 DEF ImplementsService, Service!Spec
=============================================================================
