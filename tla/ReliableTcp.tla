---------------------------- MODULE ReliableTcp ----------------------------
(***************************************************************************)
(* A client and a server that talk to each other: ReliableTcpClient.tla    *)
(* and ReliableTcpServer.tla with the network of each replaced by the      *)
(* other.  The application is that of examples/main.cpp: it starts the     *)
(* server, registers a processor, starts the client, subscribes, and then  *)
(* sends requests, answers them and publishes notifications; it stops      *)
(* neither.  The variables of the server that have the name of one of the  *)
(* client begin with srv_.                                                 *)
(*                                                                         *)
(* The client's connection is the last that the server accepted.  What one *)
(* end writes is read by the other in order, unless the connection breaks, *)
(* which either end notices in its own time.                               *)
(***************************************************************************)
EXTENDS ReliableTcpClient

CONSTANTS
    HeartbeatInterval,   \* max_heartbeat_interval_seconds
    ResendTries,         \* max_resend_tries
    ResendInterval,      \* resend_interval_in_seconds
    MaxSessions,         \* bound: connections accepted
    MaxPushes,           \* bound: notifications published
    MaxChannel,          \* bound: as in ReliableTcpServer.tla
    MaxTraffic,          \* bound: requests and notifications together
    MaxDelay             \* seconds for which packets may be under way, and
                         \* handlers of either end may wait to run

ASSUME CompositionAssumption ==
    /\ HeartbeatInterval \in Nat
    /\ ResendTries \in Nat \ {0} /\ ResendInterval \in Nat
    /\ MaxSessions \in Nat /\ MaxPushes \in Nat /\ MaxChannel \in Nat
    /\ MaxTraffic \in Nat /\ MaxDelay \in Nat
    /\ Pushes = 1..MaxPushes
    /\ Cmds # {}    \* the example subscribes to something

VARIABLES
    srv_started, sessions, cur_session_id, cur_seq, srv_check_timer_id,
    req_2_processor, srv_timers, srv_cur_timer_id,
    acceptor_open, accepting, accepted, backlog, conn, stopping, taken,
    served, srv_repeated, srv_waited, stopped,
    \* Seconds since nothing was under way and no handler was ready.
    delay,
    \* History: results of requests; how often each session processed each
    \* request, and each notification was called back.
    outcome, processed, notified

request == "request"

S == INSTANCE ReliableTcpServer WITH
       Cmds <- {request}, CmdOf <- [i \in Requests |-> request],
       started <- srv_started, check_timer_id <- srv_check_timer_id,
       timers <- srv_timers, cur_timer_id <- srv_cur_timer_id,
       repeated <- srv_repeated, waited <- srv_waited

Service == INSTANCE RequestService WITH
             Notifications <- Pushes, Sessions <- S!Sessions,
             published <- 1..cur_seq

\* The variables of the server but for its connections, and all of them.
restVars == <<srv_started, sessions, cur_session_id, cur_seq,
              srv_check_timer_id, req_2_processor, srv_timers,
              srv_cur_timer_id, acceptor_open, accepting, accepted, backlog,
              stopping, taken, served, srv_repeated, srv_waited, stopped>>
srvVars == <<restVars, conn>>
resultVars == <<outcome, processed, notified>>
tcpVars == <<vars, srvVars, delay, resultVars>>

TcpInit ==
    /\ Init /\ S!Init
    /\ delay = 0
    /\ outcome = [i \in Requests |-> "unsent"]
    /\ processed = [s \in S!Sessions |-> [i \in Requests |-> 0]]
    /\ notified = [p \in Pushes |-> 0]

-----------------------------------------------------------------------------
(* The application.                                                        *)

StartServer ==
    /\ \E t \in Threads : S!Start(t)
    /\ UNCHANGED <<vars, resultVars>>

RegisterProcessor ==
    /\ srv_started /\ req_2_processor = {}
    /\ S!RegisterReqProcessor(request)
    /\ UNCHANGED <<vars, resultVars>>

StartClient ==
    /\ req_2_processor # {}
    /\ \E t \in Threads : CallStart(t)
    /\ UNCHANGED <<srvVars, resultVars>>

Subscribe ==
    /\ started
    /\ \E t \in Threads, cmd \in Cmds \ notifications :
         SubscribeNotification(t, cmd)
    /\ Queued("subscribe") = {}
    /\ UNCHANGED <<srvVars, resultVars>>

SendRequest ==
    /\ notifications = Cmds /\ cur_send_id + cur_seq < MaxTraffic
    /\ \E t \in Threads, opt \in SendOpts : SendReqAsync(t, opt)
    /\ outcome' = [outcome EXCEPT ![cur_send_id'] = "pending"]
    /\ UNCHANGED <<srvVars, processed, notified>>

\* The processor answers before it returns.
SendResponse ==
    /\ \E s \in S!Sessions, i \in Requests : S!SendRspForReq(s, i)
    /\ UNCHANGED <<vars, resultVars>>

Publish ==
    /\ notifications = Cmds /\ cur_send_id + cur_seq < MaxTraffic
    /\ S!PublishNotification
    /\ UNCHANGED <<vars, resultVars>>

Application ==
    \/ StartServer \/ RegisterProcessor \/ StartClient \/ Subscribe
    \/ SendRequest \/ Publish

-----------------------------------------------------------------------------
(* Handlers.                                                               *)

HasSocket(state) == state \in {"up", "down"}

\* The connection, once the client's next handler has run: what that writes
\* is added to it, and when the client closes its socket, or opens it anew,
\* the server will find it broken.
AfterHandler(c) ==
    LET added == IF socket = "up" /\ c.link = "up"
                 THEN [c EXCEPT !.to_server = @ \o Outgoing] ELSE c
    IN  IF HasSocket(socket) /\ ~HasSocket(socket')
        THEN [added EXCEPT !.link = IF @ = "up" THEN "down" ELSE @,
                           !.to_client = <<>>]
        ELSE added

Notifies(p) ==
    /\ Runs("read") /\ Head(ioq).packet = Push(p)
    /\ ~Seen(rencently_packet_tracker, p)
    /\ CmdOf[p] \in notifications

ClientHandler ==
    /\ RunHandler
    /\ conn' = [s \in S!Sessions |-> IF s = cur_session_id
                                     THEN AfterHandler(conn[s]) ELSE conn[s]]
    /\ outcome' = [i \in Requests |->
                     IF called'[i] = called[i] THEN outcome[i]
                     ELSE IF Runs("timer") THEN "failed" ELSE "answered"]
    /\ notified' = [p \in Pushes |-> IF Notifies(p) THEN notified[p] + 1
                                                    ELSE notified[p]]
    /\ UNCHANGED <<restVars, processed>>

Processes(s, i) ==
    /\ Head(conn[s].to_server) = S!Request(i)
    /\ ~Seen(sessions[s].rencently_packet_tracker, i)
    /\ req_2_processor # {}

ServerHandler ==
    /\ \E s \in S!Sessions :
         \/ /\ S!RunReadRequest(s)
            /\ processed' =
                 [processed EXCEPT ![s] = [i \in Requests |->
                    IF Processes(s, i) THEN processed[s][i] + 1
                                       ELSE processed[s][i]]]
         \/ /\ S!RunReadPush(s) \/ S!RunReadError(s) \/ S!RunSessionTimer(s)
            /\ UNCHANGED processed
    /\ UNCHANGED <<vars, outcome, notified>>

ServerTimer ==
    /\ \E t \in 1..MaxTimers : S!RunTimer(t)
    /\ UNCHANGED <<vars, resultVars>>

-----------------------------------------------------------------------------
(* The connection between them.                                            *)

\* The client's attempt reaches the server's host.
ConnectionRequested ==
    /\ socket = "opening" /\ accepted["ok"] = 0
    /\ backlog = 0 /\ S!ClientConnects
    /\ UNCHANGED <<vars, resultVars>>

AcceptCompletes == S!AcceptReady /\ UNCHANGED <<vars, resultVars>>

\* Both ends have the connection.
Connected ==
    /\ ConnectDone(TRUE)
    /\ S!RunAccept("ok")
    /\ UNCHANGED resultVars

ConnectFails ==
    /\ ConnectDone(FALSE)
    /\ UNCHANGED <<srvVars, resultVars>>

ConnectionBreaks ==
    /\ \E s \in S!Sessions : S!LinkBreaks(s)
    /\ UNCHANGED <<vars, resultVars>>

\* The client sees that the connection broke, or that the server closed it.
ClientNotices ==
    /\ LinkBreaks
    /\ conn[cur_session_id].link # "up"
    /\ UNCHANGED <<srvVars, resultVars>>

ClientReadFails == ReadFails /\ UNCHANGED <<srvVars, resultVars>>

\* A packet from the server arrives.
PacketArrives ==
    /\ socket = "up"
    /\ LET channel == conn[cur_session_id].to_client IN
       /\ channel # <<>> /\ ReadReady(Head(channel))
       /\ conn' = [conn EXCEPT ![cur_session_id].to_client = Tail(channel)]
    /\ UNCHANGED <<restVars, resultVars>>

Connection ==
    \/ ConnectionRequested \/ AcceptCompletes \/ Connected \/ ConnectFails
    \/ ConnectionBreaks \/ ClientNotices \/ ClientReadFails \/ PacketArrives

-----------------------------------------------------------------------------
(* Time.                                                                   *)

\* Something is under way, or ready to run.
Waiting ==
    \/ ioq # <<>>
    \/ socket = "up" /\ conn[cur_session_id].to_client # <<>>
    \/ \E s \in DOMAIN sessions :
         \/ sessions[s].check_timer = "due"
         \/ sessions[s].read_pending /\ conn[s].to_server # <<>>
    \/ \E t \in DOMAIN srv_timers : srv_timers[t] = "due"

BothSecond ==
    /\ Waiting => delay < MaxDelay
    /\ Second /\ S!Second
    /\ delay' = IF Waiting THEN delay + 1 ELSE 0
    /\ UNCHANGED resultVars

TcpNext ==
    \/ /\ \/ SendResponse
          \/ /\ taken = {}
             /\ \/ Application \/ ClientHandler \/ ServerHandler
                \/ ServerTimer \/ Connection
       /\ delay' = IF Waiting' THEN delay ELSE 0
    \/ taken = {} /\ BothSecond

TcpSpec == TcpInit /\ [][TcpNext]_tcpVars

-----------------------------------------------------------------------------
(* The client and the server, with whatever their connections do, keep     *)
(* what they promise together.  This needs the attempts of a request, and  *)
(* the resends of a notification, to be over before the window in which    *)
(* duplicates are known, delays included.                                  *)
ImplementsService == Service!Spec

(* The server gives a session up only when it has lost its client: a       *)
(* connected client sends heartbeats often enough to outlive the time-out, *)
(* also when packets are delayed and handlers are late.                    *)
HeartbeatsKeepSession ==
    [][\A s \in DOMAIN sessions \ DOMAIN sessions' :
         conn[s].link # "up" \/ s # cur_session_id \/ socket # "up"]_tcpVars
=============================================================================
