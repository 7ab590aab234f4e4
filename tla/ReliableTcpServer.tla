------------------------- MODULE ReliableTcpServer -------------------------
(***************************************************************************)
(* reliable_tcp_server_t and its sessions (reliable_tcp_server.hpp/.cpp,   *)
(* reliable_tcp_session.hpp/.cpp) on the io_context they share.  The io    *)
(* thread runs one handler at a time, so that a handler is one step; the   *)
(* order in which ready handlers run is left open.  Every call of the API  *)
(* blocks until its handler has run and is the step of that handler,       *)
(* except stop(), which changes started_ before.                           *)
(*                                                                         *)
(* A session is its id, and so is its connection: add_new_session() makes  *)
(* one of each.  Time is in whole seconds and time points are ages, as in  *)
(* ReliableTcpClient.tla.                                                  *)
(***************************************************************************)
EXTENDS DedupWindow, OrderedIds, Sequences

CONSTANTS
    Threads,             \* threads that call start() and stop()
    Requests,            \* the (cmd, seq) of the requests a client may send
    Cmds,                \* request commands
    CmdOf,               \* the command of each request
    HeartbeatInterval,   \* max_heartbeat_interval_seconds
    ResendTries,         \* max_resend_tries
    ResendInterval,      \* resend_interval_in_seconds
    MaxSessions,         \* bound: connections accepted
    MaxPushes,           \* bound: notifications published
    MaxTimers,           \* bound: timers the server starts
    MaxChannel           \* bound: what clients and the API add to a
                         \* connection that holds so many packets

ASSUME ServerAssumption ==
    /\ CmdOf \in [Requests -> Cmds]
    /\ HeartbeatInterval \in Nat
    /\ ResendTries \in Nat \ {0} /\ ResendInterval \in Nat
    /\ MaxSessions \in Nat /\ MaxPushes \in Nat /\ MaxTimers \in Nat
    /\ MaxChannel \in Nat

VARIABLES
    \* Fields of the server; sessions is a function on the ids in sessions_,
    \* each a record of the fields of the session.
    started, sessions, cur_session_id, cur_seq, check_timer_id,
    req_2_processor,
    \* The server's timers, each "armed" or "due", and the last id given.
    timers, cur_timer_id,
    \* The acceptor: open or not, async_accept calls outstanding, and their
    \* completions that are ready to run.
    acceptor_open, accepting, accepted,
    \* Connections that wait to be accepted; and for each id the state of the
    \* link, and the packets under way in both directions.
    backlog, conn,
    \* Threads that are inside stop(); requests the application may answer.
    stopping, taken,
    \* History: the age of the last callback of each request, by session, and
    \* those called back twice in a window; seconds since a notification was
    \* given to a session; whether stop() was ever called.
    served, repeated, waited, stopped

serverVars == <<started, sessions, cur_session_id, cur_seq, check_timer_id,
                req_2_processor>>
timerVars == <<timers, cur_timer_id>>
acceptVars == <<acceptor_open, accepting, accepted, backlog>>
historyVars == <<served, repeated, waited, stopped>>
vars == <<serverVars, timerVars, acceptVars, conn, stopping, taken, historyVars>>

-----------------------------------------------------------------------------
Sessions == 1..MaxSessions
PushIds == 1..MaxPushes
Patience == ResendTries * ResendInterval

Outcomes == {"ok", "failed"}

\* The notifications a session keeps.
Pending(s) == IF s \in DOMAIN sessions THEN DOMAIN sessions[s].write_packets
                                       ELSE {}

Request(r) == [kind |-> "request", id |-> r]
Response(r) == [kind |-> "response", id |-> r]
Push(p) == [kind |-> "push", id |-> p]
Ack(p) == [kind |-> "ack", id |-> p]
Heartbeat == [kind |-> "heartbeat"]

ToServer == [kind : {"request"}, id : Requests]
              \union [kind : {"ack"}, id : PushIds] \union {Heartbeat}
ToClient == [kind : {"response"}, id : Requests]
              \union [kind : {"push"}, id : PushIds]

Capped(n, cap) == IF n < cap THEN n + 1 ELSE cap

NewSession ==
    [ last_recv |-> 0,
      rencently_packet_tracker |-> Forgotten(Requests),
      write_packets |-> [p \in {} |-> {}],
      read_pending |-> TRUE,
      check_timer |-> "armed" ]

NoConnection == [link |-> "closed", to_server |-> <<>>, to_client |-> <<>>]
NewConnection == [NoConnection EXCEPT !.link = "up"]

Init ==
    /\ started = FALSE
    /\ sessions = [s \in {} |-> NewSession]
    /\ cur_session_id = 0
    /\ cur_seq = 0
    /\ check_timer_id = 0
    /\ req_2_processor = {}
    /\ timers = [t \in {} |-> "armed"]
    /\ cur_timer_id = 0
    /\ acceptor_open = TRUE
    /\ accepting = 0
    /\ accepted = [o \in Outcomes |-> 0]
    /\ backlog = 0
    /\ conn = [s \in Sessions |-> NoConnection]
    /\ stopping = {}
    /\ taken = {}
    /\ served = [s \in Sessions |-> Forgotten(Requests)]
    /\ repeated = {}
    /\ waited = [s \in Sessions |-> [p \in PushIds |-> 0]]
    /\ stopped = FALSE

-----------------------------------------------------------------------------
(* Writing to a connection.  What is written to one that broke is lost,    *)
(* and the error is ignored.                                               *)
Written(c, packets) ==
    IF c.link = "up" THEN [c EXCEPT !.to_client = @ \o packets] ELSE c

HasRoom(channel) == Len(channel) < MaxChannel

\* Destroying sessions closes their sockets.
ConnWithout(ids) ==
    [s \in Sessions |-> IF s \in ids THEN NoConnection ELSE conn[s]]

-----------------------------------------------------------------------------
(* The API.                                                                *)

\* async_accept on an acceptor that was closed fails.
DoAccept ==
    IF acceptor_open
    THEN accepting' = accepting + 1 /\ UNCHANGED accepted
    ELSE accepted' = [accepted EXCEPT !["failed"] = @ + 1] /\ UNCHANGED accepting

\* start() of a server that is started returns at once.
Start(t) ==
    /\ t \notin stopping
    /\ ~started /\ cur_timer_id < MaxTimers
    /\ started' = TRUE
    /\ DoAccept
    /\ cur_timer_id' = cur_timer_id + 1
    /\ check_timer_id' = cur_timer_id'
    /\ timers' = [i \in DOMAIN timers \union {cur_timer_id'} |->
                    IF i = cur_timer_id' THEN "armed" ELSE timers[i]]
    /\ UNCHANGED <<sessions, cur_session_id, cur_seq, req_2_processor,
                   acceptor_open, backlog, conn, stopping, taken, historyVars>>

\* stop() clears the flag on the caller's thread...
CallStop(t) ==
    /\ t \notin stopping
    /\ started
    /\ started' = FALSE
    /\ stopping' = stopping \union {t}
    /\ stopped' = TRUE
    /\ UNCHANGED <<sessions, cur_session_id, cur_seq, check_timer_id,
                   req_2_processor, timerVars, acceptVars, conn, taken, served,
                   repeated, waited>>

\* ...and stop_impl does the rest on the io thread.  An expiration of the
\* timer that is still to come would find no session.
StopImpl(t) ==
    /\ t \in stopping
    /\ stopping' = stopping \ {t}
    /\ timers' = [i \in DOMAIN timers \ {check_timer_id} |-> timers[i]]
    /\ check_timer_id' = 0
    /\ acceptor_open' = FALSE
    /\ accepting' = 0
    /\ accepted' = [accepted EXCEPT !["failed"] = @ + accepting]
    /\ backlog' = 0
    /\ sessions' = [s \in {} |-> NewSession]
    /\ conn' = ConnWithout(Sessions)
    /\ req_2_processor' = {}
    /\ UNCHANGED <<started, cur_session_id, cur_seq, cur_timer_id, taken,
                   historyVars>>

RegisterReqProcessor(cmd) ==
    /\ req_2_processor' = req_2_processor \union {cmd}
    /\ UNCHANGED <<started, sessions, cur_session_id, cur_seq, check_timer_id,
                   timerVars, acceptVars, conn, stopping, taken, historyVars>>

UnregisterReqProcessor(cmd) ==
    /\ req_2_processor' = req_2_processor \ {cmd}
    /\ UNCHANGED <<started, sessions, cur_session_id, cur_seq, check_timer_id,
                   timerVars, acceptVars, conn, stopping, taken, historyVars>>

\* A response is written once, to the session that took the request, and is
\* not kept; without the session send_rsp_for_req() returns false.
SendRspForReq(s, r) ==
    /\ <<s, r>> \in taken /\ HasRoom(conn[s].to_client)
    /\ taken' = taken \ {<<s, r>>}
    /\ conn' = IF s \in DOMAIN sessions
               THEN [conn EXCEPT ![s] = Written(@, <<Response(r)>>)]
               ELSE conn
    /\ UNCHANGED <<serverVars, timerVars, acceptVars, stopping, historyVars>>

\* A notification has one seq for all sessions, each of which keeps it until
\* it is acknowledged.
PublishNotification ==
    /\ cur_seq < MaxPushes
    /\ \A s \in DOMAIN sessions : HasRoom(conn[s].to_client)
    /\ cur_seq' = cur_seq + 1
    /\ sessions' =
         [s \in DOMAIN sessions |->
            [sessions[s] EXCEPT !.write_packets =
               [p \in Pending(s) \union {cur_seq'} |->
                  IF p = cur_seq' THEN [cur_tries |-> 1, since |-> 0]
                                  ELSE sessions[s].write_packets[p]]]]
    /\ conn' = [s \in Sessions |-> IF s \in DOMAIN sessions
                                   THEN Written(conn[s], <<Push(cur_seq')>>)
                                   ELSE conn[s]]
    /\ UNCHANGED <<started, cur_session_id, check_timer_id, req_2_processor,
                   timerVars, acceptVars, stopping, taken, historyVars>>

CallAPI ==
    \/ \E t \in Threads : Start(t) \/ CallStop(t) \/ StopImpl(t)
    \/ \E cmd \in Cmds : RegisterReqProcessor(cmd) \/ UnregisterReqProcessor(cmd)
    \/ \E s \in Sessions, r \in Requests : SendRspForReq(s, r)
    \/ PublishNotification

-----------------------------------------------------------------------------
(* Accepting connections.                                                  *)

\* Mutant: the handler does not look at the acceptor.
StillOpenAlways == TRUE

\* Mutant: the handler looks at the flag instead, which a start() has set again.
StillOpenIfStarted == started

\* The handler of async_accept returns if the acceptor was closed since.
StillOpen == acceptor_open

\* Mutant: the loop ends with the first error.
AcceptsAgainIfOk(outcome) == outcome = "ok"

\* After an error it accepts again.
AcceptsAgain(outcome) == outcome \in Outcomes

RunAccept(outcome) ==
    /\ accepted[outcome] > 0
    /\ IF StillOpen /\ outcome = "ok"
       THEN /\ cur_session_id' = cur_session_id + 1
            /\ sessions' = [s \in DOMAIN sessions \union {cur_session_id'} |->
                              IF s = cur_session_id' THEN NewSession
                                                     ELSE sessions[s]]
            /\ conn' = [conn EXCEPT ![cur_session_id'] = NewConnection]
       ELSE UNCHANGED <<cur_session_id, sessions, conn>>
    /\ accepted' = [accepted EXCEPT ![outcome] = @ - 1]
    /\ accepting' = IF StillOpen /\ AcceptsAgain(outcome)
                    THEN accepting + 1 ELSE accepting
    /\ UNCHANGED <<started, cur_seq, check_timer_id, req_2_processor, timerVars,
                   acceptor_open, backlog, stopping, taken, historyVars>>

-----------------------------------------------------------------------------
(* A session reads.  Several packets in one read are the same as one read  *)
(* each.  The next read starts at once.                                    *)

TakesPacket(s, kind) ==
    /\ s \in DOMAIN sessions
    /\ sessions[s].read_pending
    /\ conn[s].to_server # <<>> /\ Head(conn[s].to_server).kind = kind
    /\ conn' = [conn EXCEPT ![s].to_server = Tail(@)]

\* process_request_packet: a duplicate is dropped, and does not count as a
\* sign of life.
RunReadRequest(s) ==
    /\ TakesPacket(s, "request")
    /\ LET r == Head(conn[s].to_server).id
           tracker == sessions[s].rencently_packet_tracker
           duplicate == Seen(tracker, r)
           called == ~duplicate /\ CmdOf[r] \in req_2_processor
       IN
       /\ sessions' =
            [sessions EXCEPT
               ![s].rencently_packet_tracker = Recorded(tracker, r),
               ![s].last_recv = IF duplicate THEN @ ELSE 0]
       /\ taken' = IF called THEN taken \union {<<s, r>>} ELSE taken
       /\ served' = IF called THEN [served EXCEPT ![s][r] = 0] ELSE served
       /\ repeated' = IF called /\ Seen(served[s], r)
                      THEN repeated \union {<<s, r>>} ELSE repeated
    /\ UNCHANGED <<started, cur_session_id, cur_seq, check_timer_id,
                   req_2_processor, timerVars, acceptVars, stopping, waited,
                   stopped>>

\* process_push_packet: an acknowledgement, or a heartbeat, which has the
\* command of no notification.
RunReadPush(s) ==
    /\ \/ /\ TakesPacket(s, "ack")
          /\ LET p == Head(conn[s].to_server).id IN
             sessions' =
               [sessions EXCEPT
                  ![s].write_packets =
                    [q \in Pending(s) \ {p} |-> sessions[s].write_packets[q]],
                  ![s].last_recv = 0]
       \/ /\ TakesPacket(s, "heartbeat")
          /\ sessions' = [sessions EXCEPT ![s].last_recv = 0]
    /\ UNCHANGED <<started, cur_session_id, cur_seq, check_timer_id,
                   req_2_processor, timerVars, acceptVars, stopping, taken,
                   historyVars>>

\* The read of a broken connection fails, and the session reads no more.
RunReadError(s) ==
    /\ s \in DOMAIN sessions
    /\ sessions[s].read_pending /\ conn[s].link = "down"
    /\ sessions' = [sessions EXCEPT ![s].read_pending = FALSE]
    /\ UNCHANGED <<started, cur_session_id, cur_seq, check_timer_id,
                   req_2_processor, timerVars, acceptVars, conn, stopping,
                   taken, historyVars>>

-----------------------------------------------------------------------------
(* Timers.                                                                 *)

Due(s) ==
    { p \in Pending(s) :
        sessions[s].write_packets[p].since >= ResendInterval }

\* Mutant: one attempt too many.
ExhaustedLate(s) ==
    { p \in Due(s) : sessions[s].write_packets[p].cur_tries > ResendTries }

Exhausted(s) ==
    { p \in Due(s) : sessions[s].write_packets[p].cur_tries >= ResendTries }

Resent(s) == Ascending(Due(s) \ Exhausted(s), MaxPushes)

\* Mutant: the time of the last attempt is not kept.
RetriedEarly(info) == [info EXCEPT !.cur_tries = @ + 1]

Retried(info) == [info EXCEPT !.cur_tries = @ + 1, !.since = 0]

\* Mutant: the timer of a session expires once.
SessionTimerDone == "done"

SessionTimerAgain == "armed"

\* on_priodically_timer of a session: do_resender_check.
RunSessionTimer(s) ==
    /\ s \in DOMAIN sessions
    /\ sessions[s].check_timer = "due"
    /\ sessions' =
         [sessions EXCEPT
            ![s].check_timer = SessionTimerAgain,
            ![s].write_packets =
               [p \in Pending(s) \ Exhausted(s) |->
                  IF p \in Due(s) THEN Retried(sessions[s].write_packets[p])
                                  ELSE sessions[s].write_packets[p]]]
    /\ conn' = [conn EXCEPT ![s] = Written(@,
                  [n \in 1..Len(Resent(s)) |-> Push(Resent(s)[n])])]
    /\ UNCHANGED <<started, cur_session_id, cur_seq, check_timer_id,
                   req_2_processor, timerVars, acceptVars, stopping, taken,
                   historyVars>>

\* Mutant: only the sessions that still read are looked at.
SilentReaders ==
    { s \in DOMAIN sessions : /\ sessions[s].last_recv >= HeartbeatInterval
                              /\ sessions[s].read_pending }

\* The sessions the server gives up.
Silent ==
    { s \in DOMAIN sessions : sessions[s].last_recv >= HeartbeatInterval }

\* Mutant: the timer is not armed again.
RearmedNever(t) == [i \in DOMAIN timers \ {t} |-> timers[i]]

Rearmed(t) == [timers EXCEPT ![t] = "armed"]

\* on_priodically_timer of the server.
RunTimer(t) ==
    /\ t \in DOMAIN timers /\ timers[t] = "due"
    /\ timers' = Rearmed(t)
    /\ sessions' = [s \in DOMAIN sessions \ Silent |-> sessions[s]]
    /\ conn' = ConnWithout(Silent)
    /\ UNCHANGED <<started, cur_session_id, cur_seq, check_timer_id,
                   req_2_processor, cur_timer_id, acceptVars, stopping, taken,
                   historyVars>>

Older(info) == [info EXCEPT !.since = Capped(@, ResendInterval)]

\* A second passes.  The io thread may lag behind by any number of them.
Second ==
    /\ timers' = [t \in DOMAIN timers |-> "due"]
    /\ sessions' =
         [s \in DOMAIN sessions |->
            [sessions[s] EXCEPT
               !.last_recv = Capped(@, HeartbeatInterval),
               !.rencently_packet_tracker = Aged(@),
               !.check_timer = IF @ = "armed" THEN "due" ELSE @,
               !.write_packets =
                  [p \in Pending(s) |-> Older(sessions[s].write_packets[p])]]]
    /\ served' = [s \in Sessions |-> Aged(served[s])]
    /\ waited' = [s \in Sessions |-> [p \in PushIds |->
                    IF p \in Pending(s)
                    THEN Capped(waited[s][p], Patience)
                    ELSE waited[s][p]]]
    /\ UNCHANGED <<started, cur_session_id, cur_seq, check_timer_id,
                   req_2_processor, cur_timer_id, acceptVars, conn, stopping,
                   taken, repeated, stopped>>

-----------------------------------------------------------------------------
(* Clients and the network.                                                *)

ClientConnects ==
    /\ acceptor_open
    /\ cur_session_id + backlog + accepted["ok"] < MaxSessions
    /\ backlog' = backlog + 1
    /\ UNCHANGED <<serverVars, timerVars, acceptor_open, accepting, accepted,
                   conn, stopping, taken, historyVars>>

\* An async_accept completes with a connection, or with an error.
AcceptReady ==
    /\ accepting > 0 /\ backlog > 0
    /\ accepting' = accepting - 1
    /\ backlog' = backlog - 1
    /\ accepted' = [accepted EXCEPT !["ok"] = @ + 1]
    /\ UNCHANGED <<serverVars, timerVars, acceptor_open, conn, stopping, taken,
                   historyVars>>

AcceptFails ==
    /\ accepting > 0
    /\ accepting' = accepting - 1
    /\ accepted' = [accepted EXCEPT !["failed"] = @ + 1]
    /\ UNCHANGED <<serverVars, timerVars, acceptor_open, backlog, conn,
                   stopping, taken, historyVars>>

LinkBreaks(s) ==
    /\ conn[s].link = "up"
    /\ conn' = [conn EXCEPT ![s].link = "down"]
    /\ UNCHANGED <<serverVars, timerVars, acceptVars, stopping, taken,
                   historyVars>>

\* A client sends a request, again or for the first time, or a heartbeat.
ClientSends(s, packet) ==
    /\ conn[s].link = "up" /\ HasRoom(conn[s].to_server)
    /\ conn' = [conn EXCEPT ![s].to_server = Append(@, packet)]
    /\ UNCHANGED <<serverVars, timerVars, acceptVars, stopping, taken,
                   historyVars>>

\* A client acknowledges a notification whenever it receives it.
ClientReceives(s) ==
    /\ conn[s].link = "up" /\ conn[s].to_client # <<>>
    /\ LET packet == Head(conn[s].to_client) IN
       conn' = [conn EXCEPT
                  ![s].to_client = Tail(@),
                  ![s].to_server = IF packet.kind = "push"
                                   THEN Append(@, Ack(packet.id)) ELSE @]
    /\ UNCHANGED <<serverVars, timerVars, acceptVars, stopping, taken,
                   historyVars>>

Network ==
    \/ ClientConnects \/ AcceptReady \/ AcceptFails
    \/ \E s \in Sessions :
         \/ LinkBreaks(s)
         \/ ClientReceives(s)
         \/ \E r \in Requests : ClientSends(s, Request(r))
         \/ ClientSends(s, Heartbeat)

RunHandler ==
    \/ \E outcome \in Outcomes : RunAccept(outcome)
    \/ \E s \in Sessions : RunReadRequest(s) \/ RunReadPush(s) \/ RunReadError(s)
    \/ \E s \in Sessions : RunSessionTimer(s)
    \/ \E t \in 1..MaxTimers : RunTimer(t)

Next == CallAPI \/ RunHandler \/ Second \/ Network

Spec == Init /\ [][Next]_vars

(* The io_context runs every handler that stays ready, and time passes.    *)
(* Clients need not send, receive or connect, and nobody has to call the   *)
(* API.                                                                    *)
Fairness ==
    /\ WF_vars(Second)
    /\ \A t \in 1..MaxTimers : WF_vars(RunTimer(t))
    /\ \A s \in Sessions : WF_vars(RunSessionTimer(s)) /\ WF_vars(RunReadError(s))

FairSpec == Spec /\ Fairness

-----------------------------------------------------------------------------
Idle == stopping = {}

SessionType ==
    [ last_recv : 0..HeartbeatInterval,
      rencently_packet_tracker : Ages(Requests),
      write_packets : UNION { [ps -> [cur_tries : 1..ResendTries,
                                      since : 0..ResendInterval]] :
                              ps \in SUBSET PushIds },
      read_pending : BOOLEAN,
      check_timer : {"armed", "due"} ]

TypeOK ==
    /\ started \in BOOLEAN
    /\ DOMAIN sessions \subseteq 1..cur_session_id
    /\ \A s \in DOMAIN sessions : sessions[s] \in SessionType
    /\ cur_session_id \in 0..MaxSessions
    /\ cur_seq \in 0..MaxPushes
    /\ check_timer_id \in 0..cur_timer_id
    /\ req_2_processor \subseteq Cmds
    /\ DOMAIN timers \subseteq 1..cur_timer_id
    /\ \A t \in DOMAIN timers : timers[t] \in {"armed", "due"}
    /\ cur_timer_id \in 0..MaxTimers
    /\ acceptor_open \in BOOLEAN
    /\ accepting \in Nat
    /\ accepted \in [Outcomes -> Nat]
    /\ backlog \in Nat
    /\ conn \in [Sessions -> [link : {"closed", "up", "down"},
                              to_server : Seq(ToServer),
                              to_client : Seq(ToClient)]]
    /\ stopping \subseteq Threads
    /\ taken \subseteq Sessions \X Requests
    /\ served \in [Sessions -> Ages(Requests)]
    /\ repeated \subseteq Sessions \X Requests
    /\ waited \in [Sessions -> [PushIds -> 0..Patience]]
    /\ stopped \in BOOLEAN

(* A request that a client sends again on its connection is given to its   *)
(* processor once in a window, also when the processor is registered or    *)
(* unregistered in between.                                                *)
ProcessedOnce == repeated = {}

(* Once stop() has returned, the server has no session, and it gets none:  *)
(* a connection that was accepted while stop() ran is dropped.             *)
StoppedHasNoSessions == Idle /\ ~started => DOMAIN sessions = {}

(* No session is left without the timer that removes it when it is silent. *)
(* A start() between the halves of a stop() of another thread ends in a    *)
(* server that counts as started and has no timer: such a server must not  *)
(* have sessions either, nor get one by an accept that was under way.      *)
SessionsAreWatched == DOMAIN sessions # {} => check_timer_id \in DOMAIN timers

(* A server that was started and never stopped goes on accepting, whatever *)
(* errors single accepts had.                                              *)
AcceptsUntilStopped ==
    started /\ ~stopped => accepting + accepted["ok"] + accepted["failed"] > 0

(* Once start() has returned, and until stop() is called, the timer that   *)
(* removes silent sessions runs, if one thread makes the calls.  The class *)
(* calls itself "thread safe" (reliable_tcp_server.hpp:12), but with two   *)
(* threads a start() between reliable_tcp_server.cpp:56 and stop_impl      *)
(* leaves a started server without its timer; SessionsAreWatched says what *)
(* still holds then.                                                       *)
StartedHasTimer == Idle /\ started => check_timer_id \in DOMAIN timers

(* A session forgets a notification only once it is acknowledged, or was   *)
(* sent ResendTries times at the resend interval.                          *)
PushesNotDroppedEarly ==
    [][\A s \in DOMAIN sessions \intersect DOMAIN sessions' :
         \A p \in Pending(s) \ Pending(s)' :
           \/ conn[s].to_server # <<>> /\ Head(conn[s].to_server) = Ack(p)
           \/ waited[s][p] >= Patience]_vars

(* "other cases, let session_mgr timeout check do it's job"                *)
(* (reliable_tcp_session.cpp:113): the session of a connection that broke  *)
(* is removed, although nothing tells the server that it broke.            *)
BrokenSessionsRemoved ==
    \A s \in Sessions : conn[s].link = "down" ~> s \notin DOMAIN sessions

(* No notification is resent forever: each is acknowledged or given up.    *)
PushesSettle ==
    \A s \in Sessions, p \in PushIds : p \in Pending(s) ~> p \notin Pending(s)
=============================================================================
