------------------------- MODULE ReliableTcpClient -------------------------
(***************************************************************************)
(* reliable_tcp_client_t (reliable_tcp_client.hpp/.cpp) with the timer     *)
(* (itimer.cpp) and the io_context it runs on.  One thread, the io thread, *)
(* runs the handlers of the io_context one at a time, in the order they    *)
(* were queued: what the API posts, timer expirations, and the completions *)
(* of connects, reads and writes.  The API is called from other threads.   *)
(*                                                                         *)
(* Time is counted in whole seconds, as the code compares it, and each     *)
(* time point of the code is an age that stops at the largest value it is  *)
(* compared with.  A request is its send id: cur_seq_ and cur_send_id_     *)
(* only ever tell two requests apart.                                      *)
(***************************************************************************)
EXTENDS DedupWindow, OrderedIds, Sequences, FiniteSets

CONSTANTS
    Threads,            \* threads that call the API
    Pushes,             \* notifications (cmd, seq) the peer may send
    Cmds,               \* notification commands
    CmdOf,              \* the command of each push
    SendOpts,           \* send_opt_t values: [tries, interval_seconds]
    ReconnectInterval,  \* reconnect_interval_seconds
    MaxSends,           \* bound: requests sent
    MaxLag,             \* seconds for which handlers may wait to run, any
                        \* number of them from ReconnectInterval on
    MaxTimers,          \* bound: no start() is called after so many timers
    MaxQueue            \* bound: the API is called while fewer handlers wait

ASSUME ClientAssumption ==
    /\ CmdOf \in [Pushes -> Cmds]
    /\ SendOpts \subseteq [tries : Nat, interval_seconds : Nat]
    /\ IsFiniteSet(SendOpts)
    /\ ReconnectInterval \in Nat
    /\ MaxLag \in Nat /\ MaxSends \in Nat /\ MaxTimers \in Nat /\ MaxQueue \in Nat

VARIABLES
    \* Fields of the client.
    started, connect_state, read_pending, write_packets, notifications,
    rencently_packet_tracker, check_timer_id, last_connect, cur_send_id,
    \* The timer: its map, and the last id it gave.
    timers, cur_timer_id,
    \* The operating system and asio: the socket, the number of outstanding
    \* async_read_some calls, the queue of handlers that are ready to run, and the
    \* seconds that passed since it was last empty.
    socket, reading, ioq, lag,
    \* Where each calling thread is in start() or stop().
    caller,
    \* Requests that reached the current connection: the peer may answer them.
    on_wire,
    \* History: callbacks run per request, requests dropped by send_cancel()
    \* or stop(), seconds each request has waited, the age of each push's last
    \* callback, and the pushes called back twice within a window.
    called, discarded, waited, heard, repeated

clientVars == <<started, connect_state, read_pending, write_packets,
                notifications, rencently_packet_tracker, check_timer_id,
                last_connect, cur_send_id>>
timerVars == <<timers, cur_timer_id>>
netVars == <<socket, reading, on_wire>>
historyVars == <<called, discarded, waited, heard, repeated>>
queueVars == <<ioq, lag>>
vars == <<clientVars, timerVars, netVars, queueVars, caller, historyVars>>

-----------------------------------------------------------------------------
Requests == 1..MaxSends

Response(i) == [kind |-> "response", id |-> i]
Push(p) == [kind |-> "push", id |-> p]

Handlers ==
    [op : {"start", "stop"}, thread : Threads]
      \union [op : {"send"}, id : Requests, opt : SendOpts]
      \union [op : {"cancel"}, id : Requests]
      \union [op : {"subscribe", "unsubscribe"}, cmd : Cmds]
      \union [op : {"timer_start", "timer_stop", "timer"}, timer : Nat]
      \union [op : {"connect"}, ok : BOOLEAN]
      \union [op : {"read"},
              packet : [kind : {"response"}, id : Requests]
                         \union [kind : {"push"}, id : Pushes]]
      \union [op : {"read_error", "write_error"}]

Capped(n, cap) == IF n < cap THEN n + 1 ELSE cap

\* A request is written at most Attempts times, an interval apart.
Attempts(opt) == IF opt.tries = 0 THEN 1 ELSE opt.tries
Patience(opt) == Attempts(opt) * opt.interval_seconds
MaxWait == LET waits == { Patience(opt) : opt \in SendOpts } IN
           IF waits = {} THEN 0 ELSE CHOOSE w \in waits : \A v \in waits : v <= w

Init ==
    /\ started = FALSE
    /\ connect_state = "disconnected"
    /\ read_pending = FALSE
    /\ write_packets = [i \in {} |-> {}]
    /\ notifications = {}
    /\ rencently_packet_tracker = Forgotten(Pushes)
    /\ check_timer_id = 0
    /\ last_connect = ReconnectInterval
    /\ cur_send_id = 0
    /\ timers = [t \in {} |-> {}]
    /\ cur_timer_id = 0
    /\ socket = "closed"
    /\ reading = 0
    /\ ioq = <<>>
    /\ lag = 0
    /\ caller = [t \in Threads |-> "idle"]
    /\ on_wire = {}
    /\ called = [i \in Requests |-> 0]
    /\ discarded = {}
    /\ waited = [i \in Requests |-> 0]
    /\ heard = Forgotten(Pushes)
    /\ repeated = {}

-----------------------------------------------------------------------------
(* The API, on a caller's thread.  Everything but started_ is changed by   *)
(* a handler; start() and stop() block until theirs has run.               *)

Posted(h) == ioq' = Append(ioq, h) /\ UNCHANGED lag

MayCall(t) == caller[t] = "idle" /\ Len(ioq) < MaxQueue

CallStart(t) ==
    /\ MayCall(t) /\ cur_timer_id < MaxTimers
    /\ caller' = [caller EXCEPT ![t] = "waiting"]
    /\ Posted([op |-> "start", thread |-> t])
    /\ UNCHANGED <<clientVars, timerVars, netVars, historyVars>>

\* stop() clears the flag at once, on the caller's thread...
CallStop(t) ==
    /\ MayCall(t) /\ started
    /\ started' = FALSE
    /\ caller' = [caller EXCEPT ![t] = "stopping"]
    /\ UNCHANGED <<connect_state, read_pending, write_packets, notifications,
                   rencently_packet_tracker, check_timer_id, last_connect,
                   cur_send_id, timerVars, netVars, queueVars, historyVars>>

\* ...and only then posts stop_impl.
PostStop(t) ==
    /\ caller[t] = "stopping"
    /\ caller' = [caller EXCEPT ![t] = "waiting"]
    /\ Posted([op |-> "stop", thread |-> t])
    /\ UNCHANGED <<clientVars, timerVars, netVars, historyVars>>

SendReqAsync(t, opt) ==
    /\ MayCall(t) /\ cur_send_id < MaxSends
    /\ cur_send_id' = cur_send_id + 1
    /\ Posted([op |-> "send", id |-> cur_send_id', opt |-> opt])
    /\ UNCHANGED <<started, connect_state, read_pending, write_packets,
                   notifications, rencently_packet_tracker, check_timer_id,
                   last_connect, timerVars, netVars, caller, historyVars>>

SendCancel(t, i) ==
    /\ MayCall(t) /\ i <= cur_send_id
    /\ Posted([op |-> "cancel", id |-> i])
    /\ UNCHANGED <<clientVars, timerVars, netVars, caller, historyVars>>

SubscribeNotification(t, cmd) ==
    /\ MayCall(t)
    /\ Posted([op |-> "subscribe", cmd |-> cmd])
    /\ UNCHANGED <<clientVars, timerVars, netVars, caller, historyVars>>

UnsubscribeNotification(t, cmd) ==
    /\ MayCall(t)
    /\ Posted([op |-> "unsubscribe", cmd |-> cmd])
    /\ UNCHANGED <<clientVars, timerVars, netVars, caller, historyVars>>

CallAPI ==
    \E t \in Threads :
      \/ CallStart(t)
      \/ CallStop(t)
      \/ PostStop(t)
      \/ \E opt \in SendOpts : SendReqAsync(t, opt)
      \/ \E i \in Requests : SendCancel(t, i)
      \/ \E cmd \in Cmds : SubscribeNotification(t, cmd)
      \/ \E cmd \in Cmds : UnsubscribeNotification(t, cmd)

-----------------------------------------------------------------------------
(* What the handlers are made of.                                          *)

\* The next handler is of this kind.
Runs(op) == ioq # <<>> /\ Head(ioq).op = op

\* It has run, and queued these.
Queues(handlers) ==
    /\ ioq' = Tail(ioq) \o handlers
    /\ lag' = IF ioq' = <<>> THEN 0 ELSE lag

\* Closing the socket, or opening it again, completes what is outstanding.
Aborted ==
    (IF socket = "opening" THEN <<[op |-> "connect", ok |-> FALSE]>> ELSE <<>>)
      \o [n \in 1..reading |-> [op |-> "read_error"]]

\* Mutant: do_close() overlooks a connect that is under way.
ClosesConnected == connect_state = "connected"

\* do_close() does nothing for a client that is disconnected.
Closes == connect_state # "disconnected"
AbortedByClose == IF Closes THEN Aborted ELSE <<>>

DoClose ==
    IF Closes
    THEN /\ connect_state' = "disconnected"
         /\ read_pending' = FALSE
         /\ socket' = "closed"
         /\ reading' = 0
         /\ on_wire' = {}
    ELSE UNCHANGED <<connect_state, read_pending, socket, reading, on_wire>>

\* async_connect closes a socket that is still open, and opens it anew.
DoConnect ==
    /\ connect_state' = "connecting"
    /\ last_connect' = 0
    /\ socket' = "opening"
    /\ reading' = 0
    /\ on_wire' = {}

\* Mutant: the flag is not looked at.
DoReadPacketAgain(connected, pending) ==
    IF connected
    THEN read_pending' = TRUE /\ reading' = reading + 1
    ELSE read_pending' = pending /\ UNCHANGED reading

\* Mutant: the completion of a read forgets to clear the flag.
DoReadPacketNotCleared(connected, pending) ==
    IF connected /\ ~read_pending
    THEN read_pending' = TRUE /\ reading' = reading + 1
    ELSE UNCHANGED <<read_pending, reading>>

\* do_read_packet() as the last call of a completion: one read at a time.
DoReadPacket(connected, pending) ==
    IF connected /\ ~pending
    THEN read_pending' = TRUE /\ reading' = reading + 1
    ELSE read_pending' = pending /\ UNCHANGED reading

\* Mutant: requests wait for a connection.
DueConnected ==
    { i \in DOMAIN write_packets :
        /\ write_packets[i].since >= write_packets[i].opt.interval_seconds
        /\ connect_state = "connected" }

\* The requests that a timer tick finds due, and of those the ones given up.
Due ==
    { i \in DOMAIN write_packets :
        write_packets[i].since >= write_packets[i].opt.interval_seconds }

\* Mutant: one attempt too many.
ExhaustedLate ==
    { i \in Due : write_packets[i].cur_tries > write_packets[i].opt.tries }

Exhausted ==
    { i \in Due : write_packets[i].cur_tries >= write_packets[i].opt.tries }
Resent == Ascending(Due \ Exhausted, MaxSends)

\* Mutant: the time of the last attempt is not updated.
RetriedEarly(i) == [write_packets[i] EXCEPT !.cur_tries = @ + 1]

Retried(i) == [write_packets[i] EXCEPT !.cur_tries = @ + 1, !.since = 0]

\* Mutant: none, as when the interval never seems to be over.
HeartbeatsNone == <<>>

\* do_heartbeat_check: last_heartbeat_timepoint_ is never set, so that every
\* tick of a connected client sends one.
Heartbeats == <<[kind |-> "heartbeat"]>>

\* What the next handler passes to do_write_packet.
Outgoing ==
    LET h == Head(ioq)
        request(i) == [kind |-> "request", id |-> i]
    IN
    IF connect_state # "connected"
    THEN <<>>
    ELSE CASE h.op = "send" -> <<request(h.id)>>
           [] h.op = "read" /\ h.packet.kind = "push" ->
                <<[kind |-> "ack", id |-> h.packet.id]>>
           [] h.op = "timer" /\ h.timer \in DOMAIN timers ->
                [n \in 1..Len(Resent) |-> request(Resent[n])]
                  \o Heartbeats
           [] OTHER -> <<>>

\* On a socket that broke, each write completes with an error.
WriteErrors ==
    IF socket \in {"down", "closed"}
    THEN [n \in 1..Len(Outgoing) |-> [op |-> "write_error"]]
    ELSE <<>>

WireAfterWrites ==
    IF socket \in {"down", "closed"}
    THEN on_wire
    ELSE on_wire \union
           { i \in Requests : \E n \in 1..Len(Outgoing) :
               Outgoing[n] = [kind |-> "request", id |-> i] }

\* Mutant: the entry is not erased.
WithoutNone(ids) == write_packets

Without(ids) == [i \in DOMAIN write_packets \ ids |-> write_packets[i]]

WaitedBy(ids) == [i \in Requests |-> IF i \in ids THEN waited[i] ELSE 0]

CalledFor(ids) ==
    [i \in Requests |-> IF i \in ids THEN called[i] + 1 ELSE called[i]]

-----------------------------------------------------------------------------
(* Handlers posted by the API.                                             *)

\* start_impl
RunStart ==
    /\ Runs("start")
    /\ caller' = [caller EXCEPT ![Head(ioq).thread] = "idle"]
    /\ started' = TRUE
    /\ IF started
       THEN /\ Queues(<<>>)
            /\ UNCHANGED <<connect_state, last_connect, check_timer_id,
                           cur_timer_id, netVars>>
       ELSE /\ DoConnect
            /\ cur_timer_id' = cur_timer_id + 1
            /\ check_timer_id' = cur_timer_id'
            /\ Queues(Aborted \o
                        <<[op |-> "timer_start", timer |-> cur_timer_id']>>)
    /\ UNCHANGED <<read_pending, write_packets, notifications,
                   rencently_packet_tracker, cur_send_id, timers, historyVars>>

\* stop_impl: the timer is stopped by a handler of its own, queued first.
RunStop ==
    /\ Runs("stop")
    /\ caller' = [caller EXCEPT ![Head(ioq).thread] = "idle"]
    /\ Queues(<<[op |-> "timer_stop", timer |-> check_timer_id]>>
                \o AbortedByClose)
    /\ check_timer_id' = 0
    /\ DoClose
    /\ write_packets' = Without(Requests)
    /\ notifications' = {}
    /\ rencently_packet_tracker' = Forgotten(Pushes)
    /\ last_connect' = ReconnectInterval
    /\ discarded' = discarded \union DOMAIN write_packets
    /\ waited' = WaitedBy({})
    /\ heard' = Forgotten(Pushes)
    /\ UNCHANGED <<started, cur_send_id, timerVars, called, repeated>>

\* send_req_async_impl
RunSend ==
    /\ Runs("send")
    /\ LET h == Head(ioq) IN
       write_packets' = [i \in DOMAIN write_packets \union {h.id} |->
                           IF i = h.id
                           THEN [opt |-> h.opt, cur_tries |-> 1, since |-> 0]
                           ELSE write_packets[i]]
    /\ on_wire' = WireAfterWrites
    /\ Queues(WriteErrors)
    /\ UNCHANGED <<started, connect_state, read_pending, notifications,
                   rencently_packet_tracker, check_timer_id, last_connect,
                   cur_send_id, timerVars, socket, reading, caller, historyVars>>

\* send_cancel_impl
RunCancel ==
    /\ Runs("cancel")
    /\ LET cancelled == {Head(ioq).id} \intersect DOMAIN write_packets IN
       /\ write_packets' = Without(cancelled)
       /\ discarded' = discarded \union cancelled
       /\ waited' = WaitedBy(DOMAIN write_packets \ cancelled)
    /\ Queues(<<>>)
    /\ UNCHANGED <<started, connect_state, read_pending, notifications,
                   rencently_packet_tracker, check_timer_id, last_connect,
                   cur_send_id, timerVars, netVars, caller, called, heard,
                   repeated>>

\* subscribe_notification_impl and unsubscribe_notification_impl
RunSubscription ==
    /\ \/ /\ Runs("subscribe")
          /\ notifications' = notifications \union {Head(ioq).cmd}
       \/ /\ Runs("unsubscribe")
          /\ notifications' = notifications \ {Head(ioq).cmd}
    /\ Queues(<<>>)
    /\ UNCHANGED <<started, connect_state, read_pending, write_packets,
                   rencently_packet_tracker, check_timer_id, last_connect,
                   cur_send_id, timerVars, netVars, caller, historyVars>>

-----------------------------------------------------------------------------
(* Handlers of the timer.                                                  *)

\* start_timer_impl
RunTimerStart ==
    /\ Runs("timer_start")
    /\ timers' = [t \in DOMAIN timers \union {Head(ioq).timer} |->
                    IF t = Head(ioq).timer THEN "armed" ELSE timers[t]]
    /\ Queues(<<>>)
    /\ UNCHANGED <<clientVars, cur_timer_id, netVars, caller, historyVars>>

\* stop_timer_impl: an expiration already queued will not find the timer.
RunTimerStop ==
    /\ Runs("timer_stop")
    /\ timers' = [t \in DOMAIN timers \ {Head(ioq).timer} |-> timers[t]]
    /\ Queues(<<>>)
    /\ UNCHANGED <<clientVars, cur_timer_id, netVars, caller, historyVars>>

\* Mutant: a socket that a failed attempt left open is not opened again.
ReconnectsIfClosed ==
    /\ connect_state = "disconnected"
    /\ last_connect >= ReconnectInterval
    /\ started
    /\ socket = "closed"

\* do_reconnect_check connects again.
Reconnects ==
    /\ connect_state = "disconnected"
    /\ last_connect >= ReconnectInterval
    /\ started

\* Mutant: the timer is not armed again.
RearmedNever(t) == timers

\* reschedule_timer: a periodic timer is armed again once its task has run.
Rearmed(t) == [timers EXCEPT ![t] = "armed"]

\* on_timer and on_priodically_timer: the three checks, then the timer is
\* armed again.
RunTimer ==
    /\ Runs("timer")
    /\ IF Head(ioq).timer \notin DOMAIN timers
       THEN /\ Queues(<<>>)
            /\ UNCHANGED <<clientVars, timers, netVars, historyVars>>
       ELSE /\ timers' = Rearmed(Head(ioq).timer)
            /\ IF Reconnects
               THEN DoConnect /\ Queues(Aborted)
               ELSE /\ on_wire' = WireAfterWrites
                    /\ Queues(WriteErrors)
                    /\ UNCHANGED <<connect_state, last_connect, socket, reading>>
            /\ write_packets' =
                 [i \in DOMAIN write_packets \ Exhausted |->
                    IF i \in Due THEN Retried(i) ELSE write_packets[i]]
            /\ called' = CalledFor(Exhausted)
            /\ waited' = WaitedBy(DOMAIN write_packets \ Exhausted)
            /\ UNCHANGED <<started, read_pending, notifications, cur_send_id,
                           rencently_packet_tracker, check_timer_id, discarded,
                           heard, repeated>>
    /\ UNCHANGED <<cur_timer_id, caller>>

-----------------------------------------------------------------------------
(* Completions.                                                            *)

\* Mutant: the handler only returns.
AfterFailedConnectUnset == connect_state

AfterFailedConnect == "disconnected"

\* The handler of async_connect.  asio turns a success into an abort when the
\* socket was closed in the meantime.
RunConnect ==
    /\ Runs("connect")
    /\ IF Head(ioq).ok /\ socket # "closed"
       THEN connect_state' = "connected" /\ DoReadPacket(TRUE, read_pending)
       ELSE /\ connect_state' = AfterFailedConnect
            /\ UNCHANGED <<read_pending, reading>>
    /\ Queues(<<>>)
    /\ UNCHANGED <<started, write_packets, notifications,
                   rencently_packet_tracker, check_timer_id, last_connect,
                   cur_send_id, timerVars, socket, on_wire, caller, historyVars>>

\* process_response_packet: the request is found, or the response is ignored.
RunReadResponse ==
    /\ Runs("read") /\ Head(ioq).packet.kind = "response"
    /\ LET answered == {Head(ioq).packet.id} \intersect DOMAIN write_packets IN
       /\ write_packets' = Without(answered)
       /\ called' = CalledFor(answered)
       /\ waited' = WaitedBy(DOMAIN write_packets \ answered)
    /\ DoReadPacket(connect_state = "connected", FALSE)
    /\ Queues(<<>>)
    /\ UNCHANGED <<started, connect_state, notifications,
                   rencently_packet_tracker, check_timer_id, last_connect,
                   cur_send_id, timerVars, socket, on_wire, caller, discarded,
                   heard, repeated>>

\* process_push_packet: acknowledged always, called back once, if subscribed.
RunReadPush ==
    /\ Runs("read") /\ Head(ioq).packet.kind = "push"
    /\ LET p == Head(ioq).packet.id
           notified == /\ ~Seen(rencently_packet_tracker, p)
                       /\ CmdOf[p] \in notifications
       IN
       /\ rencently_packet_tracker' = Recorded(rencently_packet_tracker, p)
       /\ heard' = IF notified THEN [heard EXCEPT ![p] = 0] ELSE heard
       /\ repeated' = IF notified /\ Seen(heard, p) THEN repeated \union {p}
                                                    ELSE repeated
    /\ DoReadPacket(connect_state = "connected", FALSE)
    /\ Queues(WriteErrors)
    /\ UNCHANGED <<started, connect_state, write_packets, notifications,
                   check_timer_id, last_connect, cur_send_id, timerVars, socket,
                   on_wire, caller, called, discarded, waited>>

RunReadError ==
    /\ Runs("read_error")
    /\ IF Closes THEN DoClose
                 ELSE /\ read_pending' = FALSE
                      /\ UNCHANGED <<connect_state, netVars>>
    /\ Queues(AbortedByClose)
    /\ UNCHANGED <<started, write_packets, notifications,
                   rencently_packet_tracker, check_timer_id, last_connect,
                   cur_send_id, timerVars, caller, historyVars>>

RunWriteError ==
    /\ Runs("write_error")
    /\ DoClose
    /\ Queues(AbortedByClose)
    /\ UNCHANGED <<started, write_packets, notifications,
                   rencently_packet_tracker, check_timer_id, last_connect,
                   cur_send_id, timerVars, caller, historyVars>>

RunHandler ==
    \/ RunStart \/ RunStop \/ RunSend \/ RunCancel \/ RunSubscription
    \/ RunTimerStart \/ RunTimerStop \/ RunTimer
    \/ RunConnect \/ RunReadResponse \/ RunReadPush
    \/ RunReadError \/ RunWriteError

-----------------------------------------------------------------------------
(* Time and the network.                                                   *)

\* The io thread may lag behind time, for example while do_connect resolves
\* the name of the host.
AnyLag == MaxLag >= ReconnectInterval

\* A second passes: what the code has stored grows older, and every armed
\* timer expires.
Second ==
    LET expired == Ascending({ t \in DOMAIN timers : timers[t] = "armed" },
                             cur_timer_id)
    IN
    /\ ioq = <<>> \/ AnyLag \/ lag < MaxLag
    /\ lag' = IF ioq = <<>> \/ AnyLag THEN lag ELSE lag + 1
    /\ timers' = [t \in DOMAIN timers |-> "expired"]
    /\ ioq' = ioq \o [n \in 1..Len(expired) |->
                        [op |-> "timer", timer |-> expired[n]]]
    /\ last_connect' = Capped(last_connect, ReconnectInterval)
    /\ write_packets' =
         [i \in DOMAIN write_packets |->
            [write_packets[i] EXCEPT
               !.since = Capped(@, write_packets[i].opt.interval_seconds)]]
    /\ rencently_packet_tracker' = Aged(rencently_packet_tracker)
    /\ waited' = [i \in Requests |-> IF i \in DOMAIN write_packets
                                     THEN Capped(waited[i], MaxWait)
                                     ELSE 0]
    /\ heard' = Aged(heard)
    /\ UNCHANGED <<started, connect_state, read_pending, notifications,
                   check_timer_id, cur_send_id, cur_timer_id, netVars, caller,
                   called, discarded, repeated>>

\* The server accepts the connection, or the attempt fails.
ConnectDone(ok) ==
    /\ socket = "opening"
    /\ socket' = IF ok THEN "up" ELSE "down"
    /\ Posted([op |-> "connect", ok |-> ok])
    /\ UNCHANGED <<clientVars, timerVars, reading, on_wire, caller, historyVars>>

\* The connection breaks, noticed by the next read or write.
LinkBreaks ==
    /\ socket = "up"
    /\ socket' = "down"
    /\ UNCHANGED <<clientVars, timerVars, reading, on_wire, queueVars, caller,
                   historyVars>>

\* A packet arrives.  Several in one read are the same as one read each.
ReadReady(packet) ==
    /\ reading > 0 /\ socket = "up"
    /\ reading' = reading - 1
    /\ Posted([op |-> "read", packet |-> packet])
    /\ UNCHANGED <<clientVars, timerVars, socket, on_wire, caller, historyVars>>

ReadFails ==
    /\ reading > 0 /\ socket = "down"
    /\ reading' = reading - 1
    /\ Posted([op |-> "read_error"])
    /\ UNCHANGED <<clientVars, timerVars, socket, on_wire, caller, historyVars>>

Network ==
    \/ \E ok \in BOOLEAN : ConnectDone(ok)
    \/ LinkBreaks
    \/ \E i \in on_wire : ReadReady(Response(i))
    \/ \E p \in Pushes : ReadReady(Push(p))
    \/ ReadFails

Next == CallAPI \/ RunHandler \/ Second \/ Network

Spec == Init /\ [][Next]_vars

(* The io thread keeps running handlers, time passes, a stop() that began  *)
(* posts its handler, a connect attempt ends one way or the other, and a   *)
(* read of a broken connection fails.  Nobody has to call the API, and no  *)
(* packet has to arrive.                                                   *)
Fairness ==
    /\ WF_vars(RunHandler)
    /\ WF_vars(Second)
    /\ \A t \in Threads : WF_vars(PostStop(t))
    /\ WF_vars(\E ok \in BOOLEAN : ConnectDone(ok))
    /\ WF_vars(ReadFails)

FairSpec == Spec /\ Fairness

-----------------------------------------------------------------------------
Queued(op) == { n \in 1..Len(ioq) : ioq[n].op = op }

Idle == \A t \in Threads : caller[t] = "idle"

TypeOK ==
    /\ started \in BOOLEAN
    /\ connect_state \in {"disconnected", "connecting", "connected"}
    /\ read_pending \in BOOLEAN
    /\ DOMAIN write_packets \subseteq Requests
    /\ \A i \in DOMAIN write_packets :
         /\ write_packets[i] \in [opt : SendOpts, cur_tries : Nat, since : Nat]
         /\ write_packets[i].cur_tries \in 1..Attempts(write_packets[i].opt)
    /\ notifications \subseteq Cmds
    /\ rencently_packet_tracker \in Ages(Pushes)
    /\ check_timer_id \in 0..cur_timer_id
    /\ last_connect \in 0..ReconnectInterval
    /\ cur_send_id \in 0..MaxSends
    /\ cur_timer_id \in Nat
    /\ DOMAIN timers \subseteq 1..cur_timer_id
    /\ \A t \in DOMAIN timers : timers[t] \in {"armed", "expired"}
    /\ socket \in {"closed", "opening", "up", "down"}
    /\ reading \in Nat
    /\ ioq \in Seq(Handlers)
    /\ lag \in 0..MaxLag
    /\ caller \in [Threads -> {"idle", "waiting", "stopping"}]
    /\ on_wire \subseteq Requests
    /\ called \in [Requests -> Nat]
    /\ discarded \subseteq Requests
    /\ waited \in [Requests -> 0..MaxWait]
    /\ heard \in Ages(Pushes)
    /\ repeated \subseteq Pushes

(* Every request is in one place: its send is queued, it is pending in     *)
(* write_packets_, its callback ran once, or send_cancel() or stop()       *)
(* dropped it and it has no callback.  Answers, time-outs, cancels, stops  *)
(* and reconnects race, and none loses a request or calls it back twice.   *)
Sending(i) == \E n \in Queued("send") : ioq[n].id = i

InOnePlace(i) ==
    LET places == << Sending(i), i \in DOMAIN write_packets,
                     called[i] = 1, i \in discarded >>
    IN  \E k \in 1..4 : \A j \in 1..4 : places[j] <=> j = k

RequestsAccountedFor ==
    /\ \A i \in 1..cur_send_id : called[i] <= 1 /\ InOnePlace(i)
    /\ \A m, n \in Queued("send") : ioq[m].id = ioq[n].id => m = n

(* "all reads use the same buffer" (reliable_tcp_client.hpp:113): a read   *)
(* is never outstanding while the bytes of another wait to be committed,   *)
(* across any number of connections.                                       *)
ReadsInTurn ==
    Cardinality(Queued("read")) + reading <= 1

(* A connected client is never deaf: a read is outstanding, or its         *)
(* completion is on its way, so that the peer and a broken link are heard. *)
ConnectedIsReading ==
    connect_state = "connected" =>
      reading > 0 \/ Queued("read") \union Queued("read_error") # {}

(* do_reconnect_check leaves a client that is connecting alone, so that    *)
(* one that is connecting with no attempt under way would stay so for good.*)
ConnectingIsUnderWay ==
    connect_state = "connecting" => socket = "opening" \/ Queued("connect") # {}

(* Once start() has returned, and until stop() is called, the client's     *)
(* timer runs: it is armed or about to run, and nothing is about to stop   *)
(* it.  It is what reconnects, resends, times out and sends heartbeats.    *)
(* The class calls itself "thread safe" (reliable_tcp_client.hpp:15), so   *)
(* this is asked of calls by one thread and of calls by two.               *)
StartedHasTimer ==
    Idle /\ started =>
      /\ \/ check_timer_id \in DOMAIN timers /\ timers[check_timer_id] = "armed"
         \/ \E n \in Queued("timer_start") \union Queued("timer") :
              ioq[n].timer = check_timer_id
      /\ \A n \in Queued("timer_stop") : ioq[n].timer # check_timer_id

(* Once stop() has returned the client is at rest: it is not connected,    *)
(* no connect is under way, and every timer is about to be stopped.        *)
StoppedIsQuiet ==
    Idle /\ ~started =>
      /\ connect_state = "disconnected"
      /\ socket \in {"closed", "down"}
      /\ \A t \in DOMAIN timers : \E n \in Queued("timer_stop") : ioq[n].timer = t

(* A request fails only after it was given all its attempts: tries times   *)
(* the interval have passed since it was sent.                             *)
TimeoutNotEarly ==
    [][\A i \in Requests :
         called'[i] # called[i] /\ Head(ioq).op = "timer" =>
           waited[i] >= Patience(write_packets[i].opt)]_vars

(* A notification that the server sends again is called back once in a     *)
(* window, whatever connections it arrives on, unless stop() forgot it.    *)
NotifiedOnce == repeated = {}

(* A pending request of a started client is settled in the end, answered   *)
(* or not and connected or not: its callback runs or it is cancelled.      *)
RequestsSettle ==
    \A i \in Requests :
      i \in DOMAIN write_packets ~> (i \notin DOMAIN write_packets \/ ~started)

(* A started client that lost its connection tries again.                  *)
DisconnectedReconnects ==
    (started /\ connect_state = "disconnected")
      ~> (~started \/ connect_state # "disconnected")
=============================================================================
