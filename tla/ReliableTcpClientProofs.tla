---------------------- MODULE ReliableTcpClientProofs ----------------------
(***************************************************************************)
(* Proofs about ReliableTcpClient.tla, for every number of threads,        *)
(* requests, timers and queued handlers, every set of send options, and    *)
(* any lag of the io thread.                                               *)
(*                                                                         *)
(* Handlers are queued before they run, so that every invariant speaks of  *)
(* the queue as well as of the fields.  A handler takes the first of the   *)
(* queue and adds to its end; a call adds one.                             *)
(***************************************************************************)
EXTENDS ReliableTcpClient, OrderedIdsProofs, FiniteSetTheorems, TLAPS

\* What TypeOK says, part by part.
FieldsOK ==
    /\ started \in BOOLEAN
    /\ connect_state \in {"disconnected", "connecting", "connected"}
    /\ read_pending \in BOOLEAN
    /\ notifications \subseteq Cmds
    /\ last_connect \in 0..ReconnectInterval
    /\ cur_send_id \in 0..MaxSends
    /\ caller \in [Threads -> {"idle", "waiting", "stopping"}]

NetOK ==
    /\ socket \in {"closed", "opening", "up", "down"}
    /\ reading \in Nat
    /\ on_wire \subseteq Requests

PacketsOK ==
    /\ DOMAIN write_packets \subseteq Requests
    /\ \A i \in DOMAIN write_packets :
         /\ write_packets[i] \in [opt : SendOpts, cur_tries : Nat, since : Nat]
         /\ write_packets[i].cur_tries \in 1..Attempts(write_packets[i].opt)

TimersOK ==
    /\ cur_timer_id \in Nat
    /\ check_timer_id \in 0..cur_timer_id
    /\ DOMAIN timers \subseteq 1..cur_timer_id
    /\ \A t \in DOMAIN timers : timers[t] \in {"armed", "expired"}

\* A timer that is about to be started has an id that was given out.
QueueOK ==
    /\ ioq \in Seq(Handlers)
    /\ lag \in 0..MaxLag
    /\ \A n \in 1..Len(ioq) :
         ioq[n].op = "timer_start" => ioq[n].timer \in 1..cur_timer_id

HistoryOK ==
    /\ called \in [Requests -> Nat]
    /\ discarded \subseteq Requests
    /\ waited \in [Requests -> 0..MaxWait]

PushesOK ==
    /\ rencently_packet_tracker \in Ages(Pushes)
    /\ heard \in Ages(Pushes)
    /\ repeated \subseteq Pushes

TypeInv ==
    /\ FieldsOK /\ NetOK /\ PacketsOK /\ TimersOK
    /\ QueueOK /\ HistoryOK /\ PushesOK

LEMMA TypeInvIsTypeOK == TypeInv => TypeOK
  BY DEF TypeInv, FieldsOK, NetOK, PacketsOK, TimersOK, QueueOK, HistoryOK,
     PushesOK, TypeOK

-----------------------------------------------------------------------------
(* Numbers.                                                                *)

LEMMA Numbers ==
  /\ Window \in Nat \ {0} /\ ReconnectInterval \in Nat
  /\ MaxSends \in Nat /\ MaxLag \in Nat
  BY WindowAssumption, ClientAssumption

LEMMA OptParts ==
  ASSUME NEW opt \in SendOpts
  PROVE  /\ opt.tries \in Nat /\ opt.interval_seconds \in Nat
         /\ Attempts(opt) \in Nat \ {0} /\ Patience(opt) \in Nat
<1>1. opt.tries \in Nat /\ opt.interval_seconds \in Nat
  BY ClientAssumption
<1>2. Attempts(opt) \in Nat \ {0}
  BY <1>1 DEF Attempts
<1>3. Patience(opt) \in Nat
  BY <1>1, <1>2 DEF Patience
<1>4. QED BY <1>1, <1>2, <1>3

\* MaxWait is as long as any request waits.
LEMMA MaxWaitIsMax ==
  MaxWait \in Nat /\ \A opt \in SendOpts : Patience(opt) <= MaxWait
<1> DEFINE waits == { Patience(opt) : opt \in SendOpts }
<1>1. waits \subseteq Nat
  BY OptParts
<1>2. IsFiniteSet(waits)
  <2> DEFINE f == [opt \in SendOpts |-> Patience(opt)]
  <2>1. f \in Surjection(SendOpts, waits)
    BY DEF Surjection
  <2>2. QED BY <2>1, ClientAssumption, FS_Surjection
<1>3. CASE waits = {}
  BY <1>3 DEF MaxWait
<1>4. CASE waits # {}
  <2>1. \E w \in waits : \A v \in waits : v <= w
    BY <1>1, <1>2, <1>4, FiniteMaximum
  <2>2. MaxWait = CHOOSE w \in waits : \A v \in waits : v <= w
    BY <1>4 DEF MaxWait
  <2>3. MaxWait \in waits /\ \A v \in waits : v <= MaxWait
    BY <2>1, <2>2
  <2>4. QED BY <1>1, <2>3
<1>5. QED BY <1>3, <1>4

LEMMA CappedType ==
  ASSUME NEW cap \in Nat, NEW n \in 0..cap PROVE Capped(n, cap) \in 0..cap
  BY DEF Capped

LEMMA ForgottenType == ASSUME NEW ids PROVE Forgotten(ids) \in Ages(ids)
  BY Numbers DEF Forgotten, Ages

LEMMA RecordedType ==
  ASSUME NEW ids, NEW age \in Ages(ids), NEW id \in ids
  PROVE  Recorded(age, id) \in Ages(ids)
  BY Numbers DEF Recorded, Ages

LEMMA AgedType ==
  ASSUME NEW ids, NEW age \in Ages(ids) PROVE Aged(age) \in Ages(ids)
  BY Numbers DEF Aged, Ages

-----------------------------------------------------------------------------
(* The queue.                                                              *)

LEMMA HandlerParts ==
  ASSUME NEW h \in Handlers
  PROVE  /\ h.op \in {"start", "stop"} => h.thread \in Threads
         /\ h.op = "send" => h.id \in Requests /\ h.opt \in SendOpts
         /\ h.op = "cancel" => h.id \in Requests
         /\ h.op \in {"subscribe", "unsubscribe"} => h.cmd \in Cmds
         /\ h.op \in {"timer_start", "timer_stop", "timer"} => h.timer \in Nat
         /\ h.op = "connect" => h.ok \in BOOLEAN
         /\ h.op = "read" /\ h.packet.kind = "response" =>
              h.packet.id \in Requests
         /\ h.op = "read" /\ h.packet.kind = "push" => h.packet.id \in Pushes
         /\ h.op = "read" => h.packet.kind \in {"response", "push"}
  BY DEF Handlers

LEMMA NextHandler ==
  ASSUME QueueOK, NEW op, Runs(op)
  PROVE  /\ ioq # <<>> /\ Head(ioq) \in Handlers /\ Head(ioq).op = op
         /\ Head(ioq) = ioq[1] /\ 1 \in 1..Len(ioq)
  BY DEF QueueOK, Runs

\* Completions that closing and writing queue.
Completions == [op : {"connect"}, ok : BOOLEAN]
                 \union [op : {"read_error", "write_error"}]

LEMMA CompletionTypes ==
  /\ Completions \subseteq Handlers
  /\ \A h \in Completions : h.op \in {"connect", "read_error", "write_error"}
  BY DEF Completions, Handlers

LEMMA AbortedType ==
  ASSUME NetOK
  PROVE  Aborted \in Seq(Completions) /\ AbortedByClose \in Seq(Completions)
<1> DEFINE reads == [n \in 1..reading |-> [op |-> "read_error"]]
           connect == IF socket = "opening"
                      THEN <<[op |-> "connect", ok |-> FALSE]>> ELSE <<>>
<1>1. reads \in Seq(Completions)
  BY DEF NetOK, Completions
<1>2. connect \in Seq(Completions)
  <2>1. [op |-> "connect", ok |-> FALSE] \in Completions
    BY DEF Completions
  <2>2. <<>> \in Seq(Completions)
    OBVIOUS
  <2>3. QED BY <2>1, <2>2
<1>3. Aborted = connect \o reads
  BY DEF Aborted
<1> HIDE DEF reads, connect
<1>4. Aborted \in Seq(Completions)
  BY <1>1, <1>2, <1>3
<1>5. QED BY <1>4 DEF AbortedByClose

\* What a handler queues is new, and no request is sent by it.
Consumes(handlers) ==
    /\ ioq # <<>>
    /\ Queues(handlers)
    /\ handlers \in Seq(Handlers)
    /\ \A k \in 1..Len(handlers) :
         /\ handlers[k].op # "send"
         /\ handlers[k].op = "timer_start" =>
              handlers[k].timer \in 1..cur_timer_id'

\* Where the handlers are once the first has run.
LEMMA QueueAfter ==
  ASSUME QueueOK, NEW handlers \in Seq(Handlers), ioq # <<>>, Queues(handlers)
  PROVE  /\ ioq' \in Seq(Handlers)
         /\ Len(ioq) \in Nat \ {0} /\ Len(handlers) \in Nat
         /\ Len(ioq') = Len(ioq) - 1 + Len(handlers)
         /\ \A n \in 1..(Len(ioq) - 1) : ioq'[n] = ioq[n + 1]
         /\ \A k \in 1..Len(handlers) : ioq'[Len(ioq) - 1 + k] = handlers[k]
<1>1. ioq \in Seq(Handlers) /\ ioq' = Tail(ioq) \o handlers
  BY DEF QueueOK, Queues
<1>2. QED BY <1>1, TailJoined

LEMMA ConsumesQueue ==
  ASSUME QueueOK, TimersOK, NEW handlers, Consumes(handlers),
         cur_timer_id' \in Nat, cur_timer_id <= cur_timer_id'
  PROVE  QueueOK'
<1>1. /\ handlers \in Seq(Handlers) /\ ioq # <<>> /\ Queues(handlers)
  BY DEF Consumes
<1>2. lag' \in 0..MaxLag
  BY <1>1, Numbers DEF QueueOK, Queues
<1>3. ASSUME NEW n \in 1..Len(ioq'), ioq'[n].op = "timer_start"
      PROVE  ioq'[n].timer \in 1..cur_timer_id'
  <2>1. CASE n \in 1..(Len(ioq) - 1)
    <3>1. ioq'[n] = ioq[n + 1] /\ n + 1 \in 1..Len(ioq)
      BY <1>1, <2>1, QueueAfter
    <3>2. ioq[n + 1].timer \in 1..cur_timer_id
      BY <1>3, <3>1 DEF QueueOK
    <3>3. QED BY <3>1, <3>2 DEF TimersOK
  <2>2. CASE n \notin 1..(Len(ioq) - 1)
    <3> DEFINE k == n - (Len(ioq) - 1)
    <3>1. k \in 1..Len(handlers) /\ n = Len(ioq) - 1 + k
      BY <1>1, <2>2, QueueAfter
    <3>2. ioq'[n] = handlers[k]
      BY <1>1, <3>1, QueueAfter
    <3>3. QED BY <1>3, <3>1, <3>2 DEF Consumes
  <2>3. QED BY <2>1, <2>2
<1>4. QED BY <1>1, <1>2, <1>3, QueueAfter DEF QueueOK

\* Handlers that only queue completions, or nothing.
LEMMA CompletionsConsume ==
  ASSUME NEW handlers \in Seq(Completions), ioq # <<>>, Queues(handlers)
  PROVE  Consumes(handlers)
<1>1. handlers \in Seq(Handlers)
  BY SeqWider, CompletionTypes
<1>2. \A k \in 1..Len(handlers) : handlers[k] \in Completions
  OBVIOUS
<1>3. QED BY <1>1, <1>2, CompletionTypes DEF Consumes

\* A call adds one handler at the end.
LEMMA PostedQueue ==
  ASSUME QueueOK, NEW h \in Handlers, Posted(h),
         h.op # "timer_start", cur_timer_id' = cur_timer_id
  PROVE  /\ QueueOK'
         /\ Len(ioq) \in Nat /\ Len(ioq') = Len(ioq) + 1
         /\ \A n \in 1..Len(ioq) : ioq'[n] = ioq[n]
         /\ ioq'[Len(ioq) + 1] = h
<1>1. ioq \in Seq(Handlers) /\ ioq' = Append(ioq, h) /\ lag' = lag
  BY DEF QueueOK, Posted
<1>2. /\ ioq' \in Seq(Handlers) /\ Len(ioq) \in Nat
      /\ Len(ioq') = Len(ioq) + 1
      /\ \A n \in 1..Len(ioq) : ioq'[n] = ioq[n]
      /\ ioq'[Len(ioq) + 1] = h
  BY <1>1
<1>3. ASSUME NEW n \in 1..Len(ioq'), ioq'[n].op = "timer_start"
      PROVE  ioq'[n].timer \in 1..cur_timer_id'
  BY <1>2, <1>3 DEF QueueOK
<1>4. QED BY <1>1, <1>2, <1>3 DEF QueueOK

-----------------------------------------------------------------------------
(* What handlers write, and what comes of it.                              *)

LEMMA ResentType == ASSUME PacketsOK PROVE Resent \in Seq(Requests)
<1>1. Resent \in Seq((Due \ Exhausted) \intersect (1..MaxSends))
  BY Numbers, AscendingType DEF Resent
<1>2. (Due \ Exhausted) \intersect (1..MaxSends) \subseteq Requests
  BY DEF Requests
<1>3. QED BY <1>1, <1>2, SeqWider

Written == [kind : {"request", "ack"}, id : Requests \union Pushes]
             \union [kind : {"heartbeat"}]

LEMMA OutgoingType ==
  ASSUME PacketsOK, QueueOK, ioq # <<>> PROVE Outgoing \in Seq(Written)
<1> DEFINE h == Head(ioq)
           resent == [n \in 1..Len(Resent) |->
                        [kind |-> "request", id |-> Resent[n]]]
<1>1. h \in Handlers
  BY DEF QueueOK
<1>2. <<>> \in Seq(Written)
  OBVIOUS
<1>3. CASE connect_state # "connected"
  BY <1>2, <1>3 DEF Outgoing
<1>4. CASE connect_state = "connected" /\ h.op = "send"
  <2>1. [kind |-> "request", id |-> h.id] \in Written
    BY <1>1, <1>4, HandlerParts DEF Written
  <2>2. Outgoing = <<[kind |-> "request", id |-> h.id]>>
    BY <1>4 DEF Outgoing
  <2>3. QED BY <2>1, <2>2
<1>5. CASE connect_state = "connected" /\ h.op = "read"
  <2>1. CASE h.packet.kind = "push"
    <3>1. [kind |-> "ack", id |-> h.packet.id] \in Written
      BY <1>1, <1>5, <2>1, HandlerParts DEF Written
    <3>2. Outgoing = <<[kind |-> "ack", id |-> h.packet.id]>>
      BY <1>5, <2>1 DEF Outgoing
    <3>3. QED BY <3>1, <3>2
  <2>2. CASE h.packet.kind # "push"
    BY <1>2, <1>5, <2>2 DEF Outgoing
  <2>3. QED BY <2>1, <2>2
<1>6. CASE connect_state = "connected" /\ h.op = "timer"
  <2>1. resent \in Seq(Written)
    <3>1. Len(Resent) \in Nat /\ \A n \in 1..Len(Resent) : Resent[n] \in Requests
      BY ResentType
    <3>2. QED BY <3>1 DEF Written
  <2>2. Heartbeats \in Seq(Written)
    BY DEF Heartbeats, Written
  <2>3. Outgoing = resent \o Heartbeats \/ Outgoing = <<>>
    BY <1>6 DEF Outgoing
  <2> HIDE DEF resent
  <2>4. resent \o Heartbeats \in Seq(Written)
    BY <2>1, <2>2
  <2>5. QED BY <1>2, <2>3, <2>4
<1>7. CASE connect_state = "connected" /\ h.op \notin {"send", "read", "timer"}
  BY <1>2, <1>7 DEF Outgoing
<1>8. QED BY <1>3, <1>4, <1>5, <1>6, <1>7

LEMMA WritesType ==
  ASSUME PacketsOK, QueueOK, NetOK, ioq # <<>>
  PROVE  WriteErrors \in Seq(Completions) /\ WireAfterWrites \subseteq Requests
<1>1. Len(Outgoing) \in Nat
  BY OutgoingType
<1>2. [n \in 1..Len(Outgoing) |-> [op |-> "write_error"]] \in Seq(Completions)
  BY <1>1 DEF Completions
<1>3. <<>> \in Seq(Completions)
  OBVIOUS
<1>4. WriteErrors \in Seq(Completions)
  BY <1>2, <1>3 DEF WriteErrors
<1>5. WireAfterWrites \subseteq Requests
  BY DEF WireAfterWrites, NetOK
<1>6. QED BY <1>4, <1>5

\* The next read.
LEMMA DoReadPacketType ==
  ASSUME NetOK, NEW connected \in BOOLEAN, NEW pending \in BOOLEAN,
         DoReadPacket(connected, pending)
  PROVE  reading' \in Nat /\ read_pending' \in BOOLEAN
<1>1. CASE connected /\ ~pending
  BY <1>1 DEF DoReadPacket, NetOK
<1>2. CASE ~(connected /\ ~pending)
  <2>1. read_pending' = pending /\ reading' = reading
    BY <1>2 DEF DoReadPacket
  <2>2. QED BY <2>1 DEF NetOK
<1>3. QED BY <1>1, <1>2

\* Closing.
LEMMA DoCloseType ==
  ASSUME FieldsOK, NetOK, DoClose
  PROVE  /\ NetOK' /\ read_pending' \in BOOLEAN
         /\ connect_state' \in {"disconnected", "connecting", "connected"}
<1>1. CASE Closes
  <2>1. /\ connect_state' = "disconnected" /\ read_pending' = FALSE
        /\ socket' = "closed" /\ reading' = 0 /\ on_wire' = {}
    BY <1>1 DEF DoClose
  <2>2. NetOK'
    BY <2>1 DEF NetOK
  <2>3. QED BY <2>1, <2>2
<1>2. CASE ~Closes
  BY <1>2 DEF DoClose, NetOK, FieldsOK
<1>3. QED BY <1>1, <1>2

\* Requests that are gone from write_packets_.
LEMMA WithoutType ==
  ASSUME PacketsOK, NEW ids, write_packets' = Without(ids) PROVE PacketsOK'
<1>1. /\ DOMAIN write_packets' = DOMAIN write_packets \ ids
      /\ \A i \in DOMAIN write_packets' : write_packets'[i] = write_packets[i]
  BY DEF Without
<1>2. QED BY <1>1 DEF PacketsOK

LEMMA WaitedByType ==
  ASSUME HistoryOK, NEW ids PROVE WaitedBy(ids) \in [Requests -> 0..MaxWait]
  BY MaxWaitIsMax DEF HistoryOK, WaitedBy

LEMMA CalledForType ==
  ASSUME HistoryOK, NEW ids PROVE CalledFor(ids) \in [Requests -> Nat]
  BY DEF HistoryOK, CalledFor

-----------------------------------------------------------------------------
(* The parts of the type invariant, one action after the other.            *)

Consuming == \E handlers : Consumes(handlers)

LEMMA ConsumingQueue ==
  ASSUME QueueOK, TimersOK, Consuming,
         cur_timer_id' \in Nat, cur_timer_id <= cur_timer_id'
  PROVE  QueueOK'
  BY ConsumesQueue DEF Consuming

\* Handlers that queue nothing, or only completions.
LEMMA Quiet == ASSUME NEW op, Runs(op), Queues(<<>>) PROVE Consuming
<1>1. <<>> \in Seq(Completions)
  OBVIOUS
<1>2. QED BY <1>1, CompletionsConsume DEF Runs, Consuming

LEMMA Completing ==
  ASSUME NEW op, Runs(op), NEW handlers \in Seq(Completions), Queues(handlers)
  PROVE  Consuming
  BY CompletionsConsume DEF Runs, Consuming

LEMMA RunStartTypes ==
  ASSUME TypeInv, RunStart PROVE TypeInv' /\ Consuming
<1>1. FieldsOK' /\ NetOK' /\ TimersOK'
  <2>1. CASE started
    BY <2>1 DEF TypeInv, RunStart, FieldsOK, NetOK, TimersOK, netVars
  <2>2. CASE ~started
    <3>1. /\ connect_state' = "connecting" /\ last_connect' = 0 /\ started' = TRUE
          /\ socket' = "opening" /\ reading' = 0 /\ on_wire' = {}
          /\ cur_timer_id' = cur_timer_id + 1 /\ check_timer_id' = cur_timer_id'
          /\ UNCHANGED <<read_pending, notifications, cur_send_id, timers>>
      BY <2>2 DEF RunStart, DoConnect
    <3>2. caller' \in [Threads -> {"idle", "waiting", "stopping"}]
      BY DEF TypeInv, FieldsOK, RunStart
    <3>3. last_connect' \in 0..ReconnectInterval
      BY <3>1, Numbers
    <3>4. NetOK' /\ TimersOK'
      BY <3>1 DEF TypeInv, NetOK, TimersOK
    <3>5. QED BY <3>1, <3>2, <3>3, <3>4 DEF TypeInv, FieldsOK
  <2>3. QED BY <2>1, <2>2 DEF TypeInv, FieldsOK
<1>2. PacketsOK' /\ HistoryOK' /\ PushesOK'
  BY DEF TypeInv, RunStart, PacketsOK, HistoryOK, PushesOK, historyVars
<1>3. Consuming
  <2>1. CASE started
    BY <2>1, Quiet DEF RunStart
  <2>2. CASE ~started
    <3> DEFINE timed == <<[op |-> "timer_start", timer |-> cur_timer_id']>>
               handlers == Aborted \o timed
    <3>1. cur_timer_id' \in Nat /\ cur_timer_id' \in 1..cur_timer_id'
      BY <2>2 DEF TypeInv, TimersOK, RunStart
    <3>2. Aborted \in Seq(Handlers)
      BY AbortedType, CompletionTypes, SeqWider DEF TypeInv
    <3>3. /\ timed \in Seq(Handlers) /\ Len(timed) = 1
          /\ timed[1] = [op |-> "timer_start", timer |-> cur_timer_id']
      BY <3>1 DEF Handlers
    <3> HIDE DEF timed
    <3>4. /\ handlers \in Seq(Handlers) /\ Len(handlers) = Len(Aborted) + 1
          /\ \A k \in 1..Len(Aborted) : handlers[k] = Aborted[k]
          /\ handlers[Len(Aborted) + 1] = timed[1]
      BY <3>2, <3>3, Joined
    <3>5. Queues(handlers) /\ ioq # <<>>
      BY <2>2 DEF RunStart, Runs, timed
    <3> HIDE DEF handlers
    <3>6. ASSUME NEW k \in 1..Len(handlers)
          PROVE  /\ handlers[k].op # "send"
                 /\ handlers[k].op = "timer_start" =>
                      handlers[k].timer \in 1..cur_timer_id'
      <4>1. CASE k \in 1..Len(Aborted)
        <5>1. Aborted[k] \in Completions
          BY <4>1, AbortedType DEF TypeInv
        <5>2. QED BY <3>4, <4>1, <5>1, CompletionTypes
      <4>2. CASE k \notin 1..Len(Aborted)
        <5>1. k = Len(Aborted) + 1
          BY <3>2, <3>4, <4>2
        <5>2. QED BY <3>1, <3>3, <3>4, <5>1
      <4>3. QED BY <4>1, <4>2
    <3>7. QED BY <3>4, <3>5, <3>6 DEF Consumes, Consuming
  <2>3. QED BY <2>1, <2>2
<1>4. QueueOK'
  <2>1. cur_timer_id' \in Nat /\ cur_timer_id <= cur_timer_id'
    BY DEF TypeInv, TimersOK, RunStart
  <2>2. QED BY <1>3, <2>1, ConsumingQueue DEF TypeInv
<1>5. QED BY <1>1, <1>2, <1>3, <1>4 DEF TypeInv

LEMMA RunStopTypes ==
  ASSUME TypeInv, RunStop PROVE TypeInv' /\ Consuming
<1>1. NetOK' /\ FieldsOK'
  <2>1. /\ NetOK' /\ read_pending' \in BOOLEAN
        /\ connect_state' \in {"disconnected", "connecting", "connected"}
    BY DoCloseType DEF TypeInv, RunStop
  <2>2. caller' \in [Threads -> {"idle", "waiting", "stopping"}]
    BY DEF TypeInv, FieldsOK, RunStop
  <2>3. last_connect' \in 0..ReconnectInterval
    BY Numbers DEF RunStop
  <2>4. notifications' \subseteq Cmds /\ started' = started /\ cur_send_id' = cur_send_id
    BY DEF RunStop
  <2>5. QED BY <2>1, <2>2, <2>3, <2>4 DEF TypeInv, FieldsOK
<1>2. PacketsOK'
  BY WithoutType DEF TypeInv, RunStop
<1>3. TimersOK'
  BY DEF TypeInv, TimersOK, RunStop, timerVars
<1>4. HistoryOK'
  BY WaitedByType DEF TypeInv, HistoryOK, PacketsOK, RunStop
<1>5. PushesOK'
  BY ForgottenType DEF TypeInv, PushesOK, RunStop
<1>6. Consuming
  <2> DEFINE timed == <<[op |-> "timer_stop", timer |-> check_timer_id]>>
             handlers == timed \o AbortedByClose
  <2>1. /\ timed \in Seq(Handlers) /\ Len(timed) = 1
        /\ timed[1] = [op |-> "timer_stop", timer |-> check_timer_id]
    BY DEF TypeInv, TimersOK, Handlers
  <2>2. AbortedByClose \in Seq(Completions) /\ AbortedByClose \in Seq(Handlers)
    BY AbortedType, CompletionTypes, SeqWider DEF TypeInv
  <2>3. Queues(handlers) /\ ioq # <<>>
    BY DEF RunStop, Runs
  <2> HIDE DEF timed
  <2>4. /\ handlers \in Seq(Handlers)
        /\ Len(handlers) = Len(timed) + Len(AbortedByClose)
        /\ \A k \in 1..Len(timed) : handlers[k] = timed[k]
        /\ \A k \in 1..Len(AbortedByClose) :
             handlers[Len(timed) + k] = AbortedByClose[k]
    <3>1. timed \in Seq(Handlers)
      BY <2>1
    <3>2. AbortedByClose \in Seq(Handlers)
      BY <2>2
    <3>3. QED BY <3>1, <3>2, Joined
  <2> HIDE DEF handlers
  <2>5. ASSUME NEW k \in 1..Len(handlers)
        PROVE  handlers[k].op \notin {"send", "timer_start"}
    <3>1. CASE k = 1
      BY <2>1, <2>4, <3>1
    <3>2. CASE k # 1
      <4>1. k - 1 \in 1..Len(AbortedByClose) /\ Len(timed) + (k - 1) = k
        BY <2>1, <2>2, <2>4, <3>2
      <4>2. handlers[k] = AbortedByClose[k - 1]
        BY <2>4, <4>1
      <4>3. AbortedByClose[k - 1] \in Completions
        BY <2>2, <4>1
      <4>4. QED BY <4>2, <4>3, CompletionTypes
    <3>3. QED BY <3>1, <3>2
  <2>6. QED BY <2>3, <2>4, <2>5 DEF Consumes, Consuming
<1>7. QueueOK'
  <2>1. cur_timer_id' \in Nat /\ cur_timer_id <= cur_timer_id'
    BY DEF TypeInv, TimersOK, RunStop, timerVars
  <2>2. QED BY <1>6, <2>1, ConsumingQueue DEF TypeInv
<1>8. QED BY <1>1, <1>2, <1>3, <1>4, <1>5, <1>6, <1>7 DEF TypeInv

\* The timer's fields are left alone.
LEMMA TimersKept ==
  ASSUME TypeInv, UNCHANGED <<timerVars, check_timer_id>>, Consuming
  PROVE  TimersOK' /\ QueueOK'
<1>1. TimersOK' /\ cur_timer_id' \in Nat /\ cur_timer_id <= cur_timer_id'
  BY DEF TypeInv, TimersOK, timerVars
<1>2. QED BY <1>1, ConsumingQueue DEF TypeInv

LEMMA RunSendTypes ==
  ASSUME TypeInv, RunSend PROVE TypeInv' /\ Consuming
<1>1. FieldsOK' /\ HistoryOK' /\ PushesOK'
  BY DEF TypeInv, RunSend, FieldsOK, HistoryOK, PushesOK, historyVars
<1> DEFINE h == Head(ioq)
<1>2. h.id \in Requests /\ h.opt \in SendOpts /\ ioq # <<>>
  <2>1. h \in Handlers /\ h.op = "send" /\ ioq # <<>>
    BY NextHandler DEF TypeInv, RunSend
  <2>2. QED BY <2>1, HandlerParts
<1>3. NetOK' /\ Consuming
  BY <1>2, WritesType, Completing DEF TypeInv, RunSend, NetOK
<1>4. PacketsOK'
  <2>1. 1 \in 1..Attempts(h.opt) /\ 1 \in Nat /\ 0 \in Nat
    BY <1>2, OptParts
  <2>2. /\ DOMAIN write_packets' = DOMAIN write_packets \union {h.id}
        /\ \A i \in DOMAIN write_packets' :
             write_packets'[i] = IF i = h.id
                                 THEN [opt |-> h.opt, cur_tries |-> 1, since |-> 0]
                                 ELSE write_packets[i]
    BY DEF RunSend
  <2> HIDE DEF h
  <2>3. DOMAIN write_packets' \subseteq Requests
    BY <1>2, <2>2 DEF TypeInv, PacketsOK
  <2>4. ASSUME NEW i \in DOMAIN write_packets'
        PROVE  /\ write_packets'[i] \in [opt : SendOpts, cur_tries : Nat, since : Nat]
               /\ write_packets'[i].cur_tries \in 1..Attempts(write_packets'[i].opt)
    <3>1. CASE i = h.id
      BY <1>2, <2>1, <2>2, <3>1
    <3>2. CASE i # h.id
      BY <2>2, <3>2 DEF TypeInv, PacketsOK
    <3>3. QED BY <3>1, <3>2
  <2>5. QED BY <2>3, <2>4 DEF PacketsOK
<1>5. TimersOK' /\ QueueOK'
  BY <1>3, TimersKept DEF RunSend
<1>6. QED BY <1>1, <1>3, <1>4, <1>5 DEF TypeInv

LEMMA RunCancelTypes ==
  ASSUME TypeInv, RunCancel PROVE TypeInv' /\ Consuming
<1>1. FieldsOK' /\ NetOK' /\ PushesOK'
  BY DEF TypeInv, RunCancel, FieldsOK, NetOK, PushesOK, netVars
<1>2. PacketsOK'
  BY WithoutType DEF TypeInv, RunCancel
<1>3. HistoryOK'
  BY WaitedByType DEF TypeInv, HistoryOK, PacketsOK, RunCancel
<1>4. Consuming
  BY Quiet DEF RunCancel
<1>5. TimersOK' /\ QueueOK'
  BY <1>4, TimersKept DEF RunCancel
<1>6. QED BY <1>1, <1>2, <1>3, <1>4, <1>5 DEF TypeInv

LEMMA RunSubscriptionTypes ==
  ASSUME TypeInv, RunSubscription PROVE TypeInv' /\ Consuming
<1>1. FieldsOK'
  <2>1. notifications' \subseteq Cmds
    <3>1. CASE Runs("subscribe") /\ notifications' = notifications \union {Head(ioq).cmd}
      <4>1. Head(ioq).cmd \in Cmds
        BY <3>1, NextHandler, HandlerParts DEF TypeInv
      <4>2. QED BY <3>1, <4>1 DEF TypeInv, FieldsOK
    <3>2. CASE notifications' = notifications \ {Head(ioq).cmd}
      BY <3>2 DEF TypeInv, FieldsOK
    <3>3. QED BY <3>1, <3>2 DEF RunSubscription
  <2>2. QED BY <2>1 DEF TypeInv, RunSubscription, FieldsOK
<1>2. NetOK' /\ PacketsOK' /\ HistoryOK' /\ PushesOK'
  BY DEF TypeInv, RunSubscription, NetOK, PacketsOK, HistoryOK, PushesOK,
     netVars, historyVars
<1>3. Consuming
  BY Quiet DEF RunSubscription
<1>4. TimersOK' /\ QueueOK'
  BY <1>3, TimersKept DEF RunSubscription
<1>5. QED BY <1>1, <1>2, <1>3, <1>4 DEF TypeInv

LEMMA RunTimerStartTypes ==
  ASSUME TypeInv, RunTimerStart PROVE TypeInv' /\ Consuming
<1>1. /\ FieldsOK' /\ NetOK' /\ PacketsOK' /\ HistoryOK' /\ PushesOK'
  BY DEF TypeInv, RunTimerStart, FieldsOK, NetOK, PacketsOK, HistoryOK,
     PushesOK, clientVars, netVars, historyVars
<1>2. Consuming
  BY Quiet DEF RunTimerStart
<1> DEFINE i == Head(ioq).timer
<1>3. i \in 1..cur_timer_id
  BY NextHandler DEF TypeInv, QueueOK, RunTimerStart
<1>4. TimersOK'
  <2>1. /\ DOMAIN timers' = DOMAIN timers \union {i}
        /\ \A t \in DOMAIN timers' :
             timers'[t] = IF t = i THEN "armed" ELSE timers[t]
        /\ cur_timer_id' = cur_timer_id /\ check_timer_id' = check_timer_id
    BY DEF RunTimerStart, clientVars
  <2> HIDE DEF i
  <2>2. QED BY <1>3, <2>1 DEF TypeInv, TimersOK
<1>5. QueueOK'
  BY <1>2, ConsumingQueue DEF TypeInv, TimersOK, RunTimerStart
<1>6. QED BY <1>1, <1>2, <1>4, <1>5 DEF TypeInv

LEMMA RunTimerStopTypes ==
  ASSUME TypeInv, RunTimerStop PROVE TypeInv' /\ Consuming
<1>1. /\ FieldsOK' /\ NetOK' /\ PacketsOK' /\ HistoryOK' /\ PushesOK'
  BY DEF TypeInv, RunTimerStop, FieldsOK, NetOK, PacketsOK, HistoryOK,
     PushesOK, clientVars, netVars, historyVars
<1>2. Consuming
  BY Quiet DEF RunTimerStop
<1>3. TimersOK'
  <2>1. /\ DOMAIN timers' = DOMAIN timers \ {Head(ioq).timer}
        /\ \A t \in DOMAIN timers' : timers'[t] = timers[t]
        /\ cur_timer_id' = cur_timer_id /\ check_timer_id' = check_timer_id
    BY DEF RunTimerStop, clientVars
  <2>2. QED BY <2>1 DEF TypeInv, TimersOK
<1>4. QueueOK'
  BY <1>2, ConsumingQueue DEF TypeInv, TimersOK, RunTimerStop
<1>5. QED BY <1>1, <1>2, <1>3, <1>4 DEF TypeInv

\* One attempt more.
LEMMA OneMoreTry ==
  ASSUME NEW w \in [opt : SendOpts, cur_tries : Nat, since : Nat], NEW x \in Nat
  PROVE  LET v == [w EXCEPT !.cur_tries = x, !.since = 0] IN
         /\ v \in [opt : SendOpts, cur_tries : Nat, since : Nat]
         /\ v.cur_tries = x /\ v.opt = w.opt /\ v.since = 0
<1> DEFINE v == [w EXCEPT !.cur_tries = x, !.since = 0]
<1>1. v \in [opt : SendOpts, cur_tries : Nat, since : Nat]
  OBVIOUS
<1>2. v.cur_tries = x
  OBVIOUS
<1>3. v.opt = w.opt
  OBVIOUS
<1>4. v.since = 0
  OBVIOUS
<1>5. QED BY <1>1, <1>2, <1>3, <1>4

\* A timer tick leaves of the pending requests those that have attempts left.
LEMMA TickedPackets ==
  ASSUME PacketsOK,
         write_packets' = [i \in DOMAIN write_packets \ Exhausted |->
                             IF i \in Due THEN Retried(i) ELSE write_packets[i]]
  PROVE  PacketsOK'
<1>1. /\ DOMAIN write_packets' = DOMAIN write_packets \ Exhausted
      /\ \A i \in DOMAIN write_packets' :
           write_packets'[i] = IF i \in Due THEN Retried(i) ELSE write_packets[i]
  OBVIOUS
<1>2. ASSUME NEW i \in DOMAIN write_packets'
      PROVE  /\ write_packets'[i] \in [opt : SendOpts, cur_tries : Nat, since : Nat]
             /\ write_packets'[i].cur_tries \in 1..Attempts(write_packets'[i].opt)
  <2> DEFINE w == write_packets[i]
  <2>1. /\ i \in DOMAIN write_packets /\ i \notin Exhausted
        /\ w \in [opt : SendOpts, cur_tries : Nat, since : Nat]
        /\ w.cur_tries \in 1..Attempts(w.opt)
    BY <1>1, <1>2 DEF PacketsOK
  <2>2. w.opt.tries \in Nat /\ Attempts(w.opt) \in Nat
    BY <2>1, OptParts
  <2>3. CASE i \in Due
    <3>1. w.cur_tries < w.opt.tries
      BY <2>1, <2>2, <2>3 DEF Exhausted
    <3>2. w.cur_tries + 1 \in 1..Attempts(w.opt)
      BY <2>1, <2>2, <3>1 DEF Attempts
    <3>3. /\ write_packets'[i] = [w EXCEPT !.cur_tries = w.cur_tries + 1, !.since = 0]
          /\ w.cur_tries + 1 \in Nat
      <4>1. write_packets'[i] = [w EXCEPT !.cur_tries = w.cur_tries + 1, !.since = 0]
        BY <1>1, <1>2, <2>3 DEF Retried
      <4>2. w.cur_tries + 1 \in Nat
        BY <2>1
      <4>3. QED BY <4>1, <4>2
    <3> HIDE DEF w
    <3>4. /\ write_packets'[i] \in [opt : SendOpts, cur_tries : Nat, since : Nat]
          /\ write_packets'[i].cur_tries = w.cur_tries + 1
          /\ write_packets'[i].opt = w.opt
      BY <2>1, <3>3, OneMoreTry
    <3>5. QED BY <3>2, <3>4
  <2>4. CASE i \notin Due
    BY <1>1, <1>2, <2>1, <2>4
  <2>5. QED BY <2>3, <2>4
<1>3. QED BY <1>1, <1>2 DEF PacketsOK

LEMMA RunTimerTypes ==
  ASSUME TypeInv, RunTimer PROVE TypeInv' /\ Consuming
<1> DEFINE i == Head(ioq).timer
<1>1. CASE i \notin DOMAIN timers
  <2>1. Queues(<<>>) /\ UNCHANGED <<clientVars, timers, netVars, historyVars>>
        /\ UNCHANGED <<cur_timer_id, caller>>
    BY <1>1 DEF RunTimer
  <2>2. /\ FieldsOK' /\ NetOK' /\ PacketsOK' /\ HistoryOK' /\ PushesOK'
    BY <2>1 DEF TypeInv, FieldsOK, NetOK, PacketsOK, HistoryOK,
       PushesOK, clientVars, netVars, historyVars
  <2>3. Consuming
    BY <2>1, Quiet DEF RunTimer
  <2>4. TimersOK' /\ QueueOK'
    BY <2>1, <2>3, TimersKept DEF timerVars, clientVars
  <2>5. QED BY <2>2, <2>3, <2>4 DEF TypeInv
<1>2. CASE i \in DOMAIN timers
  <2>1. /\ timers' = Rearmed(i)
        /\ write_packets' =
             [j \in DOMAIN write_packets \ Exhausted |->
                IF j \in Due THEN Retried(j) ELSE write_packets[j]]
        /\ called' = CalledFor(Exhausted)
        /\ waited' = WaitedBy(DOMAIN write_packets \ Exhausted)
        /\ UNCHANGED <<started, read_pending, notifications, cur_send_id,
                       rencently_packet_tracker, check_timer_id, discarded,
                       heard, repeated, cur_timer_id, caller>>
        /\ ioq # <<>>
    BY <1>2 DEF RunTimer, Runs
  <2>2. PacketsOK'
    BY <2>1, TickedPackets DEF TypeInv
  <2>3. HistoryOK' /\ PushesOK'
    BY <2>1, WaitedByType, CalledForType DEF TypeInv, HistoryOK, PushesOK
  <2>4. TimersOK'
    <3>1. /\ DOMAIN timers' = DOMAIN timers
          /\ \A t \in DOMAIN timers' :
               timers'[t] = IF t = i THEN "armed" ELSE timers[t]
      BY <2>1 DEF Rearmed
    <3> HIDE DEF i
    <3>2. QED BY <2>1, <3>1 DEF TypeInv, TimersOK
  <2>5. NetOK' /\ FieldsOK' /\ Consuming
    <3>1. CASE Reconnects
      <4>1. DoConnect /\ Queues(Aborted)
        BY <1>2, <3>1 DEF RunTimer
      <4>2. NetOK'
        BY <4>1 DEF DoConnect, NetOK
      <4>3. /\ connect_state' = "connecting" /\ last_connect' = 0
            /\ 0 \in 0..ReconnectInterval
        BY <4>1, Numbers DEF DoConnect
      <4>4. FieldsOK'
        BY <2>1, <4>3 DEF TypeInv, FieldsOK
      <4>5. Consuming
        BY <4>1, AbortedType, Completing DEF RunTimer, TypeInv
      <4>6. QED BY <4>2, <4>4, <4>5
    <3>2. CASE ~Reconnects
      <4>1. /\ on_wire' = WireAfterWrites /\ Queues(WriteErrors)
            /\ UNCHANGED <<connect_state, last_connect, socket, reading>>
        BY <1>2, <3>2 DEF RunTimer
      <4>2. WriteErrors \in Seq(Completions) /\ WireAfterWrites \subseteq Requests
        BY <2>1, WritesType DEF TypeInv
      <4>3. NetOK' /\ FieldsOK'
        BY <2>1, <4>1, <4>2 DEF TypeInv, NetOK, FieldsOK
      <4>4. Consuming
        BY <4>1, <4>2, Completing DEF RunTimer
      <4>5. QED BY <4>3, <4>4
    <3>3. QED BY <3>1, <3>2
  <2>6. QueueOK'
    BY <2>1, <2>5, ConsumingQueue DEF TypeInv, TimersOK
  <2>7. QED BY <2>2, <2>3, <2>4, <2>5, <2>6 DEF TypeInv
<1>3. QED BY <1>1, <1>2

LEMMA RunConnectTypes ==
  ASSUME TypeInv, RunConnect PROVE TypeInv' /\ Consuming
<1>1. /\ reading' \in Nat /\ read_pending' \in BOOLEAN
      /\ connect_state' \in {"disconnected", "connecting", "connected"}
  <2>1. CASE Head(ioq).ok /\ socket # "closed"
    <3>1. connect_state' = "connected" /\ DoReadPacket(TRUE, read_pending)
      BY <2>1 DEF RunConnect
    <3>2. read_pending \in BOOLEAN /\ NetOK
      BY DEF TypeInv, FieldsOK
    <3>3. QED BY <3>1, <3>2, DoReadPacketType
  <2>2. CASE ~(Head(ioq).ok /\ socket # "closed")
    BY <2>2 DEF RunConnect, AfterFailedConnect, TypeInv, FieldsOK, NetOK
  <2>3. QED BY <2>1, <2>2
<1>2. FieldsOK' /\ NetOK'
  BY <1>1 DEF TypeInv, RunConnect, FieldsOK, NetOK
<1>3. PacketsOK' /\ HistoryOK' /\ PushesOK'
  BY DEF TypeInv, RunConnect, PacketsOK, HistoryOK, PushesOK, historyVars
<1>4. Consuming
  BY Quiet DEF RunConnect
<1>5. TimersOK' /\ QueueOK'
  BY <1>4, TimersKept DEF RunConnect
<1>6. QED BY <1>2, <1>3, <1>4, <1>5 DEF TypeInv

LEMMA RunReadResponseTypes ==
  ASSUME TypeInv, RunReadResponse PROVE TypeInv' /\ Consuming
<1>1. reading' \in Nat /\ read_pending' \in BOOLEAN
  BY DoReadPacketType DEF TypeInv, RunReadResponse
<1>2. FieldsOK' /\ NetOK' /\ PushesOK'
  BY <1>1 DEF TypeInv, RunReadResponse, FieldsOK, NetOK, PushesOK
<1>3. PacketsOK'
  BY WithoutType DEF TypeInv, RunReadResponse
<1>4. HistoryOK'
  BY WaitedByType, CalledForType DEF TypeInv, HistoryOK, RunReadResponse
<1>5. Consuming
  BY Quiet DEF RunReadResponse
<1>6. TimersOK' /\ QueueOK'
  BY <1>5, TimersKept DEF RunReadResponse
<1>7. QED BY <1>2, <1>3, <1>4, <1>5, <1>6 DEF TypeInv

LEMMA RunReadPushTypes ==
  ASSUME TypeInv, RunReadPush PROVE TypeInv' /\ Consuming
<1> DEFINE p == Head(ioq).packet.id
<1>1. p \in Pushes /\ ioq # <<>>
  BY NextHandler, HandlerParts DEF TypeInv, RunReadPush
<1>2. reading' \in Nat /\ read_pending' \in BOOLEAN
  BY DoReadPacketType DEF TypeInv, RunReadPush
<1>3. FieldsOK' /\ NetOK'
  BY <1>2 DEF TypeInv, RunReadPush, FieldsOK, NetOK
<1>4. PushesOK'
  <2>1. /\ rencently_packet_tracker' = Recorded(rencently_packet_tracker, p)
        /\ heard' \in {heard, [heard EXCEPT ![p] = 0]}
        /\ repeated' \in {repeated, repeated \union {p}}
    BY DEF RunReadPush
  <2> HIDE DEF p
  <2>2. rencently_packet_tracker' \in Ages(Pushes)
    BY <1>1, <2>1, RecordedType DEF TypeInv, PushesOK
  <2>3. heard' \in Ages(Pushes)
    BY <1>1, <2>1, Numbers DEF TypeInv, PushesOK, Ages
  <2>4. QED BY <1>1, <2>1, <2>2, <2>3 DEF TypeInv, PushesOK
<1>5. PacketsOK' /\ HistoryOK'
  BY DEF TypeInv, RunReadPush, PacketsOK, HistoryOK
<1>6. Consuming
  BY <1>1, WritesType, Completing DEF TypeInv, RunReadPush
<1>7. TimersOK' /\ QueueOK'
  BY <1>6, TimersKept DEF RunReadPush
<1>8. QED BY <1>3, <1>4, <1>5, <1>6, <1>7 DEF TypeInv

LEMMA RunErrorTypes ==
  ASSUME TypeInv, RunReadError \/ RunWriteError PROVE TypeInv' /\ Consuming
<1>1. /\ NetOK' /\ read_pending' \in BOOLEAN
      /\ connect_state' \in {"disconnected", "connecting", "connected"}
  <2>1. CASE DoClose
    BY <2>1, DoCloseType DEF TypeInv
  <2>2. CASE ~DoClose
    <3>1. read_pending' = FALSE /\ UNCHANGED <<connect_state, netVars>>
      BY <2>2 DEF RunReadError, RunWriteError
    <3>2. QED BY <3>1 DEF TypeInv, FieldsOK, NetOK, netVars
  <2>3. QED BY <2>1, <2>2
<1>2. FieldsOK' /\ PacketsOK' /\ HistoryOK' /\ PushesOK'
  BY <1>1 DEF TypeInv, RunReadError, RunWriteError, FieldsOK, PacketsOK,
     HistoryOK, PushesOK, historyVars
<1>3. Consuming
  BY AbortedType, Completing DEF TypeInv, RunReadError, RunWriteError
<1>4. TimersOK' /\ QueueOK'
  BY <1>3, TimersKept DEF RunReadError, RunWriteError
<1>5. QED BY <1>1, <1>2, <1>3, <1>4 DEF TypeInv

\* Every handler keeps the types, and queues no request.
LEMMA HandlerTypes ==
  ASSUME TypeInv, RunHandler PROVE TypeInv' /\ Consuming
BY RunStartTypes, RunStopTypes, RunSendTypes, RunCancelTypes,
   RunSubscriptionTypes, RunTimerStartTypes, RunTimerStopTypes, RunTimerTypes,
   RunConnectTypes, RunReadResponseTypes, RunReadPushTypes, RunErrorTypes
   DEF RunHandler

\* What an API call may do to the queue: it adds one handler, or none.
Posting(h) == Posted(h) /\ h \in Handlers /\ h.op # "timer_start"

LEMMA PostingQueue ==
  ASSUME TypeInv, NEW h, Posting(h), cur_timer_id' = cur_timer_id
  PROVE  QueueOK'
  BY PostedQueue DEF TypeInv, Posting

LEMMA CallTypes ==
  ASSUME TypeInv, NEW t \in Threads,
         CallStart(t) \/ PostStop(t)
           \/ (\E i \in Requests : SendCancel(t, i))
           \/ (\E cmd \in Cmds : SubscribeNotification(t, cmd)
                                   \/ UnsubscribeNotification(t, cmd))
  PROVE  TypeInv' /\ \E h : Posting(h) /\ h.op # "send"
<1>1. /\ UNCHANGED <<clientVars, timerVars, netVars, historyVars>>
      /\ caller' \in [Threads -> {"idle", "waiting", "stopping"}]
  BY DEF CallStart, PostStop, SendCancel, SubscribeNotification,
     UnsubscribeNotification, TypeInv, FieldsOK
<1>2. /\ FieldsOK' /\ NetOK' /\ PacketsOK' /\ TimersOK' /\ HistoryOK' /\ PushesOK'
      /\ cur_timer_id' = cur_timer_id
  BY <1>1 DEF TypeInv, FieldsOK, NetOK, PacketsOK, TimersOK, HistoryOK,
     PushesOK, clientVars, timerVars, netVars, historyVars
<1>3. \E h : Posting(h) /\ h.op # "send"
  <2>1. CASE CallStart(t)
    <3>1. Posting([op |-> "start", thread |-> t])
      BY <2>1 DEF Posting, Handlers, CallStart
    <3>2. QED BY <3>1
  <2>2. CASE PostStop(t)
    <3>1. Posting([op |-> "stop", thread |-> t])
      BY <2>2 DEF Posting, Handlers, PostStop
    <3>2. QED BY <3>1
  <2>3. ASSUME NEW i \in Requests, SendCancel(t, i)
        PROVE  \E h : Posting(h) /\ h.op # "send"
    <3>1. Posting([op |-> "cancel", id |-> i])
      BY <2>3 DEF Posting, Handlers, SendCancel
    <3>2. QED BY <3>1
  <2>4. ASSUME NEW cmd \in Cmds, SubscribeNotification(t, cmd)
        PROVE  \E h : Posting(h) /\ h.op # "send"
    <3>1. Posting([op |-> "subscribe", cmd |-> cmd])
      BY <2>4 DEF Posting, Handlers, SubscribeNotification
    <3>2. QED BY <3>1
  <2>5. ASSUME NEW cmd \in Cmds, UnsubscribeNotification(t, cmd)
        PROVE  \E h : Posting(h) /\ h.op # "send"
    <3>1. Posting([op |-> "unsubscribe", cmd |-> cmd])
      BY <2>5 DEF Posting, Handlers, UnsubscribeNotification
    <3>2. QED BY <3>1
  <2>6. QED BY <2>1, <2>2, <2>3, <2>4, <2>5
<1>4. QueueOK'
  BY <1>2, <1>3, PostingQueue
<1>5. QED BY <1>2, <1>3, <1>4 DEF TypeInv

LEMMA CallStopTypes ==
  ASSUME TypeInv, NEW t \in Threads, CallStop(t) PROVE TypeInv'
<1>1. FieldsOK'
  BY DEF TypeInv, FieldsOK, CallStop
<1>2. /\ NetOK' /\ PacketsOK' /\ TimersOK' /\ HistoryOK' /\ PushesOK'
  BY DEF TypeInv, CallStop, NetOK, PacketsOK, TimersOK, HistoryOK,
     PushesOK, timerVars, netVars, historyVars
<1>3. QueueOK'
  BY DEF TypeInv, QueueOK, CallStop, timerVars, queueVars
<1>4. QED BY <1>1, <1>2, <1>3 DEF TypeInv

LEMMA SendTypes ==
  ASSUME TypeInv, NEW t \in Threads, NEW opt \in SendOpts, SendReqAsync(t, opt)
  PROVE  /\ TypeInv' /\ cur_send_id' = cur_send_id + 1 /\ cur_send_id' \in Requests
         /\ Posting([op |-> "send", id |-> cur_send_id', opt |-> opt])
<1>1. /\ cur_send_id' = cur_send_id + 1 /\ cur_send_id' \in Requests
      /\ cur_send_id' \in 0..MaxSends
  BY Numbers DEF TypeInv, FieldsOK, SendReqAsync, Requests
<1>2. FieldsOK'
  BY <1>1 DEF TypeInv, FieldsOK, SendReqAsync
<1>3. /\ NetOK' /\ PacketsOK' /\ TimersOK' /\ HistoryOK' /\ PushesOK'
      /\ cur_timer_id' = cur_timer_id
  BY DEF TypeInv, SendReqAsync, NetOK, PacketsOK, TimersOK, HistoryOK,
     PushesOK, timerVars, netVars, historyVars
<1>4. Posting([op |-> "send", id |-> cur_send_id', opt |-> opt])
  BY <1>1 DEF Posting, Handlers, SendReqAsync
<1>5. QueueOK'
  BY <1>3, <1>4, PostingQueue
<1>6. QED BY <1>1, <1>2, <1>3, <1>4, <1>5 DEF TypeInv

\* What the network does is seen by the client in its handlers.
Delivers ==
    /\ UNCHANGED <<clientVars, timerVars, on_wire, caller, historyVars>>
    /\ socket' \in {"closed", "opening", "up", "down"} /\ reading' \in Nat
    /\ \/ UNCHANGED queueVars
       \/ \E h : Posting(h) /\ h.op \in {"connect", "read", "read_error"}

LEMMA NetworkTypes ==
  ASSUME TypeInv, Network PROVE TypeInv' /\ Delivers
<1>1. Delivers
  <2>1. ASSUME NEW ok \in BOOLEAN, ConnectDone(ok) PROVE Delivers
    <3>1. Posting([op |-> "connect", ok |-> ok])
      BY <2>1 DEF ConnectDone, Posting, Handlers
    <3>2. QED BY <2>1, <3>1 DEF ConnectDone, Delivers, TypeInv, NetOK
  <2>2. CASE LinkBreaks
    BY <2>2 DEF LinkBreaks, Delivers, TypeInv, NetOK
  <2>3. ASSUME NEW packet, ReadReady(packet),
               \/ \E i \in Requests : packet = Response(i)
               \/ \E p \in Pushes : packet = Push(p)
        PROVE  Delivers
    <3>1. Posting([op |-> "read", packet |-> packet])
      BY <2>3 DEF ReadReady, Posting, Handlers, Response, Push
    <3>2. reading - 1 \in Nat
      BY <2>3 DEF ReadReady, TypeInv, NetOK
    <3>3. QED BY <2>3, <3>1, <3>2 DEF ReadReady, Delivers, TypeInv, NetOK
  <2>4. CASE ReadFails
    <3>1. Posting([op |-> "read_error"])
      BY <2>4 DEF ReadFails, Posting, Handlers
    <3>2. reading - 1 \in Nat
      BY <2>4 DEF ReadFails, TypeInv, NetOK
    <3>3. QED BY <2>4, <3>1, <3>2 DEF ReadFails, Delivers, TypeInv, NetOK
  <2>5. CASE \E i \in on_wire : ReadReady(Response(i))
    BY <2>3, <2>5 DEF TypeInv, NetOK
  <2>6. CASE \E p \in Pushes : ReadReady(Push(p))
    BY <2>3, <2>6
  <2>7. CASE \E ok \in BOOLEAN : ConnectDone(ok)
    BY <2>1, <2>7
  <2>8. QED BY <2>2, <2>4, <2>5, <2>6, <2>7 DEF Network
<1>2. /\ FieldsOK' /\ NetOK' /\ PacketsOK' /\ TimersOK' /\ HistoryOK' /\ PushesOK'
      /\ cur_timer_id' = cur_timer_id
  BY <1>1 DEF Delivers, TypeInv, FieldsOK, NetOK, PacketsOK, TimersOK, HistoryOK,
     PushesOK, clientVars, timerVars, historyVars
<1>3. QueueOK'
  <2>1. CASE UNCHANGED queueVars
    BY <1>2, <2>1 DEF TypeInv, QueueOK, queueVars
  <2>2. CASE \E h : Posting(h)
    BY <1>2, <2>2, PostingQueue
  <2>3. QED BY <1>1, <2>1, <2>2 DEF Delivers
<1>4. QED BY <1>1, <1>2, <1>3 DEF TypeInv

\* What the timers queue.
Expirations == [op : {"timer"}, timer : Nat]

LEMMA ExpirationTypes ==
  Expirations \subseteq Handlers /\ \A h \in Expirations : h.op = "timer"
  BY DEF Expirations, Handlers

\* The timers that expire in a second are queued in the order of their ids.
LEMMA SecondQueue ==
  ASSUME TypeInv, Second
  PROVE  \E handlers \in Seq(Expirations) :
           ioq' = ioq \o handlers
<1> DEFINE expired == Ascending({ t \in DOMAIN timers : timers[t] = "armed" },
                                cur_timer_id)
           handlers == [n \in 1..Len(expired) |->
                          [op |-> "timer", timer |-> expired[n]]]
<1>1. ioq' = ioq \o handlers
  BY DEF Second
<1>2. /\ expired \in Seq({ t \in DOMAIN timers : timers[t] = "armed" }
                           \intersect (1..cur_timer_id))
  BY AscendingType DEF TypeInv, TimersOK
<1>3. Len(expired) \in Nat /\ \A n \in 1..Len(expired) : expired[n] \in 1..cur_timer_id
  BY <1>2
<1>4. Len(expired) \in Nat /\ \A n \in 1..Len(expired) : expired[n] \in Nat
  BY <1>3 DEF TypeInv, TimersOK
<1> HIDE DEF expired
<1>5. handlers \in Seq(Expirations)
  BY <1>4 DEF Expirations
<1>6. QED BY <1>1, <1>5

LEMMA SecondTypes ==
  ASSUME TypeInv, Second PROVE TypeInv'
<1>1. FieldsOK'
  BY Numbers, CappedType DEF TypeInv, FieldsOK, Second
<1>2. NetOK' /\ TimersOK'
  BY DEF TypeInv, NetOK, TimersOK, Second, netVars
<1>3. PushesOK'
  BY AgedType DEF TypeInv, PushesOK, Second
<1>4. HistoryOK'
  <2>1. ASSUME NEW i \in Requests
        PROVE  /\ Capped(waited[i], MaxWait) \in 0..MaxWait /\ 0 \in 0..MaxWait
    BY MaxWaitIsMax, CappedType DEF TypeInv, HistoryOK
  <2>2. waited' \in [Requests -> 0..MaxWait]
    BY <2>1 DEF Second
  <2>3. QED BY <2>2 DEF TypeInv, HistoryOK, Second
<1>5. PacketsOK'
  <2>1. /\ DOMAIN write_packets' = DOMAIN write_packets
        /\ \A i \in DOMAIN write_packets' :
             write_packets'[i] =
               [write_packets[i] EXCEPT
                  !.since = Capped(@, write_packets[i].opt.interval_seconds)]
    BY DEF Second
  <2>2. ASSUME NEW i \in DOMAIN write_packets'
        PROVE  /\ write_packets'[i] \in [opt : SendOpts, cur_tries : Nat, since : Nat]
               /\ write_packets'[i].cur_tries \in 1..Attempts(write_packets'[i].opt)
    <3> DEFINE w == write_packets[i]
               since == Capped(w.since, w.opt.interval_seconds)
    <3>1. /\ w \in [opt : SendOpts, cur_tries : Nat, since : Nat]
          /\ w.cur_tries \in 1..Attempts(w.opt)
      BY <2>1, <2>2 DEF TypeInv, PacketsOK
    <3>2. since \in Nat
      BY <3>1, OptParts DEF Capped
    <3>3. write_packets'[i] = [w EXCEPT !.since = since]
      BY <2>1, <2>2
    <3> HIDE DEF w, since
    <3>4. /\ write_packets'[i] \in [opt : SendOpts, cur_tries : Nat, since : Nat]
          /\ write_packets'[i].cur_tries = w.cur_tries
          /\ write_packets'[i].opt = w.opt
      BY <3>1, <3>2, <3>3
    <3>5. QED BY <3>1, <3>4
  <2>3. QED BY <2>1, <2>2 DEF TypeInv, PacketsOK
<1>6. QueueOK'
  <2>1. PICK handlers \in Seq(Expirations) :
          ioq' = ioq \o handlers
    BY SecondQueue
  <2>2. handlers \in Seq(Handlers)
    BY ExpirationTypes, SeqWider
  <2>3. ioq \in Seq(Handlers)
    BY DEF TypeInv, QueueOK
  <2>4. /\ ioq' \in Seq(Handlers) /\ Len(ioq') = Len(ioq) + Len(handlers)
        /\ \A n \in 1..Len(ioq) : ioq'[n] = ioq[n]
        /\ \A k \in 1..Len(handlers) : ioq'[Len(ioq) + k] = handlers[k]
    BY <2>1, <2>2, <2>3, Joined
  <2>5. lag' \in 0..MaxLag
    BY Numbers DEF TypeInv, QueueOK, Second, AnyLag
  <2>6. ASSUME NEW n \in 1..Len(ioq'), ioq'[n].op = "timer_start"
        PROVE  ioq'[n].timer \in 1..cur_timer_id'
    <3>1. CASE n \in 1..Len(ioq)
      BY <2>4, <2>6, <3>1 DEF TypeInv, QueueOK, Second
    <3>2. CASE n \notin 1..Len(ioq)
      <4>1. n - Len(ioq) \in 1..Len(handlers) /\ Len(ioq) + (n - Len(ioq)) = n
        BY <2>2, <2>3, <2>4, <3>2
      <4>2. ioq'[n] = handlers[n - Len(ioq)]
        BY <2>4, <4>1
      <4>3. handlers[n - Len(ioq)] \in Expirations
        <5>1. \A k \in 1..Len(handlers) : handlers[k] \in Expirations
          OBVIOUS
        <5>2. QED BY <4>1, <5>1
      <4>4. QED BY <2>6, <4>2, <4>3, ExpirationTypes
    <3>3. QED BY <3>1, <3>2
  <2>7. QED BY <2>4, <2>5, <2>6 DEF QueueOK
<1>7. QED BY <1>1, <1>2, <1>3, <1>4, <1>5, <1>6 DEF TypeInv

-----------------------------------------------------------------------------
LEMMA InitTypes == Init => TypeInv
<1> SUFFICES ASSUME Init PROVE TypeInv
  OBVIOUS
<1>1. FieldsOK /\ NetOK /\ TimersOK
  <2>1. ReconnectInterval \in 0..ReconnectInterval /\ 0 \in 0..MaxSends
    BY Numbers
  <2>2. [t \in Threads |-> "idle"] \in [Threads -> {"idle", "waiting", "stopping"}]
    OBVIOUS
  <2>3. FieldsOK
    BY <2>1, <2>2 DEF Init, FieldsOK
  <2>4. NetOK
    BY DEF Init, NetOK
  <2>5. TimersOK
    BY DEF Init, TimersOK
  <2>6. QED BY <2>3, <2>4, <2>5
<1>2. PacketsOK
  BY DEF Init, PacketsOK
<1>3. HistoryOK
  BY MaxWaitIsMax DEF Init, HistoryOK
<1>4. PushesOK
  BY ForgottenType DEF Init, PushesOK
<1>5. QueueOK
  BY Numbers DEF Init, QueueOK
<1>6. QED BY <1>1, <1>2, <1>3, <1>4, <1>5 DEF TypeInv

LEMMA NextTypes == TypeInv /\ [Next]_vars => TypeInv'
<1> SUFFICES ASSUME TypeInv, [Next]_vars PROVE TypeInv'
  OBVIOUS
<1>1. CASE CallAPI
  <2>1. PICK t \in Threads :
          \/ CallStart(t) \/ CallStop(t) \/ PostStop(t)
          \/ \E opt \in SendOpts : SendReqAsync(t, opt)
          \/ \E i \in Requests : SendCancel(t, i)
          \/ \E cmd \in Cmds : SubscribeNotification(t, cmd)
                                 \/ UnsubscribeNotification(t, cmd)
    BY <1>1 DEF CallAPI
  <2>2. QED BY <2>1, CallTypes, CallStopTypes, SendTypes
<1>2. CASE RunHandler
  BY <1>2, HandlerTypes
<1>3. CASE Second
  BY <1>3, SecondTypes
<1>4. CASE Network
  BY <1>4, NetworkTypes
<1>5. CASE UNCHANGED vars
  BY <1>5 DEF vars, clientVars, timerVars, netVars, queueVars, historyVars,
     TypeInv, FieldsOK, NetOK, PacketsOK, TimersOK, QueueOK, HistoryOK, PushesOK
<1>6. QED BY <1>1, <1>2, <1>3, <1>4, <1>5 DEF Next

\* TypeInv holds, and with it TypeOK: no handler finds a queue, a map or a
\* timer it does not expect, however many threads call the client.
THEOREM ClientTypeOK == Spec => []TypeOK
<1>1. TypeInv /\ [Next]_vars => TypeInv'
  BY NextTypes
<1>2. QED BY <1>1, InitTypes, TypeInvIsTypeOK, PTL DEF Spec

-----------------------------------------------------------------------------
(* What was in the queue stays there, in its order, but for the handler    *)
(* that runs.                                                              *)

LEMMA StillQueued ==
  ASSUME TypeInv, Consuming, NEW n \in 1..Len(ioq), n # 1
  PROVE  n - 1 \in 1..Len(ioq') /\ ioq'[n - 1] = ioq[n]
<1>1. PICK handlers \in Seq(Handlers) : ioq # <<>> /\ Queues(handlers)
  BY DEF Consuming, Consumes
<1>2. /\ Len(ioq) \in Nat \ {0} /\ Len(handlers) \in Nat
      /\ Len(ioq') = Len(ioq) - 1 + Len(handlers)
      /\ \A m \in 1..(Len(ioq) - 1) : ioq'[m] = ioq[m + 1]
  BY <1>1, QueueAfter DEF TypeInv
<1>3. n - 1 \in 1..(Len(ioq) - 1) /\ (n - 1) + 1 = n
  BY <1>2
<1>4. QED BY <1>2, <1>3

LEMMA PostedBehind ==
  ASSUME TypeInv, NEW h, Posting(h)
  PROVE  /\ Len(ioq) \in Nat /\ Len(ioq') = Len(ioq) + 1
         /\ \A n \in 1..Len(ioq) : ioq'[n] = ioq[n]
         /\ ioq'[Len(ioq) + 1] = h
<1>1. ioq \in Seq(Handlers) /\ h \in Handlers /\ ioq' = Append(ioq, h)
  BY DEF TypeInv, QueueOK, Posting, Posted
<1>2. QED BY <1>1

LEMMA SecondBehind ==
  ASSUME TypeInv, Second
  PROVE  /\ Len(ioq) \in Nat /\ Len(ioq') \in Nat /\ Len(ioq) <= Len(ioq')
         /\ \A n \in 1..Len(ioq) : ioq'[n] = ioq[n]
         /\ \A n \in 1..Len(ioq') : n \notin 1..Len(ioq) => ioq'[n].op = "timer"
<1>1. PICK handlers \in Seq(Expirations) : ioq' = ioq \o handlers
  BY SecondQueue
<1>2. handlers \in Seq(Handlers)
  BY ExpirationTypes, SeqWider
<1>3. ioq \in Seq(Handlers)
  BY DEF TypeInv, QueueOK
<1>4. /\ Len(ioq') = Len(ioq) + Len(handlers)
      /\ Len(ioq) \in Nat /\ Len(handlers) \in Nat
      /\ \A n \in 1..Len(ioq) : ioq'[n] = ioq[n]
      /\ \A k \in 1..Len(handlers) : ioq'[Len(ioq) + k] = handlers[k]
  BY <1>1, <1>2, <1>3, Joined
<1>5. ASSUME NEW n \in 1..Len(ioq'), n \notin 1..Len(ioq)
      PROVE  ioq'[n].op = "timer"
  <2>1. n - Len(ioq) \in 1..Len(handlers) /\ Len(ioq) + (n - Len(ioq)) = n
    BY <1>4, <1>5
  <2>2. \A k \in 1..Len(handlers) : handlers[k] \in Expirations
    OBVIOUS
  <2>3. ioq'[n] \in Expirations
    BY <1>4, <2>1, <2>2
  <2>4. QED BY <2>3, ExpirationTypes
<1>6. QED BY <1>4, <1>5

\* A handler of a kind waits.
Waits(ops) == \E n \in 1..Len(ioq) : ioq[n].op \in ops

LEMMA WaitsIsQueued ==
  /\ \A op : Waits({op}) <=> Queued(op) # {}
  /\ \A op, also : Waits({op, also}) <=> Queued(op) \union Queued(also) # {}
  BY DEF Waits, Queued

LEMMA HandlerWaits ==
  ASSUME TypeInv, Consuming, NEW ops, Waits(ops), Head(ioq).op \notin ops
  PROVE  Waits(ops)'
<1>1. PICK n \in 1..Len(ioq) : ioq[n].op \in ops
  BY DEF Waits
<1>2. n # 1
  BY <1>1 DEF Consuming, Consumes, TypeInv, QueueOK
<1>3. n - 1 \in 1..Len(ioq') /\ ioq'[n - 1] = ioq[n]
  BY <1>2, StillQueued
<1>4. QED BY <1>1, <1>3 DEF Waits

LEMMA PostingWaits ==
  ASSUME TypeInv, NEW h, Posting(h), NEW ops, Waits(ops) \/ h.op \in ops
  PROVE  Waits(ops)'
  BY PostedBehind DEF Waits

LEMMA SecondWaits ==
  ASSUME TypeInv, Second, NEW ops, Waits(ops) PROVE Waits(ops)'
<1>1. PICK n \in 1..Len(ioq) : ioq[n].op \in ops
  BY DEF Waits
<1>2. n \in 1..Len(ioq') /\ ioq'[n] = ioq[n]
  BY SecondBehind
<1>3. QED BY <1>1, <1>2 DEF Waits

\* An API call, as the queue and the connection see it.
Calling ==
    /\ UNCHANGED <<connect_state, read_pending, socket, reading>>
    /\ UNCHANGED ioq \/ \E h : Posting(h)

LEMMA CallAPICalls ==
  ASSUME TypeInv, CallAPI PROVE Calling
<1>1. UNCHANGED <<connect_state, read_pending, socket, reading>>
  BY DEF CallAPI, CallStart, CallStop, PostStop, SendReqAsync, SendCancel,
     SubscribeNotification, UnsubscribeNotification, clientVars, netVars
<1>2. UNCHANGED ioq \/ \E h : Posting(h)
  <2>1. PICK t \in Threads :
          \/ CallStart(t) \/ CallStop(t) \/ PostStop(t)
          \/ \E opt \in SendOpts : SendReqAsync(t, opt)
          \/ \E i \in Requests : SendCancel(t, i)
          \/ \E cmd \in Cmds : SubscribeNotification(t, cmd)
                                 \/ UnsubscribeNotification(t, cmd)
    BY DEF CallAPI
  <2>2. CASE CallStop(t)
    BY <2>2 DEF CallStop, queueVars
  <2>3. CASE ~CallStop(t)
    BY <2>1, <2>3, CallTypes, SendTypes
  <2>4. QED BY <2>2, <2>3
<1>3. QED BY <1>1, <1>2 DEF Calling

-----------------------------------------------------------------------------
(* A client that is connecting has an attempt under way.                   *)

UnderWay == connect_state = "connecting" => socket = "opening" \/ Waits({"connect"})

LEMMA HandlersKeepUnderWay ==
  ASSUME TypeInv, UnderWay, RunHandler PROVE UnderWay'
<1>1. \/ connect_state' # "connecting" \/ socket' = "opening"
      \/ UNCHANGED <<connect_state, socket>> /\ Head(ioq).op # "connect"
  <2>1. CASE DoClose
    BY <2>1 DEF DoClose, Closes
  <2>2. CASE DoConnect
    BY <2>2 DEF DoConnect
  <2>3. CASE RunConnect
    BY <2>3 DEF RunConnect, AfterFailedConnect
  <2>4. CASE ~DoClose /\ ~DoConnect /\ ~RunConnect
    BY <2>4 DEF RunHandler, Runs, RunStart, RunStop, RunSend, RunCancel,
       RunSubscription, RunTimerStart, RunTimerStop, RunTimer, RunReadResponse,
       RunReadPush, RunReadError, RunWriteError, clientVars, netVars
  <2>5. QED BY <2>1, <2>2, <2>3, <2>4
<1>2. Waits({"connect"}) /\ Head(ioq).op # "connect" => Waits({"connect"})'
  BY HandlerTypes, HandlerWaits
<1>3. QED BY <1>1, <1>2 DEF UnderWay

LEMMA NextUnderWay ==
  ASSUME TypeInv, UnderWay, [Next]_vars PROVE UnderWay'
<1>1. CASE CallAPI
  <2>1. Calling
    BY <1>1, CallAPICalls
  <2>2. Waits({"connect"}) => Waits({"connect"})'
    BY <2>1, PostingWaits DEF Calling, Waits
  <2>3. QED BY <2>1, <2>2 DEF Calling, UnderWay
<1>2. CASE RunHandler
  BY <1>2, HandlersKeepUnderWay
<1>3. CASE Second
  BY <1>3, SecondWaits DEF Second, netVars, UnderWay
<1>4. CASE Network
  <2>1. Delivers
    BY <1>4, NetworkTypes
  <2>2. Waits({"connect"}) => Waits({"connect"})'
    BY <2>1, PostingWaits DEF Delivers, queueVars, Waits
  <2>3. connect_state' = connect_state
    BY <2>1 DEF Delivers, clientVars
  <2>4. CASE \E ok \in BOOLEAN : ConnectDone(ok)
    <3>1. PICK ok \in BOOLEAN : ConnectDone(ok)
      BY <2>4
    <3>2. Posting([op |-> "connect", ok |-> ok])
      BY <3>1 DEF ConnectDone, Posting, Handlers
    <3>3. [op |-> "connect", ok |-> ok].op \in {"connect"}
      OBVIOUS
    <3>4. Waits({"connect"})'
      BY <3>2, <3>3, PostingWaits
    <3>5. QED BY <3>4 DEF UnderWay
  <2>5. CASE LinkBreaks
    BY <2>2, <2>3, <2>5 DEF LinkBreaks, UnderWay
  <2>6. CASE ReadFails \/ \E packet : ReadReady(packet)
    BY <2>2, <2>3, <2>6 DEF ReadReady, ReadFails, UnderWay
  <2>7. QED BY <1>4, <2>4, <2>5, <2>6 DEF Network
<1>5. CASE UNCHANGED vars
  BY <1>5 DEF vars, clientVars, netVars, queueVars, UnderWay, Waits
<1>6. QED BY <1>1, <1>2, <1>3, <1>4, <1>5 DEF Next

\* No step leaves a client connecting with nothing to end that: neither a
\* close that races with the attempt nor a connect that is repeated.
THEOREM ClientConnects == Spec => []ConnectingIsUnderWay
<1>1. Init => TypeInv /\ UnderWay
  BY InitTypes DEF Init, UnderWay
<1>2. TypeInv /\ UnderWay /\ [Next]_vars => (TypeInv /\ UnderWay)'
  BY NextTypes, NextUnderWay
<1>3. UnderWay => ConnectingIsUnderWay
  BY WaitsIsQueued DEF UnderWay, ConnectingIsUnderWay
<1>4. QED BY <1>1, <1>2, <1>3, PTL DEF Spec

-----------------------------------------------------------------------------
(* A connected client is reading.  do_read_packet() starts no read while   *)
(* read_pending_ is set, so that the flag must never outlive its read,     *)
(* also where do_connect() opens the socket anew and leaves the flag as it *)
(* was: the read that is aborted is still to report.                       *)

ReadUnderWay == reading > 0 \/ Waits({"read", "read_error"})

Hears == connect_state = "connected" \/ read_pending => ReadUnderWay

\* Closing the socket, or opening it anew, completes each read.
LEMMA AbortedReads ==
  ASSUME TypeInv, Consuming, NEW more \in Seq(Handlers), Queues(Aborted \o more),
         reading > 0
  PROVE  Waits({"read", "read_error"})'
<1> DEFINE reads == [n \in 1..reading |-> [op |-> "read_error"]]
           connect == IF socket = "opening"
                      THEN <<[op |-> "connect", ok |-> FALSE]>> ELSE <<>>
<1>1. Aborted = connect \o reads
  BY DEF Aborted
<1>2. Aborted \in Seq(Handlers)
  BY AbortedType, CompletionTypes, SeqWider DEF TypeInv
<1>3. reads \in Seq(Handlers) /\ Len(reads) = reading /\ reads[1].op = "read_error"
  BY DEF TypeInv, NetOK, Handlers
<1>4. connect \in Seq(Handlers)
  <2>1. [op |-> "connect", ok |-> FALSE] \in Handlers
    BY DEF Handlers
  <2>2. <<>> \in Seq(Handlers)
    OBVIOUS
  <2>3. QED BY <2>1, <2>2
<1> HIDE DEF reads, connect
<1>5. \E k \in 1..Len(Aborted) : Aborted[k].op = "read_error"
  <2>1. /\ Len(Aborted) = Len(connect) + Len(reads) /\ Len(connect) \in Nat
        /\ \A k \in 1..Len(reads) : Aborted[Len(connect) + k] = reads[k]
    <3>1. reads \in Seq(Handlers)
      BY <1>3
    <3>2. QED BY <1>1, <1>4, <3>1, Joined
  <2>2. 1 \in 1..Len(reads) /\ Len(connect) + 1 \in 1..Len(Aborted)
    BY <1>3, <2>1 DEF TypeInv, NetOK
  <2>3. QED BY <1>3, <2>1, <2>2
<1>6. PICK k \in 1..Len(Aborted) : Aborted[k].op = "read_error"
  BY <1>5
<1> DEFINE queued == Aborted \o more
<1>7. /\ queued \in Seq(Handlers) /\ Len(queued) = Len(Aborted) + Len(more)
      /\ k \in 1..Len(queued) /\ queued[k] = Aborted[k]
  BY <1>2, Joined
<1>8. ioq # <<>> /\ Queues(queued)
  BY DEF Consuming, Consumes
<1> HIDE DEF queued
<1>9. /\ Len(ioq) \in Nat \ {0} /\ Len(queued) \in Nat
      /\ Len(ioq') = Len(ioq) - 1 + Len(queued)
      /\ \A m \in 1..Len(queued) : ioq'[Len(ioq) - 1 + m] = queued[m]
  BY <1>7, <1>8, QueueAfter DEF TypeInv
<1>10. Len(ioq) - 1 + k \in 1..Len(ioq') /\ ioq'[Len(ioq) - 1 + k].op = "read_error"
  BY <1>6, <1>7, <1>9
<1>11. QED BY <1>10 DEF Waits

LEMMA AbortedReadsAlone ==
  ASSUME TypeInv, Consuming, Queues(Aborted), reading > 0
  PROVE  Waits({"read", "read_error"})'
<1>1. Aborted \in Seq(Handlers)
  BY AbortedType, CompletionTypes, SeqWider DEF TypeInv
<1>2. <<>> \in Seq(Handlers) /\ Aborted \o <<>> = Aborted
  BY <1>1
<1>3. QED BY <1>2, AbortedReads

\* Opening the socket leaves the reads to the queue.
LEMMA ConnectingHears ==
  ASSUME TypeInv, Consuming, Hears, DoConnect, UNCHANGED read_pending,
         Queues(Aborted) \/ \E more \in Seq(Handlers) : Queues(Aborted \o more),
         Head(ioq).op \notin {"read", "read_error"}
  PROVE  Hears'
<1>1. connect_state' = "connecting"
  BY DEF DoConnect
<1>2. ReadUnderWay => Waits({"read", "read_error"})'
  BY AbortedReads, AbortedReadsAlone, HandlerWaits DEF ReadUnderWay
<1>3. QED BY <1>1, <1>2 DEF Hears, ReadUnderWay

\* Handlers that read nothing and leave the connection alone.
LEMMA OthersHear ==
  ASSUME TypeInv, Consuming, Hears,
         UNCHANGED <<connect_state, read_pending, reading>>,
         Head(ioq).op \notin {"read", "read_error"}
  PROVE  Hears'
  BY HandlerWaits DEF Hears, ReadUnderWay

\* After do_close() there is nothing to hear.
LEMMA ClosingHears ==
  ASSUME TypeInv, Consuming, Hears, DoClose,
         Closes \/ Head(ioq).op \notin {"read", "read_error"}
  PROVE  Hears'
<1>1. CASE Closes
  <2>1. connect_state' = "disconnected" /\ read_pending' = FALSE
    BY <1>1 DEF DoClose
  <2>2. QED BY <2>1 DEF Hears
<1>2. CASE ~Closes
  BY <1>2, OthersHear DEF DoClose
<1>3. QED BY <1>1, <1>2

\* The next read, unless there is one.
LEMMA NextReadHears ==
  ASSUME TypeInv, NEW connected \in BOOLEAN, DoReadPacket(connected, FALSE),
         connected <=> connect_state' = "connected"
  PROVE  Hears'
<1>1. CASE connected
  <2>1. reading' = reading + 1 /\ reading \in Nat
    BY <1>1 DEF DoReadPacket, TypeInv, NetOK
  <2>2. QED BY <2>1 DEF Hears, ReadUnderWay
<1>2. CASE ~connected
  <2>1. read_pending' = FALSE
    BY <1>2 DEF DoReadPacket
  <2>2. QED BY <1>2, <2>1 DEF Hears
<1>3. QED BY <1>1, <1>2

LEMMA RunStartHears ==
  ASSUME TypeInv, Consuming, Hears, RunStart PROVE Hears'
<1>1. Head(ioq).op \notin {"read", "read_error"} /\ UNCHANGED read_pending
  BY DEF RunStart, Runs
<1>2. CASE started
  BY <1>1, <1>2, OthersHear DEF RunStart, netVars
<1>3. CASE ~started
  <2> DEFINE timed == <<[op |-> "timer_start", timer |-> cur_timer_id']>>
  <2>1. DoConnect /\ Queues(Aborted \o timed)
    BY <1>3 DEF RunStart
  <2>2. timed \in Seq(Handlers)
    <3>1. cur_timer_id' \in Nat
      BY <1>3 DEF RunStart, TypeInv, TimersOK
    <3>2. QED BY <3>1 DEF Handlers
  <2> HIDE DEF timed
  <2>3. QED BY <1>1, <2>1, <2>2, ConnectingHears
<1>4. QED BY <1>2, <1>3

LEMMA RunTimerHears ==
  ASSUME TypeInv, Consuming, Hears, RunTimer PROVE Hears'
<1>1. Head(ioq).op \notin {"read", "read_error"}
  BY DEF RunTimer, Runs
<1>2. \/ UNCHANGED <<connect_state, read_pending, reading>>
      \/ DoConnect /\ Queues(Aborted) /\ UNCHANGED read_pending
  BY DEF RunTimer, clientVars, netVars
<1>3. QED BY <1>1, <1>2, OthersHear, ConnectingHears

LEMMA RunConnectHears ==
  ASSUME TypeInv, Consuming, Hears, RunConnect PROVE Hears'
<1>1. Head(ioq).op \notin {"read", "read_error"}
  BY DEF RunConnect, Runs
<1>2. CASE ~(Head(ioq).ok /\ socket # "closed")
  <2>1. connect_state' = "disconnected" /\ UNCHANGED <<read_pending, reading>>
    BY <1>2 DEF RunConnect, AfterFailedConnect
  <2>2. QED BY <1>1, <2>1, HandlerWaits DEF Hears, ReadUnderWay
<1>3. CASE Head(ioq).ok /\ socket # "closed"
  <2>1. DoReadPacket(TRUE, read_pending)
    BY <1>3 DEF RunConnect
  <2>2. CASE read_pending
    <3>1. UNCHANGED reading
      BY <2>1, <2>2 DEF DoReadPacket
    <3>2. ReadUnderWay
      BY <2>2 DEF Hears
    <3>3. ReadUnderWay'
      BY <1>1, <3>1, <3>2, HandlerWaits DEF ReadUnderWay
    <3>4. QED BY <3>3 DEF Hears
  <2>3. CASE ~read_pending
    <3>1. reading' = reading + 1 /\ reading \in Nat
      BY <2>1, <2>3 DEF DoReadPacket, TypeInv, NetOK
    <3>2. QED BY <3>1 DEF Hears, ReadUnderWay
  <2>4. QED BY <2>2, <2>3
<1>4. QED BY <1>2, <1>3

LEMMA HandlersHear ==
  ASSUME TypeInv, Hears, RunHandler PROVE Hears'
<1>1. Consuming
  BY HandlerTypes
<1>2. CASE RunStart
  BY <1>1, <1>2, RunStartHears
<1>3. CASE RunTimer
  BY <1>1, <1>3, RunTimerHears
<1>4. CASE RunConnect
  BY <1>1, <1>4, RunConnectHears
<1>5. CASE RunStop
  BY <1>1, <1>5, ClosingHears DEF RunStop, Runs
<1>6. CASE RunWriteError
  BY <1>1, <1>6, ClosingHears DEF RunWriteError, Runs
<1>7. CASE RunReadError
  <2>1. CASE Closes
    BY <1>1, <1>7, <2>1, ClosingHears DEF RunReadError
  <2>2. CASE ~Closes
    <3>1. read_pending' = FALSE /\ connect_state' = "disconnected"
      BY <1>7, <2>2 DEF RunReadError, Closes
    <3>2. QED BY <3>1 DEF Hears
  <2>3. QED BY <2>1, <2>2
<1>8. CASE RunReadResponse
  BY <1>8, NextReadHears DEF RunReadResponse
<1>9. CASE RunReadPush
  BY <1>9, NextReadHears DEF RunReadPush
<1>10. CASE RunSend \/ RunCancel \/ RunSubscription \/ RunTimerStart \/ RunTimerStop
  <2>1. /\ UNCHANGED <<connect_state, read_pending, reading>>
        /\ Head(ioq).op \notin {"read", "read_error"}
    BY <1>10 DEF RunSend, RunCancel, RunSubscription, RunTimerStart,
       RunTimerStop, Runs, clientVars, netVars
  <2>2. QED BY <1>1, <2>1, OthersHear
<1>11. QED BY <1>2, <1>3, <1>4, <1>5, <1>6, <1>7, <1>8, <1>9, <1>10 DEF RunHandler

LEMMA NextHears ==
  ASSUME TypeInv, Hears, [Next]_vars PROVE Hears'
<1> DEFINE read == {"read", "read_error"}
<1>1. CASE CallAPI
  <2>1. Calling
    BY <1>1, CallAPICalls
  <2>2. Waits(read) => Waits(read)'
    BY <2>1, PostingWaits DEF Calling, Waits
  <2>3. QED BY <2>1, <2>2 DEF Calling, Hears, ReadUnderWay
<1>2. CASE RunHandler
  BY <1>2, HandlersHear
<1>3. CASE Second
  BY <1>3, SecondWaits DEF Second, netVars, Hears, ReadUnderWay
<1>4. CASE Network
  <2>1. Delivers
    BY <1>4, NetworkTypes
  <2>2. UNCHANGED <<connect_state, read_pending>>
    BY <2>1 DEF Delivers, clientVars
  <2>3. ASSUME NEW packet, ReadReady(packet),
               [op |-> "read", packet |-> packet] \in Handlers
        PROVE  Waits(read)'
    <3>1. Posting([op |-> "read", packet |-> packet])
      BY <2>3 DEF ReadReady, Posting
    <3>2. [op |-> "read", packet |-> packet].op \in read
      OBVIOUS
    <3>3. QED BY <3>1, <3>2, PostingWaits
  <2>4. CASE ReadFails
    <3>1. Posting([op |-> "read_error"])
      BY <2>4 DEF ReadFails, Posting, Handlers
    <3>2. [op |-> "read_error"].op \in read
      OBVIOUS
    <3>3. Waits(read)'
      BY <3>1, <3>2, PostingWaits
    <3>4. QED BY <3>3 DEF Hears, ReadUnderWay
  <2>5. CASE \E i \in on_wire : ReadReady(Response(i))
    <3>1. PICK i \in on_wire : ReadReady(Response(i))
      BY <2>5
    <3>2. [op |-> "read", packet |-> Response(i)] \in Handlers
      BY DEF Handlers, Response, TypeInv, NetOK
    <3>3. QED BY <2>3, <3>1, <3>2 DEF Hears, ReadUnderWay
  <2>6. CASE \E p \in Pushes : ReadReady(Push(p))
    <3>1. PICK p \in Pushes : ReadReady(Push(p))
      BY <2>6
    <3>2. [op |-> "read", packet |-> Push(p)] \in Handlers
      BY DEF Handlers, Push
    <3>3. QED BY <2>3, <3>1, <3>2 DEF Hears, ReadUnderWay
  <2>7. CASE LinkBreaks \/ \E ok \in BOOLEAN : ConnectDone(ok)
    <3>1. UNCHANGED reading
      BY <2>7 DEF LinkBreaks, ConnectDone
    <3>2. Waits(read) => Waits(read)'
      BY <2>1, PostingWaits DEF Delivers, queueVars, Waits
    <3>3. QED BY <2>2, <3>1, <3>2 DEF Hears, ReadUnderWay
  <2>8. QED BY <1>4, <2>4, <2>5, <2>6, <2>7 DEF Network
<1>5. CASE UNCHANGED vars
  BY <1>5 DEF vars, clientVars, netVars, queueVars, Hears, ReadUnderWay, Waits
<1>6. QED BY <1>1, <1>2, <1>3, <1>4, <1>5 DEF Next

\* A connected client reads, or is about to hear how its read ended, for any
\* order of closes, connects, reads and errors.
THEOREM ClientHears == Spec => []ConnectedIsReading
<1>1. Init => TypeInv /\ Hears
  BY InitTypes DEF Init, Hears
<1>2. TypeInv /\ Hears /\ [Next]_vars => (TypeInv /\ Hears)'
  BY NextTypes, NextHears
<1>3. Hears => ConnectedIsReading
  BY WaitsIsQueued DEF Hears, ReadUnderWay, ConnectedIsReading
<1>4. QED BY <1>1, <1>2, <1>3, PTL DEF Spec

-----------------------------------------------------------------------------
(* A notification is called back once in a window: the tracker has seen it *)
(* no longer ago than its last callback.                                   *)

Heard == \A p \in Pushes : rencently_packet_tracker[p] <= heard[p]

LEMMA InitHeard == Init => Heard
  BY Numbers DEF Init, Heard, Forgotten

LEMMA NextHeard ==
  ASSUME TypeInv, Heard, NotifiedOnce, [Next]_vars PROVE Heard' /\ NotifiedOnce'
<1>1. CASE UNCHANGED <<rencently_packet_tracker, heard, repeated>>
  BY <1>1 DEF Heard, NotifiedOnce
<1>2. CASE RunStop
  <2>1. \A p \in Pushes : Forgotten(Pushes)[p] = Window
    BY DEF Forgotten
  <2>2. QED BY <1>2, <2>1, Numbers DEF RunStop, Heard, NotifiedOnce
<1>3. CASE RunReadPush
  <2> DEFINE p == Head(ioq).packet.id
             notified == /\ ~Seen(rencently_packet_tracker, p)
                         /\ CmdOf[p] \in notifications
  <2>1. p \in Pushes
    BY <1>3, NextHandler, HandlerParts DEF TypeInv, RunReadPush
  <2>2. /\ rencently_packet_tracker' = Recorded(rencently_packet_tracker, p)
        /\ heard' = IF notified THEN [heard EXCEPT ![p] = 0] ELSE heard
        /\ repeated' = IF notified /\ Seen(heard, p) THEN repeated \union {p}
                                                    ELSE repeated
    BY <1>3 DEF RunReadPush
  <2>3. \A q \in Pushes :
          /\ rencently_packet_tracker[q] \in 0..Window /\ heard[q] \in 0..Window
          /\ rencently_packet_tracker[q] <= heard[q]
    BY DEF TypeInv, PushesOK, Ages, Heard
  <2> HIDE DEF p
  <2>4. notified => ~Seen(heard, p)
    BY <2>1, <2>3, Numbers DEF Seen
  <2>5. NotifiedOnce'
    BY <2>2, <2>4 DEF NotifiedOnce
  <2>6. ASSUME NEW q \in Pushes
        PROVE  rencently_packet_tracker'[q] <= heard'[q]
    <3>1. /\ rencently_packet_tracker' =
               IF Seen(rencently_packet_tracker, p)
               THEN rencently_packet_tracker
               ELSE [rencently_packet_tracker EXCEPT ![p] = 0]
          /\ DOMAIN rencently_packet_tracker = Pushes /\ DOMAIN heard = Pushes
      BY <2>2 DEF Recorded, TypeInv, PushesOK, Ages
    <3>2. CASE Seen(rencently_packet_tracker, p)
      BY <2>2, <2>3, <3>1, <3>2
    <3>3. CASE ~Seen(rencently_packet_tracker, p)
      BY <2>1, <2>2, <2>3, <3>1, <3>3, Numbers
    <3>4. QED BY <3>2, <3>3
  <2>7. QED BY <2>5, <2>6 DEF Heard
<1>4. CASE Second
  <2>1. \A p \in Pushes :
          /\ rencently_packet_tracker[p] \in 0..Window /\ heard[p] \in 0..Window
          /\ rencently_packet_tracker[p] <= heard[p]
    BY DEF TypeInv, PushesOK, Ages, Heard
  <2>2. \A p \in Pushes :
          /\ rencently_packet_tracker'[p] =
               IF rencently_packet_tracker[p] < Window
               THEN rencently_packet_tracker[p] + 1 ELSE Window
          /\ heard'[p] = IF heard[p] < Window THEN heard[p] + 1 ELSE Window
    BY <1>4 DEF Second, Aged, TypeInv, PushesOK, Ages
  <2>3. \A p \in Pushes : rencently_packet_tracker'[p] <= heard'[p]
    BY <2>1, <2>2, Numbers
  <2>4. repeated' = repeated
    BY <1>4 DEF Second
  <2>5. QED BY <2>3, <2>4 DEF Heard, NotifiedOnce
<1>5. CASE UNCHANGED vars
  BY <1>1, <1>5 DEF vars, clientVars, historyVars
<1>6. CASE CallAPI
  BY <1>1, <1>6 DEF CallAPI, CallStart, CallStop, PostStop, SendReqAsync,
     SendCancel, SubscribeNotification, UnsubscribeNotification, clientVars,
     historyVars
<1>7. CASE Network
  BY <1>1, <1>7, NetworkTypes DEF Delivers, clientVars, historyVars
<1>8. CASE RunHandler /\ ~RunStop /\ ~RunReadPush
  <2>1. UNCHANGED <<rencently_packet_tracker, heard, repeated>>
    BY <1>8 DEF RunHandler, RunStart, RunSend, RunCancel, RunSubscription,
       RunTimerStart, RunTimerStop, RunTimer, RunConnect, RunReadResponse,
       RunReadError, RunWriteError, clientVars, historyVars
  <2>2. QED BY <1>1, <2>1
<1>9. QED BY <1>2, <1>3, <1>4, <1>5, <1>6, <1>7, <1>8 DEF Next

\* No notification is called back twice within a window, whatever connections
\* it arrives on, and however the application subscribes and unsubscribes.
THEOREM ClientNotifiesOnce == Spec => []NotifiedOnce
<1>1. Init => TypeInv /\ Heard /\ NotifiedOnce
  BY InitTypes, InitHeard DEF Init, NotifiedOnce
<1>2. TypeInv /\ Heard /\ NotifiedOnce /\ [Next]_vars
        => (TypeInv /\ Heard /\ NotifiedOnce)'
  BY NextTypes, NextHeard
<1>3. QED BY <1>1, <1>2, PTL DEF Spec

-----------------------------------------------------------------------------
(* What becomes of pending requests.  Every handler but the one that sends *)
(* takes some of them away: their callbacks run, or they are dropped.      *)

Settles(ids) ==
    /\ ids \subseteq DOMAIN write_packets
    /\ DOMAIN write_packets' = DOMAIN write_packets \ ids
    /\ \/ called' = CalledFor(ids) /\ discarded' = discarded
       \/ called' = called /\ discarded' = discarded \union ids

LEMMA SettlesNone ==
  ASSUME UNCHANGED <<write_packets, called, discarded>>
  PROVE  Settles({})
  BY DEF Settles

LEMMA HandlersSettle ==
  ASSUME TypeInv, RunHandler, ~RunSend PROVE \E ids : Settles(ids)
<1>1. CASE RunStop
  <2>1. Settles(DOMAIN write_packets)
    BY <1>1 DEF RunStop, Settles, Without, TypeInv, PacketsOK
  <2>2. QED BY <2>1
<1>2. CASE RunCancel
  <2>1. Settles({Head(ioq).id} \intersect DOMAIN write_packets)
    BY <1>2 DEF RunCancel, Settles, Without
  <2>2. QED BY <2>1
<1>3. CASE RunReadResponse
  <2>1. Settles({Head(ioq).packet.id} \intersect DOMAIN write_packets)
    BY <1>3 DEF RunReadResponse, Settles, Without
  <2>2. QED BY <2>1
<1>4. CASE RunTimer
  <2>1. CASE Head(ioq).timer \notin DOMAIN timers
    BY <1>4, <2>1, SettlesNone DEF RunTimer, clientVars, historyVars
  <2>2. CASE Head(ioq).timer \in DOMAIN timers
    <3>1. Exhausted \subseteq DOMAIN write_packets
      BY DEF Exhausted, Due
    <3>2. Settles(Exhausted)
      BY <1>4, <2>2, <3>1 DEF RunTimer, Settles
    <3>3. QED BY <3>2
  <2>3. QED BY <2>1, <2>2
<1>5. CASE RunHandler /\ ~RunStop /\ ~RunCancel /\ ~RunReadResponse /\ ~RunTimer
  <2>1. UNCHANGED <<write_packets, called, discarded>>
    BY <1>5 DEF RunHandler, RunStart, RunSubscription, RunTimerStart,
       RunTimerStop, RunConnect, RunReadPush, RunReadError, RunWriteError,
       clientVars, historyVars
  <2>2. QED BY <2>1, SettlesNone
<1>6. QED BY <1>1, <1>2, <1>3, <1>4, <1>5

\* Anything but a handler leaves them alone.
LEMMA OthersSettle ==
  ASSUME TypeInv, Next \/ UNCHANGED vars, ~RunHandler PROVE Settles({})
<1>1. CASE Second
  <2>1. /\ DOMAIN write_packets' = DOMAIN write_packets
        /\ UNCHANGED <<called, discarded>>
    BY <1>1 DEF Second
  <2>2. QED BY <2>1 DEF Settles
<1>2. CASE CallAPI
  BY <1>2, SettlesNone DEF CallAPI, CallStart, CallStop, PostStop, SendReqAsync,
     SendCancel, SubscribeNotification, UnsubscribeNotification, clientVars,
     historyVars
<1>3. CASE Network
  BY <1>3, NetworkTypes, SettlesNone DEF Delivers, clientVars, historyVars
<1>4. CASE UNCHANGED vars
  BY <1>4, SettlesNone DEF vars, clientVars, historyVars
<1>5. QED BY <1>1, <1>2, <1>3, <1>4 DEF Next

-----------------------------------------------------------------------------
(* Where in the queue the sends are.                                       *)

SendsAt(n, i) == n \in 1..Len(ioq) /\ ioq[n].op = "send" /\ ioq[n].id = i

SentOnce == \A m, n \in 1..Len(ioq) : \A i :
              SendsAt(m, i) /\ SendsAt(n, i) => m = n

LEMMA SendingIs == \A i : Sending(i) <=> \E n \in 1..Len(ioq) : SendsAt(n, i)
  BY DEF Sending, Queued, SendsAt

LEMMA HandlerSends ==
  ASSUME TypeInv, Consuming
  PROVE  /\ \A n \in 1..Len(ioq') : \A i :
              SendsAt(n, i)' <=> n + 1 \in 1..Len(ioq) /\ SendsAt(n + 1, i)
         /\ Len(ioq) \in Nat \ {0} /\ Len(ioq') \in Nat /\ Len(ioq) <= Len(ioq') + 1
<1>1. PICK handlers \in Seq(Handlers) :
        /\ ioq # <<>> /\ Queues(handlers)
        /\ \A k \in 1..Len(handlers) : handlers[k].op # "send"
  BY DEF Consuming, Consumes
<1>2. /\ Len(ioq) \in Nat \ {0} /\ Len(handlers) \in Nat
      /\ Len(ioq') = Len(ioq) - 1 + Len(handlers)
      /\ \A n \in 1..(Len(ioq) - 1) : ioq'[n] = ioq[n + 1]
      /\ \A k \in 1..Len(handlers) : ioq'[Len(ioq) - 1 + k] = handlers[k]
  BY <1>1, QueueAfter DEF TypeInv
<1>3. ASSUME NEW n \in 1..Len(ioq'), NEW i
      PROVE  SendsAt(n, i)' <=> n + 1 \in 1..Len(ioq) /\ SendsAt(n + 1, i)
  <2>1. CASE n \in 1..(Len(ioq) - 1)
    <3>1. n + 1 \in 1..Len(ioq)
      BY <1>2, <2>1
    <3>2. ioq'[n] = ioq[n + 1]
      BY <1>2, <2>1
    <3>3. QED BY <3>1, <3>2 DEF SendsAt
  <2>2. CASE n \notin 1..(Len(ioq) - 1)
    <3> DEFINE k == n - (Len(ioq) - 1)
    <3>1. k \in 1..Len(handlers) /\ Len(ioq) - 1 + k = n /\ n + 1 \notin 1..Len(ioq)
      BY <1>2, <2>2
    <3>2. ioq'[n] = handlers[k]
      BY <1>2, <3>1
    <3>3. ioq'[n].op # "send"
      BY <1>1, <3>1, <3>2
    <3>4. QED BY <3>1, <3>3 DEF SendsAt
  <2>3. QED BY <2>1, <2>2
<1>4. Len(ioq') \in Nat /\ Len(ioq) <= Len(ioq') + 1
  BY <1>2
<1>5. QED BY <1>2, <1>3, <1>4

\* A handler that is not a send leaves the sends in the queue.
LEMMA HandlerSending ==
  ASSUME TypeInv, Consuming, SentOnce
  PROVE  /\ SentOnce'
         /\ \A i : Sending(i)' <=> Sending(i) /\ ~SendsAt(1, i)
<1>1. SentOnce'
  <2> SUFFICES ASSUME NEW m \in 1..Len(ioq'), NEW n \in 1..Len(ioq'), NEW i,
                      SendsAt(m, i)', SendsAt(n, i)'
               PROVE  m = n
    BY DEF SentOnce
  <2>1. /\ m + 1 \in 1..Len(ioq) /\ SendsAt(m + 1, i)
        /\ n + 1 \in 1..Len(ioq) /\ SendsAt(n + 1, i)
    BY HandlerSends
  <2>2. m + 1 = n + 1
    BY <2>1 DEF SentOnce
  <2>3. Len(ioq') \in Nat
    BY HandlerSends
  <2>4. QED BY <2>2, <2>3
<1>2. ASSUME NEW i, Sending(i)'
      PROVE  Sending(i) /\ ~SendsAt(1, i)
  <2>1. PICK n \in 1..Len(ioq') : SendsAt(n, i)'
    BY <1>2 DEF Sending, Queued, SendsAt
  <2>2. n + 1 \in 1..Len(ioq) /\ SendsAt(n + 1, i) /\ n + 1 # 1
        /\ 1 \in 1..Len(ioq)
    BY <2>1, HandlerSends
  <2>3. QED BY <2>2, SendingIs DEF SentOnce
<1>3. ASSUME NEW i, Sending(i), ~SendsAt(1, i)
      PROVE  Sending(i)'
  <2>1. PICK n \in 1..Len(ioq) : SendsAt(n, i)
    BY <1>3, SendingIs
  <2>2. n # 1
    BY <1>3, <2>1
  <2>3. n - 1 \in 1..Len(ioq') /\ (n - 1) + 1 = n
    BY <2>2, HandlerSends
  <2>4. SendsAt(n - 1, i)'
    BY <2>1, <2>3, HandlerSends
  <2>5. QED BY <2>3, <2>4 DEF Sending, Queued, SendsAt
<1>4. QED BY <1>1, <1>2, <1>3

\* A call or the network adds a handler, and a send if it is one.
LEMMA PostingSending ==
  ASSUME TypeInv, NEW h, Posting(h), SentOnce,
         h.op = "send" => ~Sending(h.id)
  PROVE  /\ SentOnce'
         /\ \A i : Sending(i)' <=> Sending(i) \/ (h.op = "send" /\ h.id = i)
<1>1. /\ Len(ioq) \in Nat /\ Len(ioq') = Len(ioq) + 1
      /\ \A n \in 1..Len(ioq) : ioq'[n] = ioq[n]
      /\ ioq'[Len(ioq) + 1] = h
  BY PostedBehind
<1>2. ASSUME NEW n \in 1..Len(ioq'), NEW i
      PROVE  SendsAt(n, i)' <=> \/ n \in 1..Len(ioq) /\ SendsAt(n, i)
                                \/ n = Len(ioq) + 1 /\ h.op = "send" /\ h.id = i
  <2>1. CASE n \in 1..Len(ioq)
    BY <1>1, <2>1 DEF SendsAt
  <2>2. CASE n = Len(ioq) + 1
    BY <1>1, <2>2 DEF SendsAt
  <2>3. QED BY <1>1, <2>1, <2>2
<1>3. SentOnce'
  <2> SUFFICES ASSUME NEW m \in 1..Len(ioq'), NEW n \in 1..Len(ioq'), NEW i,
                      SendsAt(m, i)', SendsAt(n, i)'
               PROVE  m = n
    BY DEF SentOnce
  <2>1. CASE h.op = "send" /\ h.id = i
    <3>1. \A k \in 1..Len(ioq) : ~SendsAt(k, i)
      BY <2>1, SendingIs
    <3>2. QED BY <1>2, <2>1, <3>1
  <2>2. CASE ~(h.op = "send" /\ h.id = i)
    BY <1>2, <2>2 DEF SentOnce
  <2>3. QED BY <2>1, <2>2
<1>4. ASSUME NEW i
      PROVE  Sending(i)' <=> Sending(i) \/ (h.op = "send" /\ h.id = i)
  <2>1. Sending(i)' <=> \E n \in 1..Len(ioq') : SendsAt(n, i)'
    BY DEF Sending, Queued, SendsAt
  <2>2. Sending(i) <=> \E n \in 1..Len(ioq) : SendsAt(n, i)
    BY SendingIs
  <2>3. \A n \in 1..Len(ioq) : n \in 1..Len(ioq')
    BY <1>1
  <2>4. Len(ioq) + 1 \in 1..Len(ioq')
    BY <1>1
  <2>5. QED BY <1>2, <2>1, <2>2, <2>3, <2>4
<1>5. QED BY <1>3, <1>4

LEMMA SecondSending ==
  ASSUME TypeInv, Second, SentOnce
  PROVE  SentOnce' /\ \A i : Sending(i)' <=> Sending(i)
<1>1. /\ Len(ioq) \in Nat /\ Len(ioq') \in Nat /\ Len(ioq) <= Len(ioq')
      /\ \A n \in 1..Len(ioq) : ioq'[n] = ioq[n]
      /\ \A n \in 1..Len(ioq') : n \notin 1..Len(ioq) => ioq'[n].op = "timer"
  BY SecondBehind
<1>2. ASSUME NEW n \in 1..Len(ioq'), NEW i
      PROVE  SendsAt(n, i)' <=> n \in 1..Len(ioq) /\ SendsAt(n, i)
  BY <1>1 DEF SendsAt
<1>3. SentOnce'
  BY <1>2 DEF SentOnce
<1>4. ASSUME NEW i PROVE Sending(i)' <=> Sending(i)
  <2>1. Sending(i)' <=> \E n \in 1..Len(ioq') : SendsAt(n, i)'
    BY DEF Sending, Queued, SendsAt
  <2>2. Sending(i) <=> \E n \in 1..Len(ioq) : SendsAt(n, i)
    BY SendingIs
  <2>3. \A n \in 1..Len(ioq) : n \in 1..Len(ioq')
    BY <1>1
  <2>4. QED BY <1>2, <2>1, <2>2, <2>3
<1>5. QED BY <1>3, <1>4

-----------------------------------------------------------------------------
(* Every request is accounted for.  Of a request that was not made yet     *)
(* there is no trace, so that the next id is new in every place.           *)

Placed(i) ==
    \/ Sending(i) /\ i \notin DOMAIN write_packets /\ called[i] = 0 /\ i \notin discarded
    \/ ~Sending(i) /\ i \in DOMAIN write_packets /\ called[i] = 0 /\ i \notin discarded
    \/ ~Sending(i) /\ i \notin DOMAIN write_packets /\ called[i] = 1 /\ i \notin discarded
    \/ ~Sending(i) /\ i \notin DOMAIN write_packets /\ called[i] = 0 /\ i \in discarded

NotYet(i) ==
    ~Sending(i) /\ i \notin DOMAIN write_packets /\ called[i] = 0 /\ i \notin discarded

Accounted ==
    /\ SentOnce
    /\ \A i \in Requests : /\ i <= cur_send_id => Placed(i)
                           /\ ~(i <= cur_send_id) => NotYet(i)

LEMMA InitAccounted == Init => Accounted
<1> SUFFICES ASSUME Init PROVE Accounted
  OBVIOUS
<1>1. Len(ioq) = 0 /\ \A i : ~Sending(i)
  BY DEF Init, Sending, Queued
<1>2. SentOnce
  BY <1>1 DEF SentOnce
<1>3. \A i \in Requests : NotYet(i) /\ ~(i <= cur_send_id)
  BY <1>1 DEF Init, NotYet, Requests
<1>4. QED BY <1>2, <1>3 DEF Accounted

\* The sends in the queue stay, and pending requests may be settled.
LEMMA SettlingAccounts ==
  ASSUME TypeInv, Accounted, SentOnce', \A i : Sending(i)' <=> Sending(i),
         NEW ids, Settles(ids), cur_send_id' = cur_send_id
  PROVE  Accounted'
<1>1. ASSUME NEW i \in Requests
      PROVE  /\ Placed(i) => Placed(i)'
             /\ NotYet(i) => NotYet(i)'
  <2>1. Sending(i)' <=> Sending(i)
    OBVIOUS
  <2>2. CASE i \in ids
    <3>1. /\ i \in DOMAIN write_packets /\ i \notin DOMAIN write_packets'
          /\ \/ called'[i] = called[i] + 1 /\ (i \in discarded' <=> i \in discarded)
             \/ called'[i] = called[i] /\ i \in discarded'
      BY <2>2 DEF Settles, CalledFor
    <3>2. called[i] = 0 => called[i] + 1 = 1
      OBVIOUS
    <3>3. QED BY <2>1, <3>1, <3>2 DEF Placed, NotYet
  <2>3. CASE i \notin ids
    <3>1. /\ i \in DOMAIN write_packets <=> i \in DOMAIN write_packets'
          /\ called'[i] = called[i] /\ (i \in discarded' <=> i \in discarded)
      BY <2>3 DEF Settles, CalledFor
    <3>2. QED BY <2>1, <3>1 DEF Placed, NotYet
  <2>4. QED BY <2>2, <2>3
<1>2. QED BY <1>1 DEF Accounted

LEMMA SendAccounts ==
  ASSUME TypeInv, Accounted, RunSend PROVE Accounted'
<1>1. Consuming
  BY RunSendTypes
<1>2. /\ Head(ioq) = ioq[1] /\ 1 \in 1..Len(ioq) /\ Head(ioq).op = "send"
      /\ Head(ioq) \in Handlers
  BY NextHandler DEF TypeInv, RunSend
<1>3. Head(ioq).id \in Requests
  BY <1>2, HandlerParts
<1>4. PICK new \in Requests : new = Head(ioq).id
  BY <1>3
<1>5. SendsAt(1, new) /\ \A i : SendsAt(1, i) => i = new
  BY <1>2, <1>4 DEF SendsAt
<1>6. Sending(new)
  BY <1>2, <1>5, SendingIs
<1>7. SentOnce' /\ \A i : Sending(i)' <=> Sending(i) /\ i # new
  BY <1>1, <1>5, HandlerSending DEF Accounted
<1>8. /\ DOMAIN write_packets' = DOMAIN write_packets \union {new}
      /\ UNCHANGED <<called, discarded, cur_send_id>>
  BY <1>4 DEF RunSend, historyVars
<1>9. new <= cur_send_id /\ Placed(new)
  BY <1>5, <1>6 DEF Accounted, NotYet
<1>10. Placed(new)'
  BY <1>6, <1>7, <1>8, <1>9 DEF Placed
<1>11. ASSUME NEW i \in Requests, i # new
      PROVE  (Placed(i) => Placed(i)') /\ (NotYet(i) => NotYet(i)')
  <2>1. Sending(i)' <=> Sending(i)
    BY <1>7, <1>11
  <2>2. i \in DOMAIN write_packets' <=> i \in DOMAIN write_packets
    BY <1>8, <1>11
  <2>3. QED BY <1>8, <2>1, <2>2 DEF Placed, NotYet
<1>12. QED BY <1>7, <1>8, <1>9, <1>10, <1>11 DEF Accounted

LEMMA RequestAccounts ==
  ASSUME TypeInv, Accounted, NEW t \in Threads, NEW opt \in SendOpts,
         SendReqAsync(t, opt)
  PROVE  Accounted'
<1>1. PICK new \in Requests : new = cur_send_id'
  BY SendTypes
<1> DEFINE h == [op |-> "send", id |-> new, opt |-> opt]
<1>2. new = cur_send_id + 1 /\ Posting(h)
  BY <1>1, SendTypes
<1>3. NotYet(new)
  <2>1. ~(new <= cur_send_id)
    BY <1>2 DEF TypeInv, FieldsOK
  <2>2. QED BY <1>2, <2>1 DEF Accounted
<1>4. SentOnce' /\ \A i : Sending(i)' <=> Sending(i) \/ i = new
  <2>1. h.op = "send" /\ h.id = new
    OBVIOUS
  <2> HIDE DEF h
  <2>2. QED BY <1>2, <1>3, <2>1, PostingSending DEF NotYet, Accounted
<1>5. UNCHANGED <<write_packets, called, discarded>>
  BY DEF SendReqAsync, historyVars
<1>6. \A i \in Requests : i <= new <=> i <= cur_send_id \/ i = new
  BY <1>2 DEF TypeInv, FieldsOK, Requests
<1>7. cur_send_id' = new
  BY <1>1
<1>8. Placed(new)'
  BY <1>3, <1>4, <1>5 DEF Placed, NotYet
<1>9. ASSUME NEW i \in Requests, i # new
      PROVE  (Placed(i) => Placed(i)') /\ (NotYet(i) => NotYet(i)')
  <2>1. Sending(i)' <=> Sending(i)
    BY <1>4, <1>9
  <2>2. QED BY <1>5, <2>1 DEF Placed, NotYet
<1>10. QED BY <1>4, <1>6, <1>7, <1>8, <1>9 DEF Accounted

LEMMA NextAccounted ==
  ASSUME TypeInv, Accounted, [Next]_vars PROVE Accounted'
<1>1. CASE RunSend
  BY <1>1, SendAccounts
<1>2. CASE RunHandler /\ ~RunSend
  <2>1. Consuming
    BY <1>2, HandlerTypes
  <2>2. Head(ioq).op # "send" /\ cur_send_id' = cur_send_id
    BY <1>2 DEF RunHandler, Runs, RunStart, RunStop, RunCancel,
       RunSubscription, RunTimerStart, RunTimerStop, RunTimer, RunConnect,
       RunReadResponse, RunReadPush, RunReadError, RunWriteError, clientVars
  <2>3. \A i : ~SendsAt(1, i)
    BY <2>1, <2>2 DEF SendsAt, Consuming, Consumes, TypeInv, QueueOK
  <2>4. SentOnce' /\ \A i : Sending(i)' <=> Sending(i)
    BY <2>1, <2>3, HandlerSending DEF Accounted
  <2>5. PICK ids : Settles(ids)
    BY <1>2, HandlersSettle
  <2>6. QED BY <2>2, <2>4, <2>5, SettlingAccounts
<1>3. CASE \E t \in Threads, opt \in SendOpts : SendReqAsync(t, opt)
  BY <1>3, RequestAccounts
<1>4. CASE Second
  <2>1. SentOnce' /\ \A i : Sending(i)' <=> Sending(i)
    BY <1>4, SecondSending DEF Accounted
  <2>2. Settles({})
    <3>1. /\ DOMAIN write_packets' = DOMAIN write_packets
          /\ UNCHANGED <<called, discarded>>
      BY <1>4 DEF Second
    <3>2. QED BY <3>1 DEF Settles
  <2>3. cur_send_id' = cur_send_id
    BY <1>4 DEF Second
  <2>4. QED BY <2>1, <2>2, <2>3, SettlingAccounts
<1>5. ASSUME UNCHANGED <<write_packets, called, discarded, cur_send_id>>,
             UNCHANGED ioq \/ \E h : Posting(h) /\ h.op # "send"
      PROVE  Accounted'
  <2>1. SentOnce' /\ \A i : Sending(i)' <=> Sending(i)
    <3>1. CASE UNCHANGED ioq
      BY <3>1 DEF Accounted, SentOnce, SendsAt, Sending, Queued
    <3>2. CASE \E h : Posting(h) /\ h.op # "send"
      BY <3>2, PostingSending DEF Accounted
    <3>3. QED BY <1>5, <3>1, <3>2
  <2>2. Settles({})
    BY <1>5, SettlesNone
  <2>3. QED BY <1>5, <2>1, <2>2, SettlingAccounts
<1>6. CASE CallAPI /\ ~\E t \in Threads, opt \in SendOpts : SendReqAsync(t, opt)
  <2>1. PICK t \in Threads :
          \/ CallStart(t) \/ CallStop(t) \/ PostStop(t)
          \/ \E i \in Requests : SendCancel(t, i)
          \/ \E cmd \in Cmds : SubscribeNotification(t, cmd)
                                 \/ UnsubscribeNotification(t, cmd)
    BY <1>6 DEF CallAPI
  <2>2. UNCHANGED <<write_packets, called, discarded, cur_send_id>>
    BY <2>1 DEF CallStart, CallStop, PostStop, SendCancel,
       SubscribeNotification, UnsubscribeNotification, clientVars, historyVars
  <2>3. UNCHANGED ioq \/ \E h : Posting(h) /\ h.op # "send"
    <3>1. CASE CallStop(t)
      BY <3>1 DEF CallStop, queueVars
    <3>2. CASE ~CallStop(t)
      BY <2>1, <3>2, CallTypes
    <3>3. QED BY <3>1, <3>2
  <2>4. QED BY <1>5, <2>2, <2>3
<1>7. CASE Network
  <2>1. Delivers
    BY <1>7, NetworkTypes
  <2>2. UNCHANGED <<write_packets, called, discarded, cur_send_id>>
    BY <2>1 DEF Delivers, clientVars, historyVars
  <2>3. UNCHANGED ioq \/ \E h : Posting(h) /\ h.op # "send"
    BY <2>1 DEF Delivers, queueVars
  <2>4. QED BY <1>5, <2>2, <2>3
<1>8. CASE UNCHANGED vars
  BY <1>5, <1>8 DEF vars, clientVars, queueVars, historyVars
<1>9. QED BY <1>1, <1>2, <1>3, <1>4, <1>6, <1>7, <1>8 DEF Next, CallAPI

\* The four places are those of InOnePlace.
LEMMA PlacedInOnePlace ==
  ASSUME NEW i, Placed(i) PROVE called[i] <= 1 /\ InOnePlace(i)
<1> DEFINE places == << Sending(i), i \in DOMAIN write_packets,
                        called[i] = 1, i \in discarded >>
<1>1. /\ places[1] <=> Sending(i)
      /\ places[2] <=> i \in DOMAIN write_packets
      /\ places[3] <=> called[i] = 1
      /\ places[4] <=> i \in discarded
  OBVIOUS
<1> HIDE DEF places
<1>2. called[i] <= 1 /\ 0 # 1
  BY DEF Placed
<1>3. \E k \in 1..4 : \A j \in 1..4 : places[j] <=> j = k
  <2>1. CASE Sending(i)
    <3>1. \A j \in 1..4 : places[j] <=> j = 1
      BY <1>1, <2>1 DEF Placed
    <3>2. QED BY <3>1
  <2>2. CASE i \in DOMAIN write_packets
    <3>1. \A j \in 1..4 : places[j] <=> j = 2
      BY <1>1, <2>2 DEF Placed
    <3>2. QED BY <3>1
  <2>3. CASE called[i] = 1
    <3>1. \A j \in 1..4 : places[j] <=> j = 3
      BY <1>1, <2>3 DEF Placed
    <3>2. QED BY <3>1
  <2>4. CASE i \in discarded
    <3>1. \A j \in 1..4 : places[j] <=> j = 4
      BY <1>1, <2>4 DEF Placed
    <3>2. QED BY <3>1
  <2>5. QED BY <2>1, <2>2, <2>3, <2>4 DEF Placed
<1>4. QED BY <1>2, <1>3 DEF places, InOnePlace

\* No request is lost, and none is called back twice, whatever answers,
\* time-outs, cancels, stops and reconnects race with it.
THEOREM ClientAccounts == Spec => []RequestsAccountedFor
<1>1. Init => TypeInv /\ Accounted
  BY InitTypes, InitAccounted
<1>2. TypeInv /\ Accounted /\ [Next]_vars => (TypeInv /\ Accounted)'
  BY NextTypes, NextAccounted
<1>3. TypeInv /\ Accounted => RequestsAccountedFor
  <2> SUFFICES ASSUME TypeInv, Accounted PROVE RequestsAccountedFor
    OBVIOUS
  <2>1. ASSUME NEW i \in 1..cur_send_id PROVE called[i] <= 1 /\ InOnePlace(i)
    <3>1. i \in Requests /\ i <= cur_send_id
      BY Numbers DEF TypeInv, FieldsOK, Requests
    <3>2. QED BY <3>1, PlacedInOnePlace DEF Accounted
  <2>2. ASSUME NEW m \in Queued("send"), NEW n \in Queued("send"),
               ioq[m].id = ioq[n].id
        PROVE  m = n
    BY <2>2 DEF Accounted, SentOnce, SendsAt, Queued
  <2>3. QED BY <2>1, <2>2 DEF RequestsAccountedFor
<1>4. QED BY <1>1, <1>2, <1>3, PTL DEF Spec

-----------------------------------------------------------------------------
(* A request fails only after all its attempts.  What write_packets_ says  *)
(* of one, its attempts and the age of the last, is at most what it has    *)
(* waited: each attempt but the last stands for a whole interval.          *)

WaitedFor(w, seconds) ==
    /\ w.since <= w.opt.interval_seconds
    /\ (w.cur_tries - 1) * w.opt.interval_seconds + w.since <= seconds

Patient == \A i \in DOMAIN write_packets : WaitedFor(write_packets[i], waited[i])

Packets ==
    { w \in [opt : SendOpts, cur_tries : Nat, since : Nat] :
        w.cur_tries \in 1..Attempts(w.opt) }

LEMMA PendingPackets ==
  ASSUME TypeInv, NEW i \in DOMAIN write_packets
  PROVE  /\ i \in Requests /\ write_packets[i] \in Packets
         /\ waited[i] \in 0..MaxWait /\ waited[i] \in Nat
<1>1. i \in Requests /\ waited[i] \in 0..MaxWait
  BY DEF TypeInv, PacketsOK, HistoryOK
<1>2. waited[i] \in Nat
  BY <1>1, MaxWaitIsMax
<1>3. write_packets[i] \in Packets
  BY DEF TypeInv, PacketsOK, Packets
<1>4. QED BY <1>1, <1>2, <1>3

\* The intervals of a packet's attempts.
LEMMA Intervals ==
  ASSUME NEW w \in Packets
  PROVE  /\ w.cur_tries \in Nat \ {0} /\ w.since \in Nat
         /\ w.opt.interval_seconds \in Nat /\ w.opt.tries \in Nat
         /\ (w.cur_tries - 1) * w.opt.interval_seconds \in Nat
         /\ w.cur_tries * w.opt.interval_seconds
              = (w.cur_tries - 1) * w.opt.interval_seconds
                  + w.opt.interval_seconds
         /\ w.cur_tries * w.opt.interval_seconds <= Patience(w.opt)
         /\ w.cur_tries >= w.opt.tries =>
              w.cur_tries * w.opt.interval_seconds = Patience(w.opt)
         /\ Patience(w.opt) \in Nat /\ Patience(w.opt) <= MaxWait
<1> DEFINE c == w.cur_tries
           interval == w.opt.interval_seconds
<1>1. /\ w.opt \in SendOpts /\ c \in Nat /\ w.since \in Nat
      /\ c \in 1..Attempts(w.opt)
  BY DEF Packets
<1>2. /\ interval \in Nat /\ w.opt.tries \in Nat
      /\ Attempts(w.opt) \in Nat \ {0} /\ Patience(w.opt) \in Nat
  BY <1>1, OptParts
<1>3. c \in Nat \ {0} /\ c - 1 \in Nat /\ c <= Attempts(w.opt)
  BY <1>1, <1>2
<1>4. Patience(w.opt) = Attempts(w.opt) * interval /\ Patience(w.opt) <= MaxWait
  BY <1>1, MaxWaitIsMax DEF Patience
<1>5. c >= w.opt.tries => c = Attempts(w.opt)
  BY <1>1, <1>2, <1>3 DEF Attempts
<1> HIDE DEF c, interval
<1>6. (c - 1) * interval \in Nat /\ c * interval = (c - 1) * interval + interval
  BY <1>2, <1>3
<1>7. c * interval <= Patience(w.opt)
  <2>1. \A m, n, k \in Nat : m <= n => m * k <= n * k
    OBVIOUS
  <2>2. QED BY <1>2, <1>3, <1>4, <2>1
<1>8. c >= w.opt.tries => c * interval = Patience(w.opt)
  BY <1>4, <1>5
<1>9. QED BY <1>1, <1>2, <1>3, <1>4, <1>6, <1>7, <1>8 DEF c, interval

\* A second more, of the packet and of the history.
LEMMA SecondWaited ==
  ASSUME NEW w \in Packets, NEW seconds \in 0..MaxWait, WaitedFor(w, seconds),
         NEW v \in Packets, v.opt = w.opt, v.cur_tries = w.cur_tries,
         v.since = Capped(w.since, w.opt.interval_seconds)
  PROVE  WaitedFor(v, Capped(seconds, MaxWait))
<1> DEFINE interval == w.opt.interval_seconds
           done == (w.cur_tries - 1) * interval
<1>1. /\ done \in Nat /\ interval \in Nat /\ w.since \in Nat
      /\ done + interval <= MaxWait /\ MaxWait \in Nat
  <2>1. MaxWait \in Nat
    BY MaxWaitIsMax
  <2>2. /\ done \in Nat /\ interval \in Nat /\ w.since \in Nat
        /\ w.cur_tries * interval = done + interval
        /\ w.cur_tries * interval <= Patience(w.opt)
        /\ Patience(w.opt) \in Nat /\ Patience(w.opt) <= MaxWait
    BY Intervals
  <2> HIDE DEF done, interval
  <2>3. QED BY <2>1, <2>2
<1>2. w.since <= interval /\ done + w.since <= seconds
  BY DEF WaitedFor
<1>3. v.opt.interval_seconds = interval
      /\ (v.cur_tries - 1) * v.opt.interval_seconds = done
  OBVIOUS
<1> HIDE DEF done, interval
<1>4. /\ Capped(w.since, interval) <= interval
      /\ done + Capped(w.since, interval) <= Capped(seconds, MaxWait)
  BY <1>1, <1>2 DEF Capped
<1>5. QED BY <1>3, <1>4 DEF WaitedFor, interval

\* A due packet that is sent once more, or given up.
LEMMA DueWaited ==
  ASSUME NEW w \in Packets, NEW seconds \in Nat, WaitedFor(w, seconds),
         w.since >= w.opt.interval_seconds
  PROVE  /\ w.cur_tries >= w.opt.tries => seconds >= Patience(w.opt)
         /\ w.cur_tries * w.opt.interval_seconds <= seconds
<1> DEFINE interval == w.opt.interval_seconds
           done == (w.cur_tries - 1) * interval
           next == w.cur_tries * interval
<1>1. /\ done \in Nat /\ interval \in Nat /\ w.since \in Nat
      /\ next = done + interval
      /\ w.cur_tries >= w.opt.tries => next = Patience(w.opt)
  BY Intervals
<1>2. w.since >= interval /\ done + w.since <= seconds
  BY DEF WaitedFor
<1> HIDE DEF done, interval, next
<1>3. next <= seconds
  BY <1>1, <1>2
<1>4. w.cur_tries >= w.opt.tries => seconds >= Patience(w.opt)
  BY <1>1, <1>3
<1>5. QED BY <1>3, <1>4 DEF next, interval

LEMMA KeptPatient ==
  ASSUME Patient,
         \A i \in DOMAIN write_packets' :
           /\ i \in DOMAIN write_packets /\ write_packets'[i] = write_packets[i]
           /\ waited'[i] = waited[i]
  PROVE  Patient'
  BY DEF Patient

LEMMA WithoutPatient ==
  ASSUME TypeInv, Patient, NEW ids, write_packets' = Without(ids),
         waited' = WaitedBy(DOMAIN write_packets \ ids)
  PROVE  Patient'
<1>1. ASSUME NEW i \in DOMAIN write_packets'
      PROVE  /\ i \in DOMAIN write_packets /\ write_packets'[i] = write_packets[i]
             /\ waited'[i] = waited[i]
  <2>1. i \in DOMAIN write_packets \ ids /\ write_packets'[i] = write_packets[i]
    BY DEF Without
  <2>2. i \in Requests
    BY <2>1, PendingPackets
  <2>3. QED BY <2>1, <2>2 DEF WaitedBy
<1>2. QED BY <1>1, KeptPatient

LEMMA SendPatient ==
  ASSUME TypeInv, Patient, RunSend PROVE Patient'
<1> DEFINE h == Head(ioq)
<1>1. h.id \in Requests /\ h.opt \in SendOpts
  BY NextHandler, HandlerParts DEF TypeInv, RunSend
<1>2. /\ DOMAIN write_packets' = DOMAIN write_packets \union {h.id}
      /\ \A i \in DOMAIN write_packets' :
           write_packets'[i] = IF i = h.id
                               THEN [opt |-> h.opt, cur_tries |-> 1, since |-> 0]
                               ELSE write_packets[i]
      /\ waited' = waited
  BY DEF RunSend, historyVars
<1> HIDE DEF h
<1>3. ASSUME NEW i \in DOMAIN write_packets'
      PROVE  WaitedFor(write_packets'[i], waited'[i])
  <2>1. CASE i = h.id
    <3>1. waited[i] \in 0..MaxWait /\ waited[i] \in Nat
      BY <1>1, <2>1, MaxWaitIsMax DEF TypeInv, HistoryOK
    <3>2. h.opt.interval_seconds \in Nat
      BY <1>1, OptParts
    <3>3. (1 - 1) * h.opt.interval_seconds + 0 = 0
      BY <3>2
    <3>4. /\ write_packets'[i].opt = h.opt /\ write_packets'[i].cur_tries = 1
          /\ write_packets'[i].since = 0
      BY <1>2, <2>1
    <3>5. QED BY <1>2, <3>1, <3>2, <3>3, <3>4 DEF WaitedFor
  <2>2. CASE i # h.id
    BY <1>2, <2>2 DEF Patient
  <2>3. QED BY <2>1, <2>2
<1>4. QED BY <1>3 DEF Patient

LEMMA TickPatient ==
  ASSUME TypeInv, Patient, RunTimer, Head(ioq).timer \in DOMAIN timers
  PROVE  /\ Patient'
         /\ called' = CalledFor(Exhausted)
         /\ \A i \in Exhausted : waited[i] >= Patience(write_packets[i].opt)
<1>1. /\ write_packets' =
           [i \in DOMAIN write_packets \ Exhausted |->
              IF i \in Due THEN Retried(i) ELSE write_packets[i]]
      /\ called' = CalledFor(Exhausted)
      /\ waited' = WaitedBy(DOMAIN write_packets \ Exhausted)
  BY DEF RunTimer
<1>2. ASSUME NEW i \in Due
      PROVE  /\ i \in DOMAIN write_packets /\ write_packets[i] \in Packets
             /\ WaitedFor(write_packets[i], waited[i]) /\ waited[i] \in Nat
             /\ write_packets[i].since >= write_packets[i].opt.interval_seconds
  BY PendingPackets DEF Due, Patient
<1>3. ASSUME NEW i \in Exhausted
      PROVE  waited[i] >= Patience(write_packets[i].opt)
  <2>1. i \in Due /\ write_packets[i].cur_tries >= write_packets[i].opt.tries
    BY DEF Exhausted
  <2>2. QED BY <1>2, <2>1, DueWaited
<1>4. ASSUME NEW i \in DOMAIN write_packets'
      PROVE  WaitedFor(write_packets'[i], waited'[i])
  <2>1. i \in DOMAIN write_packets \ Exhausted /\ i \in Requests
    BY <1>1, PendingPackets
  <2>2. waited'[i] = waited[i]
    BY <1>1, <2>1 DEF WaitedBy
  <2>3. CASE i \in Due
    <3> DEFINE w == write_packets[i]
    <3>1. /\ w \in Packets /\ w.cur_tries + 1 \in Nat
          /\ w \in [opt : SendOpts, cur_tries : Nat, since : Nat]
      BY <1>2, <2>3 DEF Packets
    <3>2. w.cur_tries * w.opt.interval_seconds <= waited[i]
      BY <1>2, <2>3, DueWaited
    <3>3. write_packets'[i] = [w EXCEPT !.cur_tries = w.cur_tries + 1, !.since = 0]
      BY <1>1, <2>1, <2>3 DEF Retried
    <3>4. /\ w.cur_tries \in Nat /\ w.opt.interval_seconds \in Nat
          /\ w.cur_tries * w.opt.interval_seconds \in Nat
      BY <3>1, Intervals
    <3>5. waited[i] \in Nat
      BY <1>2, <2>3
    <3> HIDE DEF w
    <3>6. /\ write_packets'[i].cur_tries = w.cur_tries + 1
          /\ write_packets'[i].opt = w.opt /\ write_packets'[i].since = 0
      BY <3>1, <3>3, OneMoreTry
    <3>7. (w.cur_tries + 1) - 1 = w.cur_tries
      BY <3>4
    <3>8. QED BY <2>2, <3>2, <3>4, <3>5, <3>6, <3>7 DEF WaitedFor
  <2>4. CASE i \notin Due
    BY <1>1, <2>1, <2>2, <2>4 DEF Patient
  <2>5. QED BY <2>3, <2>4
<1>5. QED BY <1>1, <1>3, <1>4 DEF Patient

LEMMA SecondPatient ==
  ASSUME TypeInv, Patient, Second PROVE Patient'
<1>1. /\ DOMAIN write_packets' = DOMAIN write_packets
      /\ \A i \in DOMAIN write_packets' :
           write_packets'[i] =
             [write_packets[i] EXCEPT
                !.since = Capped(@, write_packets[i].opt.interval_seconds)]
      /\ waited' = [i \in Requests |-> IF i \in DOMAIN write_packets
                                       THEN Capped(waited[i], MaxWait) ELSE 0]
  BY DEF Second
<1>2. TypeInv'
  BY SecondTypes
<1>3. ASSUME NEW i \in DOMAIN write_packets'
      PROVE  WaitedFor(write_packets'[i], waited'[i])
  <2> DEFINE w == write_packets[i]
             v == write_packets'[i]
  <2>1. /\ w \in Packets /\ waited[i] \in 0..MaxWait /\ i \in Requests
        /\ WaitedFor(w, waited[i])
        /\ w \in [opt : SendOpts, cur_tries : Nat, since : Nat]
    BY <1>1, PendingPackets DEF Patient, Packets
  <2>2. v \in Packets
    BY <1>2 DEF TypeInv, PacketsOK, Packets
  <2>3. v = [w EXCEPT !.since = Capped(w.since, w.opt.interval_seconds)]
    BY <1>1
  <2>4. waited'[i] = Capped(waited[i], MaxWait)
    BY <1>1, <2>1
  <2> HIDE DEF w, v
  <2>5. /\ v.opt = w.opt /\ v.cur_tries = w.cur_tries
        /\ v.since = Capped(w.since, w.opt.interval_seconds)
    BY <2>1, <2>3
  <2>6. WaitedFor(v, Capped(waited[i], MaxWait))
    BY <2>1, <2>2, <2>5, SecondWaited
  <2>7. QED BY <2>4, <2>6 DEF v
<1>4. QED BY <1>3 DEF Patient

LEMMA NextPatient ==
  ASSUME TypeInv, Patient, [Next]_vars PROVE Patient'
<1>1. CASE UNCHANGED <<write_packets, waited>>
  BY <1>1, KeptPatient
<1>2. CASE RunStop
  <2>1. DOMAIN write_packets' = {}
    BY <1>2 DEF RunStop, Without, TypeInv, PacketsOK
  <2>2. QED BY <2>1 DEF Patient
<1>3. CASE RunSend
  BY <1>3, SendPatient
<1>4. CASE RunCancel
  <2> DEFINE ids == {Head(ioq).id} \intersect DOMAIN write_packets
  <2>1. write_packets' = Without(ids) /\ waited' = WaitedBy(DOMAIN write_packets \ ids)
    BY <1>4 DEF RunCancel
  <2> HIDE DEF ids
  <2>2. QED BY <2>1, WithoutPatient
<1>5. CASE RunReadResponse
  <2> DEFINE ids == {Head(ioq).packet.id} \intersect DOMAIN write_packets
  <2>1. write_packets' = Without(ids) /\ waited' = WaitedBy(DOMAIN write_packets \ ids)
    BY <1>5 DEF RunReadResponse
  <2> HIDE DEF ids
  <2>2. QED BY <2>1, WithoutPatient
<1>6. CASE RunTimer
  <2>1. CASE Head(ioq).timer \in DOMAIN timers
    BY <1>6, <2>1, TickPatient
  <2>2. CASE Head(ioq).timer \notin DOMAIN timers
    BY <1>1, <1>6, <2>2 DEF RunTimer, clientVars, historyVars
  <2>3. QED BY <2>1, <2>2
<1>7. CASE Second
  BY <1>7, SecondPatient
<1>8. CASE /\ RunHandler /\ ~RunStop /\ ~RunSend /\ ~RunCancel
           /\ ~RunReadResponse /\ ~RunTimer
  <2>1. UNCHANGED <<write_packets, waited>>
    BY <1>8 DEF RunHandler, RunStart, RunSubscription, RunTimerStart,
       RunTimerStop, RunConnect, RunReadPush, RunReadError, RunWriteError,
       clientVars, historyVars
  <2>2. QED BY <1>1, <2>1
<1>9. CASE CallAPI
  BY <1>1, <1>9 DEF CallAPI, CallStart, CallStop, PostStop, SendReqAsync,
     SendCancel, SubscribeNotification, UnsubscribeNotification, clientVars,
     historyVars
<1>10. CASE Network
  BY <1>1, <1>10, NetworkTypes DEF Delivers, clientVars, historyVars
<1>11. CASE UNCHANGED vars
  BY <1>1, <1>11 DEF vars, clientVars, historyVars
<1>12. QED BY <1>2, <1>3, <1>4, <1>5, <1>6, <1>7, <1>8, <1>9, <1>10, <1>11
           DEF Next

\* Only a timer tick runs callbacks of requests that had no answer.
LEMMA NextTimesOut ==
  ASSUME TypeInv, Patient, [Next]_vars, NEW i \in Requests,
         called'[i] # called[i], Head(ioq).op = "timer"
  PROVE  waited[i] >= Patience(write_packets[i].opt)
<1>1. called' # called
  OBVIOUS
<1>2. RunTimer /\ Head(ioq).timer \in DOMAIN timers
  <2>1. CASE RunHandler
    <3>1. RunTimer
      BY <1>1, <2>1 DEF RunHandler, Runs, RunStart, RunStop, RunSend, RunCancel,
         RunSubscription, RunTimerStart, RunTimerStop, RunConnect,
         RunReadResponse, RunReadPush, RunReadError, RunWriteError, historyVars
    <3>2. QED BY <1>1, <3>1 DEF RunTimer, historyVars
  <2>2. CASE CallAPI
    BY <1>1, <2>2 DEF CallAPI, CallStart, CallStop, PostStop, SendReqAsync,
       SendCancel, SubscribeNotification, UnsubscribeNotification, historyVars
  <2>3. CASE Second
    BY <1>1, <2>3 DEF Second
  <2>4. CASE Network
    BY <1>1, <2>4, NetworkTypes DEF Delivers, historyVars
  <2>5. CASE UNCHANGED vars
    BY <1>1, <2>5 DEF vars, historyVars
  <2>6. QED BY <2>1, <2>2, <2>3, <2>4, <2>5 DEF Next
<1>3. /\ called' = CalledFor(Exhausted)
      /\ \A j \in Exhausted : waited[j] >= Patience(write_packets[j].opt)
  BY <1>2, TickPatient
<1>4. i \in Exhausted
  BY <1>3 DEF CalledFor
<1>5. QED BY <1>3, <1>4

\* A request fails only after tries times its interval, whatever connections
\* came and went in the meantime, and however late the timer's ticks ran.
THEOREM ClientTimesOutInTime == Spec => TimeoutNotEarly
<1>1. Init => TypeInv /\ Patient
  BY InitTypes DEF Init, Patient
<1>2. TypeInv /\ Patient /\ [Next]_vars => (TypeInv /\ Patient)'
  BY NextTypes, NextPatient
<1>3. TypeInv /\ Patient /\ [Next]_vars
        => [\A i \in Requests :
              called'[i] # called[i] /\ Head(ioq).op = "timer" =>
                waited[i] >= Patience(write_packets[i].opt)]_vars
  BY NextTimesOut
<1>4. QED BY <1>1, <1>2, <1>3, PTL DEF Spec, TimeoutNotEarly

-----------------------------------------------------------------------------
(* The timer of a started client, if one thread makes the calls.  A second *)
(* thread could run start() between the two halves of a stop(), whose      *)
(* stop_impl would then stop the new timer.                                *)

OneThread == \A t, u \in Threads : t = u

\* A start() or stop() is queued for a thread that waits for it: with one
\* thread there is one at most.  A stop() that began left the flag cleared.
CallsInTurn ==
    /\ \A n \in 1..Len(ioq) :
         ioq[n].op \in {"start", "stop"} =>
           /\ caller[ioq[n].thread] = "waiting"
           /\ ioq[n].op = "stop" => ~started
           /\ \A m \in 1..Len(ioq) : ioq[m].op \in {"start", "stop"} => m = n
    /\ \A t \in Threads : caller[t] = "stopping" => ~started

\* No timer is about to be stopped that was not yet started.
StopsKnown ==
    \A n \in 1..Len(ioq) :
      ioq[n].op = "timer_stop" => ioq[n].timer \in 0..cur_timer_id

\* A handler of this kind waits for the client's timer.
TickWaits(op) ==
    \E n \in 1..Len(ioq) : ioq[n].op = op /\ ioq[n].timer = check_timer_id

TimerSet == check_timer_id \in DOMAIN timers

HasTimer ==
    /\ \/ TimerSet /\ timers[check_timer_id] = "armed"
       \/ TickWaits("timer_start")
       \/ TimerSet /\ TickWaits("timer")
    /\ ~TickWaits("timer_stop")

TickInv == CallsInTurn /\ StopsKnown /\ (started => HasTimer)

LEMMA TickInvHasTimer == TickInv => StartedHasTimer
<1> SUFFICES ASSUME TickInv, started
             PROVE  /\ \/ TimerSet /\ timers[check_timer_id] = "armed"
                       \/ \E n \in Queued("timer_start") \union Queued("timer") :
                            ioq[n].timer = check_timer_id
                    /\ \A n \in Queued("timer_stop") : ioq[n].timer # check_timer_id
  BY DEF StartedHasTimer, TimerSet
<1>1. HasTimer
  BY DEF TickInv
<1>2. \A op : TickWaits(op) <=> \E n \in Queued(op) : ioq[n].timer = check_timer_id
  BY DEF TickWaits, Queued
<1>3. QED BY <1>1, <1>2 DEF HasTimer

-----------------------------------------------------------------------------
(* What the steps do to these handlers in the queue.                       *)

CompletionOps == {"connect", "read_error", "write_error"}

\* Of the handlers only start_impl and stop_impl queue anything but
\* completions.
NewTick(h) ==
    \/ h.op \in CompletionOps
    \/ /\ RunStart /\ ~started
       /\ h = [op |-> "timer_start", timer |-> cur_timer_id']
    \/ RunStop /\ h = [op |-> "timer_stop", timer |-> check_timer_id]

LEMMA OnlyCompletions ==
  ASSUME TypeInv, RunHandler, ~RunStart, ~RunStop
  PROVE  \E handlers \in Seq(Completions) : ioq # <<>> /\ Queues(handlers)
<1>1. <<>> \in Seq(Completions)
  OBVIOUS
<1>2. ioq # <<>>
  BY DEF RunHandler, Runs, RunSend, RunCancel, RunSubscription, RunTimerStart,
     RunTimerStop, RunTimer, RunConnect, RunReadResponse, RunReadPush,
     RunReadError, RunWriteError
<1>3. WriteErrors \in Seq(Completions)
  BY <1>2, WritesType DEF TypeInv
<1>4. Aborted \in Seq(Completions) /\ AbortedByClose \in Seq(Completions)
  BY AbortedType DEF TypeInv
<1>5. \/ Queues(<<>>) \/ Queues(WriteErrors)
      \/ Queues(Aborted) \/ Queues(AbortedByClose)
  BY DEF RunHandler, RunSend, RunCancel, RunSubscription, RunTimerStart,
     RunTimerStop, RunTimer, RunConnect, RunReadResponse, RunReadPush,
     RunReadError, RunWriteError
<1>6. QED BY <1>1, <1>2, <1>3, <1>4, <1>5

\* What is queued is new, or was queued a place further back.
LEMMA QueuedBefore ==
  ASSUME TypeInv, NEW handlers \in Seq(Handlers), ioq # <<>>, Queues(handlers),
         NEW n \in 1..Len(ioq')
  PROVE  \/ n + 1 \in 1..Len(ioq) /\ n + 1 # 1 /\ ioq'[n] = ioq[n + 1]
         \/ \E k \in 1..Len(handlers) : ioq'[n] = handlers[k]
<1>1. /\ Len(ioq) \in Nat \ {0} /\ Len(handlers) \in Nat
      /\ Len(ioq') = Len(ioq) - 1 + Len(handlers)
      /\ \A m \in 1..(Len(ioq) - 1) : ioq'[m] = ioq[m + 1]
      /\ \A k \in 1..Len(handlers) : ioq'[Len(ioq) - 1 + k] = handlers[k]
  BY QueueAfter DEF TypeInv
<1>2. CASE n \in 1..(Len(ioq) - 1)
  BY <1>1, <1>2
<1>3. CASE n \notin 1..(Len(ioq) - 1)
  <2> DEFINE k == n - (Len(ioq) - 1)
  <2>1. k \in 1..Len(handlers) /\ Len(ioq) - 1 + k = n
    BY <1>1, <1>3
  <2>2. ioq'[n] = handlers[k]
    BY <1>1, <2>1
  <2>3. QED BY <2>1, <2>2
<1>4. QED BY <1>2, <1>3

LEMMA CompletionsAreTicks ==
  ASSUME NEW handlers \in Seq(Completions), NEW k \in 1..Len(handlers)
  PROVE  NewTick(handlers[k])
<1>1. handlers[k] \in Completions
  OBVIOUS
<1>2. QED BY <1>1, CompletionTypes DEF NewTick, CompletionOps

LEMMA StartQueues ==
  ASSUME TypeInv, RunStart, ~started
  PROVE  \E handlers \in Seq(Handlers) :
           /\ ioq # <<>> /\ Queues(handlers)
           /\ \A k \in 1..Len(handlers) : NewTick(handlers[k])
           /\ \E k \in 1..Len(handlers) :
                handlers[k] = [op |-> "timer_start", timer |-> cur_timer_id']
<1> DEFINE start == [op |-> "timer_start", timer |-> cur_timer_id']
           timed == <<start>>
           handlers == Aborted \o timed
<1>1. start \in Handlers /\ NewTick(start)
  <2>1. cur_timer_id' \in Nat
    BY RunStartTypes DEF TypeInv, TimersOK
  <2>2. QED BY <2>1 DEF Handlers, NewTick
<1>2. ioq # <<>> /\ Queues(handlers)
  BY DEF RunStart, Runs
<1>3. Aborted \in Seq(Completions) /\ Aborted \in Seq(Handlers)
  BY AbortedType, CompletionTypes, SeqWider DEF TypeInv
<1> HIDE DEF start
<1>4. timed \in Seq(Handlers) /\ Len(timed) = 1 /\ timed[1] = start
  BY <1>1
<1> HIDE DEF timed
<1>5. /\ handlers \in Seq(Handlers) /\ Len(handlers) = Len(Aborted) + 1
      /\ \A k \in 1..Len(Aborted) : handlers[k] = Aborted[k]
      /\ handlers[Len(Aborted) + 1] = start
  <2>1. /\ handlers \in Seq(Handlers) /\ Len(handlers) = Len(Aborted) + Len(timed)
        /\ \A k \in 1..Len(Aborted) : handlers[k] = Aborted[k]
        /\ \A k \in 1..Len(timed) : handlers[Len(Aborted) + k] = timed[k]
    <3>1. timed \in Seq(Handlers)
      BY <1>4
    <3>2. Aborted \in Seq(Handlers)
      BY <1>3
    <3>3. QED BY <3>1, <3>2, Joined
  <2>2. 1 \in 1..Len(timed)
    BY <1>4
  <2>3. QED BY <1>4, <2>1, <2>2
<1> HIDE DEF handlers
<1>6. Len(Aborted) \in Nat
  BY <1>3
<1>7. ASSUME NEW k \in 1..Len(handlers) PROVE NewTick(handlers[k])
  <2>1. CASE k \in 1..Len(Aborted)
    BY <1>3, <1>5, <2>1, CompletionsAreTicks
  <2>2. CASE k \notin 1..Len(Aborted)
    <3>1. k = Len(Aborted) + 1
      BY <1>5, <1>6, <2>2
    <3>2. QED BY <1>1, <1>5, <3>1
  <2>3. QED BY <2>1, <2>2
<1>8. Len(Aborted) + 1 \in 1..Len(handlers)
  BY <1>5, <1>6
<1>9. QED BY <1>2, <1>5, <1>7, <1>8 DEF start

LEMMA StopQueues ==
  ASSUME TypeInv, RunStop
  PROVE  \E handlers \in Seq(Handlers) :
           /\ ioq # <<>> /\ Queues(handlers)
           /\ \A k \in 1..Len(handlers) : NewTick(handlers[k])
<1> DEFINE stop == [op |-> "timer_stop", timer |-> check_timer_id]
           timed == <<stop>>
           handlers == timed \o AbortedByClose
<1>1. stop \in Handlers /\ NewTick(stop)
  BY DEF TypeInv, TimersOK, Handlers, NewTick
<1>2. ioq # <<>> /\ Queues(handlers)
  BY DEF RunStop, Runs
<1>3. AbortedByClose \in Seq(Completions) /\ AbortedByClose \in Seq(Handlers)
  BY AbortedType, CompletionTypes, SeqWider DEF TypeInv
<1> HIDE DEF stop
<1>4. timed \in Seq(Handlers) /\ Len(timed) = 1 /\ timed[1] = stop
  BY <1>1
<1> HIDE DEF timed
<1>5. /\ handlers \in Seq(Handlers) /\ Len(handlers) = 1 + Len(AbortedByClose)
      /\ handlers[1] = stop
      /\ \A k \in 1..Len(AbortedByClose) : handlers[1 + k] = AbortedByClose[k]
  <2>1. /\ handlers \in Seq(Handlers)
        /\ Len(handlers) = Len(timed) + Len(AbortedByClose)
        /\ \A k \in 1..Len(timed) : handlers[k] = timed[k]
        /\ \A k \in 1..Len(AbortedByClose) :
             handlers[Len(timed) + k] = AbortedByClose[k]
    <3>1. timed \in Seq(Handlers)
      BY <1>4
    <3>2. AbortedByClose \in Seq(Handlers)
      BY <1>3
    <3>3. QED BY <3>1, <3>2, Joined
  <2>2. 1 \in 1..Len(timed)
    BY <1>4
  <2>3. QED BY <1>4, <2>1, <2>2
<1> HIDE DEF handlers
<1>6. ASSUME NEW k \in 1..Len(handlers) PROVE NewTick(handlers[k])
  <2>1. CASE k = 1
    BY <1>1, <1>5, <2>1
  <2>2. CASE k # 1
    <3>1. k - 1 \in 1..Len(AbortedByClose) /\ 1 + (k - 1) = k
      BY <1>3, <1>5, <2>2
    <3>2. NewTick(AbortedByClose[k - 1])
      BY <1>3, <3>1, CompletionsAreTicks
    <3>3. QED BY <1>5, <3>1, <3>2
  <2>3. QED BY <2>1, <2>2
<1>7. QED BY <1>2, <1>5, <1>6

LEMMA HandlerTicks ==
  ASSUME TypeInv, RunHandler, NEW n \in 1..Len(ioq')
  PROVE  \/ n + 1 \in 1..Len(ioq) /\ n + 1 # 1 /\ ioq'[n] = ioq[n + 1]
         \/ NewTick(ioq'[n])
<1>1. PICK handlers \in Seq(Handlers) :
        /\ ioq # <<>> /\ Queues(handlers)
        /\ \A k \in 1..Len(handlers) : NewTick(handlers[k])
  <2>1. CASE RunStart /\ ~started
    BY <2>1, StartQueues
  <2>2. CASE RunStop
    BY <2>2, StopQueues
  <2>3. CASE RunStart /\ started
    <3>1. ioq # <<>> /\ Queues(<<>>)
      BY <2>3 DEF RunStart, Runs
    <3>2. <<>> \in Seq(Handlers) /\ Len(<<>>) = 0
      OBVIOUS
    <3>3. \A k \in 1..Len(<<>>) : NewTick(<<>>[k])
      BY <3>2
    <3>4. QED BY <3>1, <3>2, <3>3
  <2>4. CASE ~RunStart /\ ~RunStop
    <3>1. PICK handlers \in Seq(Completions) : ioq # <<>> /\ Queues(handlers)
      BY <2>4, OnlyCompletions
    <3>2. handlers \in Seq(Handlers)
      BY CompletionTypes, SeqWider
    <3>3. QED BY <3>1, <3>2, CompletionsAreTicks
  <2>5. QED BY <2>1, <2>2, <2>3, <2>4
<1>2. QED BY <1>1, QueuedBefore

\* A call or the network adds one handler, and a second expired timers.
LEMMA PostedTicks ==
  ASSUME TypeInv, NEW h, Posting(h), NEW n \in 1..Len(ioq')
  PROVE  (n \in 1..Len(ioq) /\ ioq'[n] = ioq[n]) \/ ioq'[n] = h
<1>1. /\ Len(ioq) \in Nat /\ Len(ioq') = Len(ioq) + 1
      /\ \A m \in 1..Len(ioq) : ioq'[m] = ioq[m]
      /\ ioq'[Len(ioq) + 1] = h
  BY PostedBehind
<1>2. n \in 1..Len(ioq) \/ n = Len(ioq) + 1
  BY <1>1
<1>3. QED BY <1>1, <1>2

LEMMA StartQueued ==
  ASSUME TypeInv, RunStart, ~started
  PROVE  \E n \in 1..Len(ioq') :
           ioq'[n] = [op |-> "timer_start", timer |-> cur_timer_id']
<1>1. PICK handlers \in Seq(Handlers) :
        /\ ioq # <<>> /\ Queues(handlers)
        /\ \E k \in 1..Len(handlers) :
             handlers[k] = [op |-> "timer_start", timer |-> cur_timer_id']
  BY StartQueues
<1>2. PICK k \in 1..Len(handlers) :
        handlers[k] = [op |-> "timer_start", timer |-> cur_timer_id']
  BY <1>1
<1>3. /\ Len(ioq) \in Nat \ {0} /\ Len(handlers) \in Nat
      /\ Len(ioq') = Len(ioq) - 1 + Len(handlers)
      /\ \A j \in 1..Len(handlers) : ioq'[Len(ioq) - 1 + j] = handlers[j]
  BY <1>1, QueueAfter DEF TypeInv
<1>4. Len(ioq) - 1 + k \in 1..Len(ioq')
  BY <1>3
<1>5. QED BY <1>2, <1>3, <1>4

-----------------------------------------------------------------------------
(* Handlers.                                                               *)

\* A call that runs was the only one.
LEMMA CallRuns ==
  ASSUME TypeInv, CallsInTurn, Runs("start") \/ Runs("stop"),
         NEW n \in 1..Len(ioq), n # 1
  PROVE  ioq[n].op \notin {"start", "stop"}
<1>1. 1 \in 1..Len(ioq) /\ ioq[1].op \in {"start", "stop"}
  BY NextHandler DEF TypeInv
<1>2. QED BY <1>1 DEF CallsInTurn

LEMMA HandlersInTurn ==
  ASSUME OneThread, TypeInv, CallsInTurn, RunHandler
  PROVE  CallsInTurn'
<1>1. ASSUME NEW n \in 1..Len(ioq'), ioq'[n].op \in {"start", "stop"}
      PROVE  n + 1 \in 1..Len(ioq) /\ n + 1 # 1 /\ ioq'[n] = ioq[n + 1]
  BY <1>1, HandlerTicks DEF NewTick, CompletionOps
<1>2. CASE RunStart \/ RunStop
  <2>1. Runs("start") \/ Runs("stop")
    BY <1>2 DEF RunStart, RunStop
  <2>2. ASSUME NEW n \in 1..Len(ioq') PROVE ioq'[n].op \notin {"start", "stop"}
    BY <1>1, <2>1, CallRuns
  <2>3. ASSUME NEW t \in Threads PROVE caller'[t] # "stopping"
    <3>1. Head(ioq) \in Handlers /\ Head(ioq).op \in {"start", "stop"}
      BY <2>1, NextHandler DEF TypeInv
    <3>2. Head(ioq).thread = t
      BY <3>1, HandlerParts, OneThread DEF OneThread
    <3>3. caller' = [caller EXCEPT ![t] = "idle"]
      BY <1>2, <3>2 DEF RunStart, RunStop
    <3>4. QED BY <3>3 DEF TypeInv, FieldsOK
  <2>4. QED BY <2>2, <2>3 DEF CallsInTurn
<1>3. CASE ~RunStart /\ ~RunStop
  <2>1. UNCHANGED <<caller, started>>
    BY <1>3 DEF RunHandler, RunSend, RunCancel, RunSubscription, RunTimerStart,
       RunTimerStop, RunTimer, RunConnect, RunReadResponse, RunReadPush,
       RunReadError, RunWriteError, clientVars
  <2>2. ASSUME NEW n \in 1..Len(ioq'), ioq'[n].op \in {"start", "stop"}
        PROVE  /\ caller'[ioq'[n].thread] = "waiting"
               /\ ioq'[n].op = "stop" => ~started'
               /\ \A m \in 1..Len(ioq') : ioq'[m].op \in {"start", "stop"} => m = n
    <3>1. n + 1 \in 1..Len(ioq) /\ ioq'[n] = ioq[n + 1]
      BY <1>1, <2>2
    <3>2. ASSUME NEW m \in 1..Len(ioq'), ioq'[m].op \in {"start", "stop"}
          PROVE  m = n
      <4>1. m + 1 \in 1..Len(ioq) /\ ioq'[m] = ioq[m + 1]
        BY <1>1, <3>2
      <4>2. m + 1 = n + 1
        BY <2>2, <3>1, <3>2, <4>1 DEF CallsInTurn
      <4>3. m \in Int /\ n \in Int
        OBVIOUS
      <4>4. QED BY <4>2, <4>3
    <3>3. QED BY <2>1, <2>2, <3>1, <3>2 DEF CallsInTurn
  <2>3. QED BY <2>1, <2>2 DEF CallsInTurn
<1>4. QED BY <1>2, <1>3

LEMMA HandlerStopsKnown ==
  ASSUME TypeInv, StopsKnown, RunHandler
  PROVE  StopsKnown'
<1>1. cur_timer_id \in Nat /\ cur_timer_id' \in Nat /\ cur_timer_id <= cur_timer_id'
      /\ check_timer_id \in 0..cur_timer_id
  <2>1. cur_timer_id \in Nat /\ check_timer_id \in 0..cur_timer_id
    BY DEF TypeInv, TimersOK
  <2>2. cur_timer_id' = cur_timer_id + 1 \/ cur_timer_id' = cur_timer_id
    BY DEF RunHandler, RunStart, RunStop, RunSend, RunCancel, RunSubscription,
       RunTimerStart, RunTimerStop, RunTimer, RunConnect, RunReadResponse,
       RunReadPush, RunReadError, RunWriteError, clientVars, timerVars
  <2>3. QED BY <2>1, <2>2
<1>2. ASSUME NEW n \in 1..Len(ioq'), ioq'[n].op = "timer_stop"
      PROVE  ioq'[n].timer \in 0..cur_timer_id'
  <2>1. CASE n + 1 \in 1..Len(ioq) /\ ioq'[n] = ioq[n + 1]
    <3>1. ioq'[n].timer \in 0..cur_timer_id
      BY <1>2, <2>1 DEF StopsKnown
    <3>2. QED BY <1>1, <3>1
  <2>2. CASE NewTick(ioq'[n])
    <3>1. ioq'[n].timer = check_timer_id
      BY <1>2, <2>2 DEF NewTick, CompletionOps
    <3>2. QED BY <1>1, <3>1
  <2>3. QED BY <2>1, <2>2, HandlerTicks
<1>3. QED BY <1>2 DEF StopsKnown

\* What waits for the client's timer goes on waiting, but for the handler
\* that runs.
LEMMA TickWaitsStill ==
  ASSUME TypeInv, RunHandler, check_timer_id' = check_timer_id, NEW op,
         TickWaits(op), Head(ioq).op # op \/ Head(ioq).timer # check_timer_id
  PROVE  TickWaits(op)'
<1>1. PICK n \in 1..Len(ioq) : ioq[n].op = op /\ ioq[n].timer = check_timer_id
  BY DEF TickWaits
<1>2. Consuming
  BY HandlerTypes
<1>3. n # 1
  <2>1. ioq # <<>> /\ ioq \in Seq(Handlers)
    BY <1>2 DEF Consuming, Consumes, TypeInv, QueueOK
  <2>2. Head(ioq) = ioq[1]
    BY <2>1
  <2>3. QED BY <1>1, <2>2
<1>4. n - 1 \in 1..Len(ioq') /\ ioq'[n - 1] = ioq[n]
  BY <1>2, <1>3, StillQueued
<1>5. QED BY <1>1, <1>4 DEF TickWaits

\* Only stop_impl queues the end of a timer.
LEMMA HandlerNotStopped ==
  ASSUME TypeInv, RunHandler, ~RunStop, check_timer_id' = check_timer_id,
         ~TickWaits("timer_stop")
  PROVE  ~TickWaits("timer_stop")'
<1> SUFFICES ASSUME NEW n \in 1..Len(ioq'), ioq'[n].op = "timer_stop",
                    ioq'[n].timer = check_timer_id
             PROVE  FALSE
  BY DEF TickWaits
<1>1. ~NewTick(ioq'[n])
  BY DEF NewTick, CompletionOps
<1>2. n + 1 \in 1..Len(ioq) /\ ioq'[n] = ioq[n + 1]
  BY <1>1, HandlerTicks
<1>3. QED BY <1>2 DEF TickWaits

\* A handler leaves the client its timer.
LEMMA KeepsTimer ==
  ASSUME TypeInv, HasTimer, RunHandler, ~RunStop,
         check_timer_id' = check_timer_id
  PROVE  HasTimer'
<1>1. ~TickWaits("timer_stop")'
  BY HandlerNotStopped DEF HasTimer
<1>2. /\ ioq # <<>> /\ Head(ioq) = ioq[1] /\ 1 \in 1..Len(ioq)
  <2>1. ioq # <<>> /\ ioq \in Seq(Handlers)
    BY HandlerTypes DEF Consuming, Consumes, TypeInv, QueueOK
  <2>2. QED BY <2>1
<1>3. CASE RunTimerStart
  <2>1. timers' = [t \in DOMAIN timers \union {Head(ioq).timer} |->
                     IF t = Head(ioq).timer THEN "armed" ELSE timers[t]]
    BY <1>3 DEF RunTimerStart
  <2>2. CASE Head(ioq).timer = check_timer_id
    BY <1>1, <2>1, <2>2 DEF HasTimer, TimerSet
  <2>3. CASE Head(ioq).timer # check_timer_id
    <3>1. /\ TickWaits("timer_start") => TickWaits("timer_start")'
          /\ TickWaits("timer") => TickWaits("timer")'
      BY <2>3, TickWaitsStill
    <3>2. /\ TimerSet => TimerSet'
          /\ TimerSet => timers'[check_timer_id] = timers[check_timer_id]
      BY <2>1, <2>3 DEF TimerSet
    <3>3. QED BY <1>1, <3>1, <3>2 DEF HasTimer
  <2>4. QED BY <2>2, <2>3
<1>4. CASE RunTimerStop
  <2>1. timers' = [t \in DOMAIN timers \ {Head(ioq).timer} |-> timers[t]]
        /\ Head(ioq).op = "timer_stop"
    BY <1>4 DEF RunTimerStop, Runs
  <2>2. Head(ioq).timer # check_timer_id
    BY <1>2, <2>1 DEF HasTimer, TickWaits
  <2>3. /\ TickWaits("timer_start") => TickWaits("timer_start")'
        /\ TickWaits("timer") => TickWaits("timer")'
    BY <2>2, TickWaitsStill
  <2>4. /\ TimerSet => TimerSet'
        /\ TimerSet => timers'[check_timer_id] = timers[check_timer_id]
    BY <2>1, <2>2 DEF TimerSet
  <2>5. QED BY <1>1, <2>3, <2>4 DEF HasTimer
<1>5. CASE RunTimer
  <2>1. Head(ioq).op = "timer"
    BY <1>5 DEF RunTimer, Runs
  <2>2. TickWaits("timer_start") => TickWaits("timer_start")'
    BY <2>1, TickWaitsStill
  <2>3. CASE Head(ioq).timer \in DOMAIN timers
    <3>1. timers' = [timers EXCEPT ![Head(ioq).timer] = "armed"]
      BY <1>5, <2>3 DEF RunTimer, Rearmed
    <3>2. TimerSet => TimerSet'
      BY <3>1 DEF TimerSet
    <3>3. CASE Head(ioq).timer = check_timer_id
      <4>1. TimerSet' /\ timers'[check_timer_id'] = "armed"
        BY <2>3, <3>1, <3>3 DEF TimerSet
      <4>2. QED BY <1>1, <4>1 DEF HasTimer
    <3>4. CASE Head(ioq).timer # check_timer_id
      <4>1. TimerSet => timers'[check_timer_id] = timers[check_timer_id]
        BY <3>1, <3>4 DEF TimerSet
      <4>2. TickWaits("timer") => TickWaits("timer")'
        BY <3>4, TickWaitsStill
      <4>3. QED BY <1>1, <2>2, <3>2, <4>1, <4>2 DEF HasTimer
    <3>5. QED BY <3>3, <3>4
  <2>4. CASE Head(ioq).timer \notin DOMAIN timers
    <3>1. timers' = timers
      BY <1>5, <2>4 DEF RunTimer
    <3>2. TimerSet /\ TickWaits("timer") => TickWaits("timer")'
      BY <2>4, TickWaitsStill DEF TimerSet
    <3>3. TimerSet' <=> TimerSet
      BY <3>1 DEF TimerSet
    <3>4. QED BY <1>1, <2>2, <3>1, <3>2, <3>3 DEF HasTimer
  <2>5. QED BY <2>3, <2>4
<1>6. CASE ~RunTimerStart /\ ~RunTimerStop /\ ~RunTimer
  <2>1. timers' = timers /\ Head(ioq).op \notin {"timer_start", "timer"}
    BY <1>6 DEF RunHandler, Runs, RunStart, RunStop, RunSend, RunCancel,
       RunSubscription, RunConnect, RunReadResponse, RunReadPush, RunReadError,
       RunWriteError, timerVars
  <2>2. /\ TickWaits("timer_start") => TickWaits("timer_start")'
        /\ TickWaits("timer") => TickWaits("timer")'
    BY <2>1, TickWaitsStill
  <2>3. TimerSet' <=> TimerSet
    BY <2>1 DEF TimerSet
  <2>4. QED BY <1>1, <2>1, <2>2, <2>3 DEF HasTimer
<1>7. QED BY <1>3, <1>4, <1>5, <1>6

LEMMA HandlersHaveTimer ==
  ASSUME TypeInv, TickInv, RunHandler, started'
  PROVE  HasTimer'
<1>1. CASE RunStart /\ ~started
  <2>1. /\ check_timer_id' = cur_timer_id' /\ cur_timer_id' = cur_timer_id + 1
        /\ cur_timer_id \in Nat
    BY <1>1 DEF RunStart, TypeInv, TimersOK
  <2>2. TickWaits("timer_start")'
    <3>1. PICK n \in 1..Len(ioq') :
            ioq'[n] = [op |-> "timer_start", timer |-> cur_timer_id']
      BY <1>1, StartQueued
    <3>2. ioq'[n].op = "timer_start" /\ ioq'[n].timer = check_timer_id'
      BY <2>1, <3>1
    <3>3. QED BY <3>2 DEF TickWaits
  <2>3. ASSUME NEW n \in 1..Len(ioq'), ioq'[n].op = "timer_stop"
        PROVE  ioq'[n].timer # check_timer_id'
    <3>1. ~RunStop
      BY <1>1 DEF RunStart, RunStop, Runs
    <3>2. ~NewTick(ioq'[n])
      BY <2>3, <3>1 DEF NewTick, CompletionOps
    <3>3. n + 1 \in 1..Len(ioq) /\ ioq'[n] = ioq[n + 1]
      BY <3>2, HandlerTicks
    <3>4. ioq'[n].timer \in 0..cur_timer_id
      BY <2>3, <3>3 DEF TickInv, StopsKnown
    <3>5. QED BY <2>1, <3>4
  <2>4. QED BY <2>2, <2>3 DEF HasTimer, TickWaits
<1>2. CASE RunStop
  <2>1. 1 \in 1..Len(ioq) /\ ioq[1].op = "stop"
    BY <1>2, NextHandler DEF RunStop, TypeInv
  <2>2. ~started
    BY <2>1 DEF TickInv, CallsInTurn
  <2>3. QED BY <1>2, <2>2 DEF RunStop
<1>3. CASE ~(RunStart /\ ~started) /\ ~RunStop
  <2>1. UNCHANGED <<check_timer_id, started>>
    BY <1>3 DEF RunHandler, RunStart, RunSend, RunCancel, RunSubscription,
       RunTimerStart, RunTimerStop, RunTimer, RunConnect, RunReadResponse,
       RunReadPush, RunReadError, RunWriteError, clientVars
  <2>2. QED BY <1>3, <2>1, KeepsTimer DEF TickInv
<1>4. QED BY <1>1, <1>2, <1>3

-----------------------------------------------------------------------------
(* Calls, the network and time add to the queue.                           *)

\* Everything stays where it is, and what is new neither calls nor stops a timer.
Grows ==
    /\ \A n \in 1..Len(ioq) : n \in 1..Len(ioq') /\ ioq'[n] = ioq[n]
    /\ \A n \in 1..Len(ioq') :
         \/ n \in 1..Len(ioq)
         \/ ioq'[n].op \notin {"start", "stop", "timer_stop"}

\* What neither calls nor changes the client leaves it its timer.
LEMMA GrowingTick ==
  ASSUME TypeInv, TickInv, Grows, caller' = caller, started' = started,
         check_timer_id' = check_timer_id, cur_timer_id' = cur_timer_id,
         DOMAIN timers' = DOMAIN timers,
         TimerSet /\ timers[check_timer_id] = "armed" =>
           timers'[check_timer_id] = "armed" \/ TickWaits("timer")'
  PROVE  TickInv'
<1>1. CallsInTurn'
  <2>1. ASSUME NEW n \in 1..Len(ioq'), ioq'[n].op \in {"start", "stop"}
        PROVE  n \in 1..Len(ioq) /\ ioq'[n] = ioq[n]
    BY <2>1 DEF Grows
  <2>2. ASSUME NEW n \in 1..Len(ioq'), ioq'[n].op \in {"start", "stop"}
        PROVE  /\ caller'[ioq'[n].thread] = "waiting"
               /\ ioq'[n].op = "stop" => ~started'
               /\ \A m \in 1..Len(ioq') : ioq'[m].op \in {"start", "stop"} => m = n
    BY <2>1, <2>2 DEF TickInv, CallsInTurn
  <2>3. \A t \in Threads : caller'[t] = "stopping" => ~started'
    BY DEF TickInv, CallsInTurn
  <2>4. QED BY <2>2, <2>3 DEF CallsInTurn
<1>2. StopsKnown'
  BY DEF TickInv, StopsKnown, Grows
<1>3. ASSUME started' PROVE HasTimer'
  <2>1. HasTimer
    BY <1>3 DEF TickInv
  <2>2. \A op : TickWaits(op) => TickWaits(op)'
    BY DEF Grows, TickWaits
  <2>3. ~TickWaits("timer_stop")'
    BY <2>1 DEF HasTimer, Grows, TickWaits
  <2>4. TimerSet' <=> TimerSet
    BY DEF TimerSet
  <2>5. QED BY <2>1, <2>2, <2>3, <2>4 DEF HasTimer
<1>4. QED BY <1>1, <1>2, <1>3 DEF TickInv

LEMMA PostingGrows ==
  ASSUME TypeInv, NEW h, Posting(h), h.op \notin {"start", "stop", "timer_stop"}
  PROVE  Grows
<1>1. /\ Len(ioq) \in Nat /\ Len(ioq') = Len(ioq) + 1
      /\ \A n \in 1..Len(ioq) : ioq'[n] = ioq[n]
  BY PostedBehind
<1>2. \A n \in 1..Len(ioq) : n \in 1..Len(ioq')
  BY <1>1
<1>3. QED BY <1>1, <1>2, PostedTicks DEF Grows

\* The timer that expires in a second is queued.
LEMMA SecondExpires ==
  ASSUME TypeInv, Second, TimerSet, timers[check_timer_id] = "armed"
  PROVE  TickWaits("timer")'
<1> DEFINE armed == { t \in DOMAIN timers : timers[t] = "armed" }
           expired == Ascending(armed, cur_timer_id)
           handlers == [n \in 1..Len(expired) |->
                          [op |-> "timer", timer |-> expired[n]]]
<1>1. ioq' = ioq \o handlers /\ check_timer_id' = check_timer_id
  BY DEF Second
<1>2. cur_timer_id \in Nat /\ DOMAIN timers \subseteq 1..cur_timer_id
  BY DEF TypeInv, TimersOK
<1>3. check_timer_id \in armed \intersect (1..cur_timer_id)
  BY <1>2 DEF TimerSet
<1> HIDE DEF armed
<1>4. PICK k \in 1..Len(expired) : expired[k] = check_timer_id
  BY <1>2, <1>3, AscendingCovers
<1>5. expired \in Seq(armed \intersect (1..cur_timer_id))
  BY <1>2, AscendingType
<1>6. Len(expired) \in Nat /\ \A n \in 1..Len(expired) : expired[n] \in 1..cur_timer_id
  BY <1>5
<1>7. \A n \in 1..Len(expired) : expired[n] \in Nat
  BY <1>2, <1>6
<1> HIDE DEF expired
<1>8. /\ handlers \in Seq(Handlers) /\ Len(handlers) = Len(expired)
      /\ handlers[k] = [op |-> "timer", timer |-> check_timer_id]
  BY <1>4, <1>6, <1>7 DEF Handlers
<1> HIDE DEF handlers
<1>9. ioq \in Seq(Handlers)
  BY DEF TypeInv, QueueOK
<1>10. /\ Len(ioq') = Len(ioq) + Len(handlers)
       /\ ioq'[Len(ioq) + k] = handlers[k]
       /\ Len(ioq) \in Nat
  <2>1. /\ Len(ioq \o handlers) = Len(ioq) + Len(handlers)
        /\ \A j \in 1..Len(handlers) : (ioq \o handlers)[Len(ioq) + j] = handlers[j]
    <3>1. handlers \in Seq(Handlers)
      BY <1>8
    <3>2. QED BY <1>9, <3>1, Joined
  <2>2. k \in 1..Len(handlers)
    BY <1>8
  <2>3. Len(ioq) \in Nat
    BY <1>9
  <2>4. QED BY <1>1, <2>1, <2>2, <2>3
<1>11. Len(ioq) + k \in 1..Len(ioq')
  BY <1>6, <1>8, <1>10
<1>12. QED BY <1>1, <1>8, <1>10, <1>11 DEF TickWaits

LEMMA SecondTick ==
  ASSUME TypeInv, TickInv, Second PROVE TickInv'
<1>1. Grows
  <2>1. /\ Len(ioq) \in Nat /\ Len(ioq') \in Nat /\ Len(ioq) <= Len(ioq')
        /\ \A n \in 1..Len(ioq) : ioq'[n] = ioq[n]
        /\ \A n \in 1..Len(ioq') : n \notin 1..Len(ioq) => ioq'[n].op = "timer"
    BY SecondBehind
  <2>2. \A n \in 1..Len(ioq) : n \in 1..Len(ioq')
    BY <2>1
  <2>3. QED BY <2>1, <2>2 DEF Grows
<1>2. /\ caller' = caller /\ started' = started /\ check_timer_id' = check_timer_id
      /\ cur_timer_id' = cur_timer_id /\ DOMAIN timers' = DOMAIN timers
  BY DEF Second
<1>3. QED BY <1>1, <1>2, SecondExpires, GrowingTick

LEMMA NetworkTick ==
  ASSUME TypeInv, TickInv, Network PROVE TickInv'
<1>1. Delivers
  BY NetworkTypes
<1>2. /\ caller' = caller /\ started' = started /\ check_timer_id' = check_timer_id
      /\ cur_timer_id' = cur_timer_id /\ timers' = timers
  BY <1>1 DEF Delivers, clientVars, timerVars
<1>3. Grows
  <2>1. CASE UNCHANGED queueVars
    BY <2>1 DEF queueVars, Grows
  <2>2. CASE \E h : Posting(h) /\ h.op \in {"connect", "read", "read_error"}
    BY <2>2, PostingGrows
  <2>3. QED BY <1>1, <2>1, <2>2 DEF Delivers
<1>4. QED BY <1>2, <1>3, GrowingTick

\* With one thread, no call is queued when the thread makes one.
LEMMA NoCallQueued ==
  ASSUME OneThread, TypeInv, CallsInTurn, NEW t \in Threads, caller[t] # "waiting"
  PROVE  \A n \in 1..Len(ioq) : ioq[n].op \notin {"start", "stop"}
<1> SUFFICES ASSUME NEW n \in 1..Len(ioq), ioq[n].op \in {"start", "stop"}
             PROVE  FALSE
  OBVIOUS
<1>1. ioq[n] \in Handlers
  BY DEF TypeInv, QueueOK
<1>2. ioq[n].thread \in Threads
  BY <1>1, HandlerParts
<1>3. ioq[n].thread = t
  BY <1>2 DEF OneThread
<1>4. QED BY <1>3 DEF CallsInTurn

\* start() and the second half of stop() wait for what they post.
LEMMA CallingTick ==
  ASSUME OneThread, TypeInv, TickInv, NEW t \in Threads,
         NEW op \in {"start", "stop"}, op = "stop" => ~started,
         Posting([op |-> op, thread |-> t]), caller[t] # "waiting",
         caller' = [caller EXCEPT ![t] = "waiting"],
         UNCHANGED <<started, check_timer_id, timers, cur_timer_id>>
  PROVE  TickInv'
<1> DEFINE h == [op |-> op, thread |-> t]
<1>1. \A n \in 1..Len(ioq) : ioq[n].op \notin {"start", "stop"}
  BY NoCallQueued DEF TickInv
<1>2. h.op = op /\ h.thread = t /\ Posting(h)
  OBVIOUS
<1> HIDE DEF h
<1>3. /\ Len(ioq) \in Nat /\ Len(ioq') = Len(ioq) + 1
      /\ \A n \in 1..Len(ioq) : ioq'[n] = ioq[n]
      /\ ioq'[Len(ioq) + 1] = h
  BY <1>2, PostedBehind
<1>4. ASSUME NEW n \in 1..Len(ioq')
      PROVE  \/ n \in 1..Len(ioq) /\ ioq'[n] = ioq[n]
             \/ n = Len(ioq) + 1 /\ ioq'[n] = h
  BY <1>3
<1>5. \A u \in Threads : caller'[u] = "waiting"
  BY DEF OneThread, TypeInv, FieldsOK
<1>6. CallsInTurn'
  <2>1. ASSUME NEW n \in 1..Len(ioq'), ioq'[n].op \in {"start", "stop"}
        PROVE  n = Len(ioq) + 1 /\ ioq'[n] = h
    BY <1>1, <1>4, <2>1
  <2>2. ASSUME NEW n \in 1..Len(ioq'), ioq'[n].op \in {"start", "stop"}
        PROVE  /\ caller'[ioq'[n].thread] = "waiting"
               /\ ioq'[n].op = "stop" => ~started'
               /\ \A m \in 1..Len(ioq') : ioq'[m].op \in {"start", "stop"} => m = n
    BY <1>2, <1>5, <2>1, <2>2
  <2>3. \A u \in Threads : caller'[u] # "stopping"
    BY <1>5
  <2>4. QED BY <2>2, <2>3 DEF CallsInTurn
<1>7. StopsKnown'
  <2>1. h.op # "timer_stop"
    BY <1>2
  <2>2. QED BY <1>4, <2>1 DEF TickInv, StopsKnown
<1>8. ASSUME started' PROVE HasTimer'
  <2>1. HasTimer
    BY <1>8 DEF TickInv
  <2>2. \A n \in 1..Len(ioq) : n \in 1..Len(ioq')
    BY <1>3
  <2>3. \A x : TickWaits(x) => TickWaits(x)'
    BY <1>3, <2>2 DEF TickWaits
  <2>4. h.op # "timer_stop"
    BY <1>2
  <2>5. ~TickWaits("timer_stop")'
    BY <1>4, <2>1, <2>4 DEF HasTimer, TickWaits
  <2>6. TimerSet' <=> TimerSet
    BY DEF TimerSet
  <2>7. QED BY <2>1, <2>3, <2>5, <2>6 DEF HasTimer
<1>9. QED BY <1>6, <1>7, <1>8 DEF TickInv

LEMMA CallsTick ==
  ASSUME OneThread, TypeInv, TickInv, CallAPI PROVE TickInv'
<1>1. PICK t \in Threads :
        \/ CallStart(t) \/ CallStop(t) \/ PostStop(t)
        \/ \E opt \in SendOpts : SendReqAsync(t, opt)
        \/ \E i \in Requests : SendCancel(t, i)
        \/ \E cmd \in Cmds : SubscribeNotification(t, cmd)
                               \/ UnsubscribeNotification(t, cmd)
  BY DEF CallAPI
<1>2. CASE CallStart(t)
  <2>1. /\ Posting([op |-> "start", thread |-> t])
        /\ caller[t] # "waiting"
        /\ caller' = [caller EXCEPT ![t] = "waiting"]
        /\ UNCHANGED <<started, check_timer_id, timers, cur_timer_id>>
    BY <1>2 DEF CallStart, MayCall, Posting, Handlers, clientVars, timerVars
  <2>2. QED BY <2>1, CallingTick
<1>3. CASE PostStop(t)
  <2>1. /\ Posting([op |-> "stop", thread |-> t])
        /\ caller[t] # "waiting" /\ ~started
        /\ caller' = [caller EXCEPT ![t] = "waiting"]
        /\ UNCHANGED <<started, check_timer_id, timers, cur_timer_id>>
    BY <1>3 DEF PostStop, Posting, Handlers, clientVars, timerVars, TickInv,
       CallsInTurn
  <2>2. QED BY <2>1, CallingTick
<1>4. CASE CallStop(t)
  <2>1. /\ caller[t] # "waiting" /\ ~started'
        /\ UNCHANGED <<ioq, cur_timer_id>>
    BY <1>4 DEF CallStop, MayCall, timerVars, queueVars
  <2>2. \A n \in 1..Len(ioq) : ioq[n].op \notin {"start", "stop"}
    BY <2>1, NoCallQueued DEF TickInv
  <2>3. CallsInTurn'
    BY <2>1, <2>2 DEF CallsInTurn
  <2>4. StopsKnown'
    BY <2>1 DEF TickInv, StopsKnown
  <2>5. QED BY <2>1, <2>3, <2>4 DEF TickInv
<1>5. CASE \/ \E opt \in SendOpts : SendReqAsync(t, opt)
           \/ \E i \in Requests : SendCancel(t, i)
           \/ \E cmd \in Cmds : SubscribeNotification(t, cmd)
                                  \/ UnsubscribeNotification(t, cmd)
  <2>1. /\ UNCHANGED <<caller, started, check_timer_id, timers, cur_timer_id>>
        /\ \E h : Posted(h) /\ h \in Handlers
                    /\ h.op \in {"send", "cancel", "subscribe", "unsubscribe"}
    <3>1. ASSUME NEW opt \in SendOpts, SendReqAsync(t, opt)
          PROVE  \E h : Posted(h) /\ h \in Handlers /\ h.op = "send"
      <4> DEFINE h == [op |-> "send", id |-> cur_send_id', opt |-> opt]
      <4>1. Posted(h) /\ h \in Handlers
        BY <3>1, SendTypes DEF Posting
      <4>2. h.op = "send"
        OBVIOUS
      <4> HIDE DEF h
      <4>3. QED BY <4>1, <4>2
    <3>2. ASSUME NEW i \in Requests, SendCancel(t, i)
          PROVE  \E h : Posted(h) /\ h \in Handlers /\ h.op = "cancel"
      <4>1. Posted([op |-> "cancel", id |-> i]) /\ [op |-> "cancel", id |-> i] \in Handlers
        BY <3>2 DEF SendCancel, Handlers
      <4>2. QED BY <4>1
    <3>3. ASSUME NEW cmd \in Cmds, NEW op \in {"subscribe", "unsubscribe"},
                 Posted([op |-> op, cmd |-> cmd])
          PROVE  \E h : Posted(h) /\ h \in Handlers
                          /\ h.op \in {"subscribe", "unsubscribe"}
      <4>1. [op |-> op, cmd |-> cmd] \in Handlers
        BY DEF Handlers
      <4>2. QED BY <3>3, <4>1
    <3>4. UNCHANGED <<caller, started, check_timer_id, timers, cur_timer_id>>
      BY <1>5 DEF SendReqAsync, SendCancel, SubscribeNotification,
         UnsubscribeNotification, clientVars, timerVars
    <3>5. QED BY <1>5, <3>1, <3>2, <3>3, <3>4
                 DEF SubscribeNotification, UnsubscribeNotification
  <2>2. PICK h : /\ Posted(h) /\ h \in Handlers
                 /\ h.op \in {"send", "cancel", "subscribe", "unsubscribe"}
    BY <2>1
  <2>3. Posting(h) /\ h.op \notin {"start", "stop", "timer_stop"}
    BY <2>2 DEF Posting
  <2>4. Grows
    BY <2>3, PostingGrows
  <2>5. QED BY <2>1, <2>4, GrowingTick
<1>6. QED BY <1>1, <1>2, <1>3, <1>4, <1>5

LEMMA NextTick ==
  ASSUME OneThread PROVE TypeInv /\ TickInv /\ [Next]_vars => TickInv'
<1> SUFFICES ASSUME TypeInv, TickInv, [Next]_vars PROVE TickInv'
  OBVIOUS
<1>1. CASE RunHandler
  <2>1. CallsInTurn' /\ StopsKnown'
    BY <1>1, HandlersInTurn, HandlerStopsKnown DEF TickInv
  <2>2. QED BY <1>1, <2>1, HandlersHaveTimer DEF TickInv
<1>2. CASE UNCHANGED vars
  <2>1. UNCHANGED <<ioq, caller, started, check_timer_id, timers, cur_timer_id>>
    BY <1>2 DEF vars, clientVars, timerVars, queueVars
  <2>2. Grows
    BY <2>1 DEF Grows
  <2>3. QED BY <2>1, <2>2, GrowingTick
<1>3. QED BY <1>1, <1>2, CallsTick, SecondTick, NetworkTick DEF Next

LEMMA InitTick == Init => TickInv
<1>1. ASSUME Init PROVE Len(ioq) = 0 /\ ~started /\ \A t \in Threads : caller[t] = "idle"
  BY <1>1 DEF Init
<1>2. QED BY <1>1 DEF TickInv, CallsInTurn, StopsKnown

(* A client whose start() has returned, and whose stop() was not called    *)
(* since, has the timer that reconnects, resends and times out, and        *)
(* nothing is about to stop it, if all the calls are made by one thread:   *)
(* whatever calls, ticks and completions race on the io thread, and        *)
(* however far it lags.                                                    *)
THEOREM ClientHasTimer == ASSUME OneThread PROVE Spec => []StartedHasTimer
<1>1. Init => TypeInv /\ TickInv
  BY InitTypes, InitTick
<1>2. TypeInv /\ TickInv /\ [Next]_vars => (TypeInv /\ TickInv)'
  BY NextTypes, NextTick
<1>3. TickInv => StartedHasTimer
  BY TickInvHasTimer
<1>4. QED BY <1>1, <1>2, <1>3, PTL DEF Spec

-----------------------------------------------------------------------------
(* Reads take turns, if one thread makes the calls.  First the timer: of a *)
(* started client there is one, which is to be started, armed, or queued   *)
(* as expired, and each timer that is left over is about to be stopped.    *)

\* Where the client's timer is; 0 is in the map.
Tick(n) ==
    \/ /\ n = 0
       /\ check_timer_id \in DOMAIN timers /\ timers[check_timer_id] = "armed"
    \/ /\ n \in 1..Len(ioq)
       /\ ioq[n].op \in {"timer_start", "timer"} /\ ioq[n].timer = check_timer_id

OneTick == \A m, n : Tick(m) /\ Tick(n) => m = n

ExpirationsKnown ==
    \A n \in 1..Len(ioq) : ioq[n].op = "timer" => ioq[n].timer \in 1..cur_timer_id

\* Where a timer is given that may be found when it expires.
Given(n, t) ==
    \/ n = 0 /\ t \in DOMAIN timers
    \/ n \in 1..Len(ioq) /\ ioq[n].op = "timer_start" /\ ioq[n].timer = t

\* A timer is about to be stopped, and before a start() that is queued runs.
Stopping(n, t) ==
    /\ n \in 1..Len(ioq) /\ ioq[n].op = "timer_stop" /\ ioq[n].timer = t
    /\ \A s \in 1..Len(ioq) : ioq[s].op = "start" => n < s

OthersStop ==
    \A n, t : Given(n, t) /\ t # check_timer_id =>
      ~started /\ \E m : Stopping(m, t) /\ n < m

\* stop() was not called since stop_impl has run.
AtRest ==
    /\ ~started
    /\ \A t \in Threads : caller[t] # "stopping"
    /\ \A n \in 1..Len(ioq) : ioq[n].op # "stop"

OneTimer ==
    /\ OneTick /\ ExpirationsKnown /\ OthersStop
    /\ AtRest => check_timer_id = 0

\* All that was queued stays so, but for the s handlers that run (one or none).
Moved(s) ==
    /\ s \in {0, 1} /\ Len(ioq) \in Nat /\ Len(ioq') \in Nat
    /\ s <= Len(ioq) /\ Len(ioq) - s <= Len(ioq')
    /\ \A n \in 1..(Len(ioq) - s) : ioq'[n] = ioq[n + s]

Added(s, n) == n \in 1..Len(ioq') /\ n > Len(ioq) - s

TickOps == {"timer_start", "timer"}

\* No more timers are queued.
Unticked(s) ==
    /\ Moved(s)
    /\ \A n : Added(s, n) => ioq'[n].op \notin TickOps

LEMMA MovedBack ==
  ASSUME NEW s, Moved(s), NEW n \in 1..Len(ioq), n > s
  PROVE  n - s \in 1..Len(ioq') /\ ioq'[n - s] = ioq[n] /\ ~Added(s, n - s)
<1>1. n - s \in 1..(Len(ioq) - s) /\ (n - s) + s = n
  BY DEF Moved
<1>2. QED BY <1>1 DEF Moved, Added

LEMMA MovedFrom ==
  ASSUME NEW s, Moved(s), NEW n \in 1..Len(ioq'), ~Added(s, n)
  PROVE  n + s \in 1..Len(ioq) /\ ioq'[n] = ioq[n + s] /\ n + s > s
  BY DEF Moved, Added

\* What is about to be stopped stays so.
LEMMA StoppingStays ==
  ASSUME NEW s, Moved(s), NEW m, NEW t, Stopping(m, t), m > s
  PROVE  Stopping(m - s, t)'
<1>1. m - s \in 1..Len(ioq') /\ ioq'[m - s] = ioq[m]
  BY MovedBack DEF Stopping
<1>2. ASSUME NEW n \in 1..Len(ioq'), ioq'[n].op = "start" PROVE m - s < n
  <2>1. CASE Added(s, n)
    BY <1>1, <1>2, <2>1 DEF Added, Moved, Stopping
  <2>2. CASE ~Added(s, n)
    <3>1. n + s \in 1..Len(ioq) /\ ioq'[n] = ioq[n + s]
      BY <2>2, MovedFrom
    <3>2. m < n + s
      BY <1>2, <3>1 DEF Stopping
    <3>3. QED BY <3>1, <3>2 DEF Stopping, Moved
  <2>3. QED BY <2>1, <2>2
<1>3. QED BY <1>1, <1>2 DEF Stopping

LEMMA UntickedTimer ==
  ASSUME NEW s, Unticked(s), OneTimer, UNCHANGED <<check_timer_id, cur_timer_id>>,
         started' => started, AtRest' => AtRest,
         \A t \in DOMAIN timers' : t \in DOMAIN timers \/ (s = 1 /\ Given(1, t)),
         s = 1 /\ ioq[1].op = "timer_stop" => ioq[1].timer \notin DOMAIN timers',
         Tick(0)' => Tick(0) \/ (s = 1 /\ Tick(1))
  PROVE  OneTimer'
<1>0. Moved(s) /\ s \in {0, 1} /\ Len(ioq) \in Nat
  BY DEF Unticked, Moved
<1>1. ASSUME NEW n \in 1..Len(ioq'), ioq'[n].op \in TickOps
      PROVE  n + s \in 1..Len(ioq) /\ ioq'[n] = ioq[n + s] /\ n + s > s
  BY <1>0, <1>1, MovedFrom DEF Unticked
<1>2. OneTick'
  <2>1. ASSUME NEW n, Tick(n)'
        PROVE  \/ n = 0 /\ (Tick(0) \/ (s = 1 /\ Tick(1)))
               \/ n \in Nat /\ n > 0 /\ Tick(n + s) /\ n + s > s
    BY <1>1, <2>1 DEF Tick, TickOps
  <2>2. ASSUME NEW n, Tick(n)', n # 0, Tick(0)' PROVE FALSE
    <3>1. n \in Nat /\ n > 0 /\ Tick(n + s)
      BY <2>1, <2>2
    <3>2. CASE Tick(0)
      BY <1>0, <3>1, <3>2 DEF OneTimer, OneTick
    <3>3. CASE s = 1 /\ Tick(1)
      BY <1>0, <3>1, <3>3 DEF OneTimer, OneTick
    <3>4. QED BY <2>2, <3>2, <3>3
  <2>3. ASSUME NEW m, NEW n, Tick(m)', Tick(n)' PROVE m = n
    <3>1. CASE m = 0 \/ n = 0
      BY <2>2, <2>3, <3>1
    <3>2. CASE m # 0 /\ n # 0
      <4>1. Tick(m + s) /\ Tick(n + s) /\ m \in Nat /\ n \in Nat
        BY <2>1, <2>3, <3>2
      <4>2. m + s = n + s
        BY <4>1 DEF OneTimer, OneTick
      <4>3. QED BY <1>0, <4>1, <4>2
    <3>3. QED BY <3>1, <3>2
  <2>4. QED BY <2>3 DEF OneTick
<1>3. ExpirationsKnown'
  BY <1>1 DEF OneTimer, ExpirationsKnown, TickOps
<1>4. OthersStop'
  <2> SUFFICES ASSUME NEW n, NEW t, Given(n, t)', t # check_timer_id'
               PROVE  ~started' /\ \E m : Stopping(m, t)' /\ n < m
    BY DEF OthersStop
  <2>1. PICK k : /\ Given(k, t) /\ k \in Nat /\ n \in Nat /\ k >= n
                 /\ (n = 0 /\ k = 0 /\ t \in DOMAIN timers') \/ k = n + s
    <3>1. CASE n = 0 /\ t \in DOMAIN timers'
      <4>1. CASE t \in DOMAIN timers
        BY <3>1, <4>1 DEF Given
      <4>2. CASE s = 1 /\ Given(1, t)
        BY <3>1, <4>2
      <4>3. QED BY <3>1, <4>1, <4>2
    <3>2. CASE ~(n = 0 /\ t \in DOMAIN timers')
      <4>1. n \in 1..Len(ioq') /\ ioq'[n].op = "timer_start" /\ ioq'[n].timer = t
        BY <3>2 DEF Given
      <4>2. Given(n + s, t) /\ n + s \in Nat /\ n \in Nat
        BY <1>1, <4>1 DEF Given, TickOps
      <4>3. QED BY <1>0, <4>2
    <3>3. QED BY <3>1, <3>2
  <2>2. PICK m : Stopping(m, t) /\ k < m /\ ~started
    BY <2>1 DEF OneTimer, OthersStop
  <2>3. m \in 1..Len(ioq) /\ ioq[m].op = "timer_stop" /\ ioq[m].timer = t
    BY <2>2 DEF Stopping
  <2>4. m > s /\ n < m - s
    <3>1. CASE k = n + s
      BY <1>0, <2>1, <2>2, <2>3, <3>1
    <3>2. CASE n = 0 /\ k = 0 /\ t \in DOMAIN timers'
      <4>1. s = 1 => m # 1
        BY <2>3, <3>2
      <4>2. QED BY <1>0, <2>3, <3>2, <4>1
    <3>3. QED BY <2>1, <3>1, <3>2
  <2>6. Stopping(m - s, t)'
    BY <1>0, <2>2, <2>4, StoppingStays
  <2>7. QED BY <2>2, <2>4, <2>6
<1>5. QED BY <1>2, <1>3, <1>4 DEF OneTimer

\* What a handler queues comes behind what is in the queue.
LEMMA QueuesMoves ==
  ASSUME TypeInv, NEW handlers \in Seq(Handlers), ioq # <<>>, Queues(handlers)
  PROVE  /\ Moved(1) /\ 1 \in 1..Len(ioq)
         /\ Len(ioq') = Len(ioq) - 1 + Len(handlers) /\ Len(handlers) \in Nat
         /\ \A n : Added(1, n) =>
              /\ n - (Len(ioq) - 1) \in 1..Len(handlers)
              /\ ioq'[n] = handlers[n - (Len(ioq) - 1)]
         /\ \A k \in 1..Len(handlers) : Added(1, Len(ioq) - 1 + k)
<1>1. /\ ioq' \in Seq(Handlers)
      /\ Len(ioq) \in Nat \ {0} /\ Len(handlers) \in Nat
      /\ Len(ioq') = Len(ioq) - 1 + Len(handlers)
      /\ \A n \in 1..(Len(ioq) - 1) : ioq'[n] = ioq[n + 1]
      /\ \A k \in 1..Len(handlers) : ioq'[Len(ioq) - 1 + k] = handlers[k]
  BY QueueAfter DEF TypeInv
<1>2. Moved(1) /\ 1 \in 1..Len(ioq)
  BY <1>1 DEF Moved
<1>3. ASSUME NEW n, Added(1, n)
      PROVE  /\ n - (Len(ioq) - 1) \in 1..Len(handlers)
             /\ ioq'[n] = handlers[n - (Len(ioq) - 1)]
  <2>1. /\ n - (Len(ioq) - 1) \in 1..Len(handlers)
        /\ (Len(ioq) - 1) + (n - (Len(ioq) - 1)) = n
    BY <1>1, <1>3 DEF Added
  <2>2. QED BY <1>1, <2>1
<1>4. \A k \in 1..Len(handlers) : Added(1, Len(ioq) - 1 + k)
  BY <1>1 DEF Added
<1>5. QED BY <1>1, <1>2, <1>3, <1>4

LEMMA PostingMoves ==
  ASSUME TypeInv, NEW h, Posting(h)
  PROVE  /\ Moved(0) /\ Len(ioq') = Len(ioq) + 1
         /\ \A n : Added(0, n) <=> n = Len(ioq) + 1
         /\ ioq'[Len(ioq) + 1] = h
<1>1. /\ Len(ioq) \in Nat /\ Len(ioq') = Len(ioq) + 1
      /\ \A n \in 1..Len(ioq) : ioq'[n] = ioq[n]
      /\ ioq'[Len(ioq) + 1] = h
  BY PostedBehind
<1>2. \A n \in 1..Len(ioq) : n + 0 = n
  BY <1>1
<1>3. QED BY <1>1, <1>2 DEF Moved, Added

LEMMA UnchangedMoves ==
  ASSUME TypeInv, UNCHANGED ioq PROVE Moved(0) /\ \A n : ~Added(0, n)
<1>1. Len(ioq) \in Nat /\ \A n \in 1..Len(ioq) : n + 0 = n
  BY DEF TypeInv, QueueOK
<1>2. QED BY <1>1 DEF Moved, Added

LEMMA SecondMoves ==
  ASSUME TypeInv, Second
  PROVE  Moved(0) /\ \A n : Added(0, n) => ioq'[n].op = "timer"
<1>1. /\ Len(ioq) \in Nat /\ Len(ioq') \in Nat /\ Len(ioq) <= Len(ioq')
      /\ \A n \in 1..Len(ioq) : ioq'[n] = ioq[n]
      /\ \A n \in 1..Len(ioq') : n \notin 1..Len(ioq) => ioq'[n].op = "timer"
  BY SecondBehind
<1>2. \A n \in 1..Len(ioq) : n + 0 = n
  BY <1>1
<1>3. Moved(0)
  BY <1>1, <1>2 DEF Moved
<1>4. QED BY <1>1, <1>3 DEF Added

\* Handlers that queue completions only.
LEMMA CompletionsUnticked ==
  ASSUME TypeInv, NEW handlers \in Seq(Completions), ioq # <<>>, Queues(handlers)
  PROVE  Unticked(1) /\ \A n : Added(1, n) => ioq'[n].op \in CompletionOps
<1>1. handlers \in Seq(Handlers)
  BY SeqWider, CompletionTypes
<1>2. \A k \in 1..Len(handlers) : handlers[k].op \in CompletionOps
  BY CompletionTypes DEF CompletionOps
<1>3. QED BY <1>1, <1>2, QueuesMoves DEF Unticked, TickOps, CompletionOps

\* A handler that neither starts nor stops the client leaves AtRest.
LEMMA StillAtRest ==
  ASSUME NEW s, Moved(s), s = 1 => ioq[1].op # "stop", started' = started,
         caller' = caller, AtRest'
  PROVE  AtRest
<1>1. ASSUME NEW n \in 1..Len(ioq) PROVE ioq[n].op # "stop"
  <2>1. CASE n > s
    <3>1. n - s \in 1..Len(ioq') /\ ioq'[n - s] = ioq[n]
      BY <2>1, MovedBack
    <3>2. QED BY <3>1 DEF AtRest
  <2>2. CASE ~(n > s)
    BY <2>2 DEF Moved
  <2>3. QED BY <2>1, <2>2
<1>2. QED BY <1>1 DEF AtRest

\* The timers themselves are left alone by these.
LEMMA OthersKeepTimer ==
  ASSUME TypeInv, OneTimer, RunHandler, ~RunStart, ~RunStop, ~RunTimerStart,
         ~RunTimerStop, ~RunTimer
  PROVE  OneTimer'
<1>1. PICK handlers \in Seq(Completions) : ioq # <<>> /\ Queues(handlers)
  BY OnlyCompletions
<1>2. Unticked(1) /\ Moved(1)
  BY <1>1, CompletionsUnticked DEF Unticked
<1>3. UNCHANGED <<timers, check_timer_id, cur_timer_id, started, caller>>
  BY DEF RunHandler, RunSend, RunCancel, RunSubscription, RunConnect,
     RunReadResponse, RunReadPush, RunReadError, RunWriteError, timerVars
<1>4. ioq[1].op \notin {"stop", "timer_stop"}
  <2>1. Head(ioq) = ioq[1]
    BY <1>1 DEF TypeInv, QueueOK
  <2>2. QED BY <2>1 DEF RunHandler, RunSend, RunCancel, RunSubscription, RunConnect,
     RunReadResponse, RunReadPush, RunReadError, RunWriteError, Runs
<1>5. AtRest' => AtRest
  BY <1>2, <1>3, <1>4, StillAtRest
<1>6. Tick(0)' => Tick(0)
  BY <1>3 DEF Tick
<1>7. QED BY <1>2, <1>3, <1>4, <1>5, <1>6, UntickedTimer

LEMMA TimersKeepTimer ==
  ASSUME TypeInv, OneTimer, RunTimerStart \/ RunTimerStop \/ RunTimer
  PROVE  OneTimer'
<1>1. PICK handlers \in Seq(Completions) : ioq # <<>> /\ Queues(handlers)
  <2>1. RunHandler /\ ~RunStart /\ ~RunStop
    BY DEF RunHandler, RunStart, RunStop, RunTimerStart, RunTimerStop, RunTimer, Runs
  <2>2. QED BY <2>1, OnlyCompletions
<1>2. Unticked(1) /\ Moved(1)
  BY <1>1, CompletionsUnticked DEF Unticked
<1>3. UNCHANGED <<check_timer_id, cur_timer_id, started, caller>>
  BY DEF RunTimerStart, RunTimerStop, RunTimer, clientVars
<1>4. Head(ioq) = ioq[1] /\ 1 \in 1..Len(ioq)
  BY <1>1 DEF TypeInv, QueueOK
<1>5. ioq[1].op # "stop"
  BY <1>4 DEF RunTimerStart, RunTimerStop, RunTimer, Runs
<1>6. AtRest' => AtRest
  BY <1>2, <1>3, <1>5, StillAtRest
<1>7. CASE RunTimerStart
  <2>1. /\ ioq[1].op = "timer_start"
        /\ timers' = [t \in DOMAIN timers \union {ioq[1].timer} |->
                        IF t = ioq[1].timer THEN "armed" ELSE timers[t]]
    BY <1>4, <1>7 DEF RunTimerStart, Runs
  <2>2. \A t \in DOMAIN timers' : t \in DOMAIN timers \/ Given(1, t)
    BY <1>4, <2>1 DEF Given
  <2>3. Tick(0)' => Tick(0) \/ Tick(1)
    BY <1>3, <1>4, <2>1 DEF Tick
  <2>4. QED BY <1>2, <1>3, <1>6, <2>1, <2>2, <2>3, UntickedTimer
<1>8. CASE RunTimerStop
  <2>1. /\ ioq[1].op = "timer_stop"
        /\ timers' = [t \in DOMAIN timers \ {ioq[1].timer} |-> timers[t]]
    BY <1>4, <1>8 DEF RunTimerStop, Runs
  <2>2. Tick(0)' => Tick(0)
    BY <1>3, <2>1 DEF Tick
  <2>3. QED BY <1>2, <1>3, <1>6, <2>1, <2>2, UntickedTimer
<1>9. CASE RunTimer
  <2>1. /\ ioq[1].op = "timer" /\ DOMAIN timers' = DOMAIN timers
        /\ timers' = timers \/ timers' = [timers EXCEPT ![ioq[1].timer] = "armed"]
    BY <1>4, <1>9 DEF RunTimer, Runs, Rearmed
  <2>2. Tick(0)' => Tick(0) \/ Tick(1)
    BY <1>3, <1>4, <2>1 DEF Tick
  <2>3. QED BY <1>2, <1>3, <1>6, <2>1, <2>2, UntickedTimer
<1>10. QED BY <1>7, <1>8, <1>9

\* A start() that is queued runs only after all timers were stopped.
LEMMA StartsAtRest ==
  ASSUME OneThread, TypeInv, TickInv, ~started,
         NEW n \in 1..Len(ioq), ioq[n].op = "start"
  PROVE  AtRest
<1>1. ioq[n] \in Handlers /\ ioq[n].thread \in Threads
  BY HandlerParts DEF TypeInv, QueueOK
<1>2. caller[ioq[n].thread] = "waiting"
  BY DEF TickInv, CallsInTurn
<1>3. \A t \in Threads : caller[t] # "stopping"
  BY <1>1, <1>2 DEF OneThread
<1>4. \A m \in 1..Len(ioq) : ioq[m].op \in {"start", "stop"} => m = n
  BY DEF TickInv, CallsInTurn
<1>5. QED BY <1>3, <1>4 DEF AtRest

LEMMA StartFindsNoTimer ==
  ASSUME OneThread, TypeInv, TickInv, OneTimer, RunStart, ~started
  PROVE  AtRest /\ check_timer_id = 0 /\ \A n, t : ~Given(n, t)
<1>1. 1 \in 1..Len(ioq) /\ ioq[1].op = "start"
  BY NextHandler DEF RunStart, TypeInv
<1>2. AtRest /\ check_timer_id = 0
  BY <1>1, StartsAtRest DEF OneTimer
<1>3. ASSUME NEW n, NEW t, Given(n, t) PROVE FALSE
  <2>1. t # 0 /\ n \in Nat
    BY <1>3 DEF Given, TypeInv, TimersOK, QueueOK
  <2>2. PICK m : Stopping(m, t) /\ n < m
    BY <1>2, <1>3, <2>1 DEF OneTimer, OthersStop
  <2>3. m < 1 /\ m \in 1..Len(ioq)
    BY <1>1, <2>2 DEF Stopping
  <2>4. QED BY <2>3 DEF TypeInv, QueueOK
<1>4. QED BY <1>2, <1>3

-----------------------------------------------------------------------------
(* What closing the socket, or opening it again, queues.                   *)

\* The connect that was under way, if one was, and behind it the reads.
Aborts(handlers) ==
    \A j, k \in 1..Len(handlers) :
      /\ handlers[j].op \notin {"read", "write_error", "timer", "start", "stop"}
      /\ handlers[j].op = "connect" => socket = "opening"
      /\ handlers[j].op = "read_error" => reading > 0
      /\ handlers[j].op = "connect" /\ handlers[k].op = "connect" => j = k
      /\ handlers[j].op = "connect" /\ handlers[k].op = "read_error" => j < k
      /\ /\ handlers[j].op = "read_error" /\ handlers[k].op = "read_error"
         /\ reading = 1
         => j = k

LEMMA AbortedIs ==
  ASSUME NetOK
  PROVE  /\ Aborted \in Seq(Completions) /\ Aborts(Aborted)
         /\ AbortedByClose \in Seq(Completions) /\ Aborts(AbortedByClose)
<1> DEFINE reads == [n \in 1..reading |-> [op |-> "read_error"]]
           connect == IF socket = "opening"
                      THEN <<[op |-> "connect", ok |-> FALSE]>> ELSE <<>>
<1>1. /\ reads \in Seq(Completions) /\ Len(reads) = reading
      /\ \A k \in 1..reading : reads[k].op = "read_error"
  BY DEF NetOK, Completions
<1>2. /\ connect \in Seq(Completions) /\ Len(connect) \in {0, 1}
      /\ Len(connect) = 1 => socket = "opening"
      /\ \A k \in 1..Len(connect) : connect[k].op = "connect"
  <2>1. [op |-> "connect", ok |-> FALSE] \in Completions
    BY DEF Completions
  <2>2. <<>> \in Seq(Completions)
    OBVIOUS
  <2>3. QED BY <2>1, <2>2
<1>3. Aborted = connect \o reads
  BY DEF Aborted
<1> HIDE DEF reads, connect
<1>4. /\ Aborted \in Seq(Completions) /\ Len(Aborted) = Len(connect) + reading
      /\ \A k \in 1..Len(connect) : Aborted[k] = connect[k]
      /\ \A k \in 1..reading : Aborted[Len(connect) + k] = reads[k]
  BY <1>1, <1>2, <1>3, Joined
<1>5. ASSUME NEW k \in 1..Len(Aborted)
      PROVE  \/ k = 1 /\ Len(connect) = 1 /\ Aborted[k].op = "connect"
             \/ k > Len(connect) /\ reading > 0 /\ Aborted[k].op = "read_error"
  <2>1. reading \in Nat
    BY DEF NetOK
  <2>2. CASE k <= Len(connect)
    BY <1>2, <1>4, <2>2
  <2>3. CASE k > Len(connect)
    <3>1. k - Len(connect) \in 1..reading /\ Len(connect) + (k - Len(connect)) = k
      BY <1>2, <1>4, <2>1, <2>3
    <3>2. Aborted[k] = reads[k - Len(connect)]
      BY <1>4, <3>1
    <3>3. reading > 0 /\ reads[k - Len(connect)].op = "read_error"
      BY <1>1, <2>1, <3>1
    <3>4. QED BY <2>3, <3>2, <3>3
  <2>4. QED BY <1>2, <2>2, <2>3
<1>6. Aborts(Aborted)
  <2>1. reading \in Nat /\ Len(Aborted) = Len(connect) + reading
    BY <1>4 DEF NetOK
  <2>2. QED BY <1>2, <1>5, <2>1 DEF Aborts
<1>7. <<>> \in Seq(Completions) /\ Aborts(<<>>)
  BY DEF Aborts
<1>8. QED BY <1>4, <1>6, <1>7 DEF AbortedByClose

LEMMA HandlersJoined ==
  ASSUME NEW first \in Seq(Handlers), NEW then \in Seq(Handlers)
  PROVE  /\ first \o then \in Seq(Handlers)
         /\ Len(first \o then) = Len(first) + Len(then)
         /\ \A n \in 1..Len(first) : (first \o then)[n] = first[n]
         /\ \A k \in 1..Len(then) : (first \o then)[Len(first) + k] = then[k]
  BY Joined

\* The timer is started behind it, or stopped before it.
LEMMA AbortsTimed ==
  ASSUME NEW handlers \in Seq(Handlers), Aborts(handlers),
         \A k \in 1..Len(handlers) : handlers[k].op \in CompletionOps,
         NEW h \in Handlers, h.op \in {"timer_start", "timer_stop"},
         NEW timed \in Seq(Handlers), Len(timed) = 1, timed[1] = h
  PROVE  /\ handlers \o timed \in Seq(Handlers) /\ Aborts(handlers \o timed)
         /\ Len(handlers \o timed) = Len(handlers) + 1 /\ Len(handlers) \in Nat
         /\ (handlers \o timed)[Len(handlers) + 1] = h
         /\ \A k \in 1..Len(handlers) : (handlers \o timed)[k].op \in CompletionOps
         /\ timed \o handlers \in Seq(Handlers) /\ Aborts(timed \o handlers)
         /\ Len(timed \o handlers) = Len(handlers) + 1
         /\ (timed \o handlers)[1] = h
         /\ \A k \in 1..Len(timed \o handlers) :
              k # 1 => (timed \o handlers)[k].op \in CompletionOps
<1>1. handlers \in Seq(Handlers) /\ Len(handlers) \in Nat
  OBVIOUS
<1> DEFINE p == handlers \o timed
           q == timed \o handlers
<1>3. /\ p \in Seq(Handlers) /\ Len(p) = Len(handlers) + 1
      /\ \A k \in 1..Len(handlers) : p[k] = handlers[k]
      /\ p[Len(handlers) + 1] = h
  <2>1. 1 \in 1..Len(timed)
    OBVIOUS
  <2>2. /\ p \in Seq(Handlers) /\ Len(p) = Len(handlers) + Len(timed)
        /\ \A k \in 1..Len(handlers) : p[k] = handlers[k]
        /\ \A k \in 1..Len(timed) : p[Len(handlers) + k] = timed[k]
    BY HandlersJoined
  <2>3. QED BY <2>1, <2>2
<1>4. /\ q \in Seq(Handlers) /\ Len(q) = Len(handlers) + 1 /\ q[1] = h
      /\ \A k \in 1..Len(handlers) : q[1 + k] = handlers[k]
  <2>1. 1 \in 1..Len(timed)
    OBVIOUS
  <2>2. /\ q \in Seq(Handlers) /\ Len(q) = Len(timed) + Len(handlers)
        /\ \A k \in 1..Len(timed) : q[k] = timed[k]
        /\ \A k \in 1..Len(handlers) : q[Len(timed) + k] = handlers[k]
    BY HandlersJoined
  <2>3. QED BY <1>1, <2>1, <2>2
<1> HIDE DEF p, q
<1>5. Aborts(p)
  <2>1. ASSUME NEW k \in 1..Len(p), p[k].op # h.op
        PROVE  k \in 1..Len(handlers) /\ p[k] = handlers[k]
    BY <1>1, <1>3, <2>1
  <2>2. ASSUME NEW k \in 1..Len(p)
        PROVE  p[k].op = h.op \/ (k \in 1..Len(handlers) /\ p[k] = handlers[k])
    BY <2>1
  <2>3. QED BY <2>2 DEF Aborts
<1>6. ASSUME NEW k \in 1..Len(q), k # 1
      PROVE  k - 1 \in 1..Len(handlers) /\ q[k] = handlers[k - 1]
  <2>1. k - 1 \in 1..Len(handlers) /\ 1 + (k - 1) = k
    BY <1>1, <1>4, <1>6
  <2>2. QED BY <1>4, <2>1
<1>7. Aborts(q)
  <2>1. ASSUME NEW k \in 1..Len(q)
        PROVE  \/ q[k].op = h.op
               \/ k - 1 \in 1..Len(handlers) /\ q[k] = handlers[k - 1]
    BY <1>4, <1>6
  <2> SUFFICES ASSUME NEW j \in 1..Len(q), NEW k \in 1..Len(q)
               PROVE  /\ q[j].op \notin {"read", "write_error", "timer", "start", "stop"}
                      /\ q[j].op = "connect" => socket = "opening"
                      /\ q[j].op = "read_error" => reading > 0
                      /\ q[j].op = "connect" /\ q[k].op = "connect" => j = k
                      /\ q[j].op = "connect" /\ q[k].op = "read_error" => j < k
                      /\ /\ q[j].op = "read_error" /\ q[k].op = "read_error"
                         /\ reading = 1
                         => j = k
    BY DEF Aborts
  <2>2. /\ j - 1 = k - 1 => j = k
        /\ j - 1 < k - 1 => j < k
    OBVIOUS
  <2>3. CASE q[j].op = h.op
    BY <2>3
  <2>4. CASE q[k].op = h.op
    BY <2>1, <2>4 DEF Aborts
  <2>5. CASE q[j].op # h.op /\ q[k].op # h.op
    <3>1. /\ j - 1 \in 1..Len(handlers) /\ q[j] = handlers[j - 1]
          /\ k - 1 \in 1..Len(handlers) /\ q[k] = handlers[k - 1]
      BY <2>1, <2>5
    <3>2. QED BY <2>2, <3>1 DEF Aborts
  <2>6. QED BY <2>3, <2>4, <2>5
<1>8. QED BY <1>1, <1>3, <1>4, <1>5, <1>6, <1>7 DEF p, q

\* What start_impl adds to the queue of a client that is not started.
LEMMA FreshAdds ==
  ASSUME TypeInv, RunStart, ~started
  PROVE  \E handlers \in Seq(Handlers) :
           /\ ioq # <<>> /\ Queues(handlers) /\ Aborts(handlers)
           /\ Len(handlers) \in 1..Len(handlers)
           /\ handlers[Len(handlers)] =
                [op |-> "timer_start", timer |-> cur_timer_id + 1]
           /\ \A k \in 1..Len(handlers) :
                k # Len(handlers) => handlers[k].op \in CompletionOps
<1> DEFINE start == [op |-> "timer_start", timer |-> cur_timer_id + 1]
           timed == <<start>>
           handlers == Aborted \o timed
<1>1. start \in Handlers /\ start.op = "timer_start"
  BY DEF TypeInv, TimersOK, Handlers
<1>2. ioq # <<>> /\ Queues(handlers)
  BY DEF RunStart, Runs
<1>3. /\ Aborted \in Seq(Handlers) /\ Aborts(Aborted)
      /\ \A k \in 1..Len(Aborted) : Aborted[k].op \in CompletionOps
  <2>1. Aborted \in Seq(Completions) /\ Aborts(Aborted)
    BY AbortedIs DEF TypeInv
  <2>2. \A k \in 1..Len(Aborted) : Aborted[k] \in Completions
    BY <2>1
  <2>3. QED BY <2>1, <2>2, SeqWider, CompletionTypes DEF CompletionOps
<1> HIDE DEF start
<1>4. timed \in Seq(Handlers) /\ Len(timed) = 1 /\ timed[1] = start
  BY <1>1
<1> HIDE DEF timed
<1>5. /\ handlers \in Seq(Handlers) /\ Aborts(handlers)
      /\ Len(handlers) = Len(Aborted) + 1 /\ Len(Aborted) \in Nat
      /\ handlers[Len(Aborted) + 1] = start
      /\ \A k \in 1..Len(Aborted) : handlers[k].op \in CompletionOps
  BY <1>1, <1>3, <1>4, AbortsTimed
<1> HIDE DEF handlers
<1>6. \A k \in 1..Len(handlers) : k # Len(handlers) => k \in 1..Len(Aborted)
  BY <1>5
<1>7. Len(handlers) \in 1..Len(handlers)
  BY <1>5
<1>8. QED BY <1>2, <1>5, <1>6, <1>7 DEF start

\* What stop_impl adds.
LEMMA StopAdds ==
  ASSUME TypeInv, RunStop
  PROVE  \E handlers \in Seq(Handlers) :
           /\ ioq # <<>> /\ Queues(handlers) /\ Aborts(handlers)
           /\ 1 \in 1..Len(handlers)
           /\ handlers[1] = [op |-> "timer_stop", timer |-> check_timer_id]
           /\ \A k \in 1..Len(handlers) : k # 1 => handlers[k].op \in CompletionOps
           /\ connect_state = "disconnected" => Len(handlers) = 1
<1> DEFINE stop == [op |-> "timer_stop", timer |-> check_timer_id]
           timed == <<stop>>
           handlers == timed \o AbortedByClose
<1>1. stop \in Handlers /\ stop.op = "timer_stop"
  BY DEF TypeInv, TimersOK, Handlers
<1>2. ioq # <<>> /\ Queues(handlers)
  BY DEF RunStop, Runs
<1>3. /\ AbortedByClose \in Seq(Handlers) /\ Aborts(AbortedByClose)
      /\ \A k \in 1..Len(AbortedByClose) : AbortedByClose[k].op \in CompletionOps
  <2>1. AbortedByClose \in Seq(Completions) /\ Aborts(AbortedByClose)
    BY AbortedIs DEF TypeInv
  <2>2. \A k \in 1..Len(AbortedByClose) : AbortedByClose[k] \in Completions
    BY <2>1
  <2>3. QED BY <2>1, <2>2, SeqWider, CompletionTypes DEF CompletionOps
<1> HIDE DEF stop
<1>4. timed \in Seq(Handlers) /\ Len(timed) = 1 /\ timed[1] = stop
  BY <1>1
<1> HIDE DEF timed
<1>5. /\ handlers \in Seq(Handlers) /\ Aborts(handlers)
      /\ Len(handlers) = Len(AbortedByClose) + 1 /\ Len(AbortedByClose) \in Nat
      /\ handlers[1] = stop
      /\ \A k \in 1..Len(handlers) : k # 1 => handlers[k].op \in CompletionOps
  BY <1>1, <1>3, <1>4, AbortsTimed
<1> HIDE DEF handlers
<1>6. 1 \in 1..Len(handlers)
  BY <1>5
<1>7. connect_state = "disconnected" => Len(handlers) = 1
  BY <1>5 DEF AbortedByClose, Closes
<1>8. QED BY <1>2, <1>5, <1>6, <1>7 DEF stop

-----------------------------------------------------------------------------
(* Calls and time keep to one timer.                                       *)

LEMMA FreshTimer ==
  ASSUME OneThread, TypeInv, TickInv, OneTimer, RunStart, ~started
  PROVE  OneTimer'
<1>1. PICK handlers \in Seq(Handlers) :
        /\ ioq # <<>> /\ Queues(handlers)
        /\ Len(handlers) \in 1..Len(handlers)
        /\ handlers[Len(handlers)] =
             [op |-> "timer_start", timer |-> cur_timer_id + 1]
        /\ \A k \in 1..Len(handlers) :
             k # Len(handlers) => handlers[k].op \in CompletionOps
  BY FreshAdds
<1>2. /\ Moved(1) /\ 1 \in 1..Len(ioq)
      /\ Len(ioq') = Len(ioq) - 1 + Len(handlers) /\ Len(handlers) \in Nat
      /\ \A n : Added(1, n) =>
           /\ n - (Len(ioq) - 1) \in 1..Len(handlers)
           /\ ioq'[n] = handlers[n - (Len(ioq) - 1)]
  BY <1>1, QueuesMoves
<1>3. ASSUME NEW n, Added(1, n)
      PROVE  /\ n # Len(ioq') => ioq'[n].op \in CompletionOps
             /\ n = Len(ioq') =>
                  ioq'[n] = [op |-> "timer_start", timer |-> cur_timer_id + 1]
  BY <1>1, <1>2, <1>3 DEF Added, Moved
<1>4. /\ timers' = timers /\ cur_timer_id' = cur_timer_id + 1 /\ started'
      /\ check_timer_id' = cur_timer_id + 1 /\ cur_timer_id \in Nat
      /\ DOMAIN timers \subseteq 1..cur_timer_id
  BY DEF RunStart, TypeInv, TimersOK
<1>5. ASSUME NEW n \in 1..Len(ioq'), ~Added(1, n)
      PROVE  n + 1 \in 1..Len(ioq) /\ ioq'[n] = ioq[n + 1]
  BY <1>2, <1>5, MovedFrom
<1>6. ExpirationsKnown'
  <2>1. ASSUME NEW n \in 1..Len(ioq'), ioq'[n].op = "timer"
        PROVE  ioq'[n].timer \in 1..cur_timer_id'
    <3>1. ~Added(1, n)
      BY <1>3, <2>1 DEF CompletionOps
    <3>2. ioq'[n].timer \in 1..cur_timer_id
      BY <1>5, <2>1, <3>1 DEF OneTimer, ExpirationsKnown
    <3>3. QED BY <1>4, <3>2
  <2>2. QED BY <2>1 DEF ExpirationsKnown
<1>7. \A n, t : Given(n, t)' => t = check_timer_id'
  <2> SUFFICES ASSUME NEW n, NEW t, Given(n, t)' PROVE t = check_timer_id'
    OBVIOUS
  <2>1. \A k, u : ~Given(k, u)
    BY StartFindsNoTimer
  <2>2. n \in 1..Len(ioq') /\ ioq'[n].op = "timer_start" /\ ioq'[n].timer = t
    <3>1. ~(n = 0 /\ t \in DOMAIN timers')
      BY <1>4, <2>1 DEF Given
    <3>2. QED BY <3>1 DEF Given
  <2>3. Added(1, n)
    <3>1. SUFFICES ASSUME ~Added(1, n) PROVE FALSE
      OBVIOUS
    <3>2. Given(n + 1, t)
      BY <1>5, <2>2, <3>1 DEF Given
    <3>3. QED BY <2>1, <3>2
  <2>4. QED BY <1>3, <1>4, <2>2, <2>3 DEF CompletionOps
<1>8. \A n : Tick(n)' => n = Len(ioq')
  <2> SUFFICES ASSUME NEW n, Tick(n)' PROVE n = Len(ioq')
    OBVIOUS
  <2>1. check_timer_id' \notin 1..cur_timer_id
    BY <1>4
  <2>2. n \in 1..Len(ioq') /\ ioq'[n].op \in TickOps /\ ioq'[n].timer = check_timer_id'
    BY <1>4, <2>1 DEF Tick, TickOps
  <2>3. Added(1, n)
    <3>1. SUFFICES ASSUME ~Added(1, n) PROVE FALSE
      OBVIOUS
    <3>2. ioq'[n].timer \in 1..cur_timer_id
      BY <1>5, <2>2, <3>1 DEF OneTimer, ExpirationsKnown, TypeInv, QueueOK, TickOps
    <3>3. QED BY <2>1, <2>2, <3>2
  <2>4. QED BY <1>3, <2>2, <2>3 DEF CompletionOps, TickOps
<1>9. OneTick' /\ OthersStop'
  BY <1>7, <1>8 DEF OneTick, OthersStop
<1>10. ~AtRest'
  BY <1>4 DEF AtRest
<1>11. QED BY <1>6, <1>9, <1>10 DEF OneTimer

LEMMA StopTimer ==
  ASSUME OneThread, TypeInv, TickInv, OneTimer, RunStop
  PROVE  OneTimer'
<1>1. PICK handlers \in Seq(Handlers) :
        /\ ioq # <<>> /\ Queues(handlers)
        /\ 1 \in 1..Len(handlers)
        /\ handlers[1] = [op |-> "timer_stop", timer |-> check_timer_id]
        /\ \A k \in 1..Len(handlers) : k # 1 => handlers[k].op \in CompletionOps
  BY StopAdds
<1>2. /\ Moved(1) /\ 1 \in 1..Len(ioq)
      /\ Len(ioq') = Len(ioq) - 1 + Len(handlers) /\ Len(handlers) \in Nat
      /\ \A n : Added(1, n) =>
           /\ n - (Len(ioq) - 1) \in 1..Len(handlers)
           /\ ioq'[n] = handlers[n - (Len(ioq) - 1)]
      /\ \A k \in 1..Len(handlers) : Added(1, Len(ioq) - 1 + k)
  BY <1>1, QueuesMoves
<1>3. ASSUME NEW n, Added(1, n)
      PROVE  /\ n # Len(ioq) => ioq'[n].op \in CompletionOps
             /\ n = Len(ioq) =>
                  ioq'[n] = [op |-> "timer_stop", timer |-> check_timer_id]
  <2>1. /\ n - (Len(ioq) - 1) \in 1..Len(handlers)
        /\ ioq'[n] = handlers[n - (Len(ioq) - 1)]
    BY <1>2, <1>3
  <2>2. n - (Len(ioq) - 1) = 1 <=> n = Len(ioq)
    <3>1. Len(ioq) \in Nat /\ n \in Nat
      BY <1>2, <1>3 DEF Added, Moved
    <3>2. QED BY <3>1
  <2>3. QED BY <1>1, <2>1, <2>2
<1>4. /\ timers' = timers /\ cur_timer_id' = cur_timer_id /\ started' = started
      /\ check_timer_id' = 0 /\ DOMAIN timers \subseteq 1..cur_timer_id
      /\ cur_timer_id \in Nat
  BY DEF RunStop, TypeInv, TimersOK, timerVars
<1>5. ASSUME NEW n \in 1..Len(ioq'), ioq'[n].op \in TickOps \union {"start"}
      PROVE  n + 1 \in 1..Len(ioq) /\ ioq'[n] = ioq[n + 1] /\ n < Len(ioq)
  <2>1. ~Added(1, n)
    BY <1>3, <1>5 DEF TickOps, CompletionOps
  <2>2. QED BY <1>2, <2>1, MovedFrom DEF Added, Moved
<1>6. ioq[1].op = "stop" /\ Runs("stop") /\ ~started
  <2>1. ioq[1].op = "stop" /\ Runs("stop")
    BY NextHandler DEF RunStop, TypeInv
  <2>2. QED BY <1>2, <2>1 DEF TickInv, CallsInTurn
<1>7. \A n \in 1..Len(ioq') : ioq'[n].op # "start"
  <2> SUFFICES ASSUME NEW n \in 1..Len(ioq'), ioq'[n].op = "start" PROVE FALSE
    OBVIOUS
  <2>1. n + 1 \in 1..Len(ioq) /\ ioq[n + 1].op = "start" /\ n + 1 # 1
    BY <1>5
  <2>2. QED BY <1>6, <2>1, CallRuns DEF TickInv
<1>8. ExpirationsKnown'
  BY <1>4, <1>5 DEF OneTimer, ExpirationsKnown, TickOps
<1>9. OneTick'
  <2>1. ASSUME NEW n, Tick(n)' PROVE FALSE
    <3>1. n \in 1..Len(ioq') /\ ioq'[n].op \in TickOps /\ ioq'[n].timer = 0
      BY <1>4, <2>1 DEF Tick, TickOps
    <3>2. n + 1 \in 1..Len(ioq) /\ ioq'[n] = ioq[n + 1]
      BY <1>5, <3>1
    <3>3. ioq[n + 1].timer \in 1..cur_timer_id
      BY <3>1, <3>2 DEF OneTimer, ExpirationsKnown, TypeInv, QueueOK, TickOps
    <3>4. QED BY <3>1, <3>2, <3>3
  <2>2. QED BY <2>1 DEF OneTick
<1>10. OthersStop'
  <2> SUFFICES ASSUME NEW n, NEW t, Given(n, t)', t # check_timer_id'
               PROVE  ~started' /\ \E m : Stopping(m, t)' /\ n < m
    BY DEF OthersStop
  <2>1. (n = 0 /\ Given(0, t)) \/ Given(n + 1, t)
    <3>1. CASE n = 0 /\ t \in DOMAIN timers'
      BY <1>2, <1>4, <3>1 DEF Given
    <3>2. CASE ~(n = 0 /\ t \in DOMAIN timers')
      BY <1>5, <3>2 DEF Given, TickOps
    <3>3. QED BY <3>1, <3>2
  <2>2. n \in Nat /\ n < Len(ioq)
    <3>1. CASE n = 0 /\ t \in DOMAIN timers'
      BY <1>2, <3>1
    <3>2. CASE ~(n = 0 /\ t \in DOMAIN timers')
      BY <1>5, <3>2 DEF Given, TickOps
    <3>3. QED BY <3>1, <3>2
  <2>3. CASE t = check_timer_id
    <3>1. PICK m \in Nat : m = Len(ioq)
      BY <1>2 DEF Moved
    <3>2. Added(1, m) /\ m \in 1..Len(ioq')
      <4>1. Len(ioq) - 1 + 1 = Len(ioq)
        BY <1>2 DEF Moved
      <4>2. QED BY <1>1, <1>2, <3>1, <4>1 DEF Added
    <3>3. ioq'[m].op = "timer_stop" /\ ioq'[m].timer = t
      BY <1>3, <2>3, <3>1, <3>2
    <3>4. Stopping(m, t)'
      BY <1>7, <3>2, <3>3 DEF Stopping
    <3>5. QED BY <1>4, <1>6, <2>2, <3>1, <3>4
  <2>4. CASE t # check_timer_id
    <3>1. PICK m : Stopping(m, t) /\ n < m - 1 /\ m > 1
      <4>1. PICK k : Given(k, t) /\ (k = n + 1 \/ (k = n /\ n = 0))
        BY <2>1
      <4>2. PICK m : Stopping(m, t) /\ k < m
        BY <2>4, <4>1 DEF OneTimer, OthersStop
      <4>3. m \in 1..Len(ioq) /\ m # 1
        BY <1>6, <4>2 DEF Stopping
      <4>4. QED BY <2>2, <4>1, <4>2, <4>3
    <3>2. Stopping(m - 1, t)'
      BY <1>2, <3>1, StoppingStays
    <3>3. QED BY <1>4, <1>6, <3>1, <3>2
  <2>5. QED BY <2>3, <2>4
<1>11. QED BY <1>4, <1>8, <1>9, <1>10 DEF OneTimer

\* In a second each armed timer expires, once.
LEMMA SecondAdds ==
  ASSUME TypeInv, Second
  PROVE  /\ \A n : Added(0, n) =>
              /\ ioq'[n].timer \in DOMAIN timers
              /\ timers[ioq'[n].timer] = "armed"
         /\ \A m, n : Added(0, m) /\ Added(0, n) /\ ioq'[m].timer = ioq'[n].timer
              => m = n
<1> DEFINE armed == { t \in DOMAIN timers : timers[t] = "armed" }
           expired == Ascending(armed, cur_timer_id)
           handlers == [n \in 1..Len(expired) |->
                          [op |-> "timer", timer |-> expired[n]]]
<1>1. ioq' = ioq \o handlers
  BY DEF Second
<1>2. cur_timer_id \in Nat
  BY DEF TypeInv, TimersOK
<1> HIDE DEF armed
<1>3. expired \in Seq(armed \intersect (1..cur_timer_id))
  BY <1>2, AscendingType
<1>4. \A j, k \in 1..Len(expired) : expired[j] = expired[k] => j = k
  BY <1>2, AscendingOnce
<1>5. /\ Len(expired) \in Nat
      /\ \A n \in 1..Len(expired) : expired[n] \in armed /\ expired[n] \in 1..cur_timer_id
  BY <1>3
<1>6. \A n \in 1..Len(expired) : expired[n] \in Nat
  BY <1>2, <1>5
<1> HIDE DEF expired
<1>7. /\ handlers \in Seq(Handlers) /\ Len(handlers) = Len(expired)
      /\ \A k \in 1..Len(expired) : handlers[k].timer = expired[k]
  BY <1>5, <1>6 DEF Handlers
<1> HIDE DEF handlers
<1>8. ioq \in Seq(Handlers) /\ Len(ioq) \in Nat
  BY DEF TypeInv, QueueOK
<1>9. /\ Len(ioq') = Len(ioq) + Len(handlers)
      /\ \A k \in 1..Len(handlers) : ioq'[Len(ioq) + k] = handlers[k]
  BY <1>1, <1>7, <1>8, HandlersJoined
<1>10. ASSUME NEW n, Added(0, n)
       PROVE  /\ n \in Nat /\ n - Len(ioq) \in 1..Len(expired)
              /\ ioq'[n].timer = expired[n - Len(ioq)]
  <2>1. /\ n \in Nat /\ n - Len(ioq) \in 1..Len(expired)
        /\ Len(ioq) + (n - Len(ioq)) = n
    BY <1>5, <1>7, <1>8, <1>9, <1>10 DEF Added
  <2>2. QED BY <1>7, <1>9, <2>1
<1>11. ASSUME NEW m, NEW n, Added(0, m), Added(0, n), ioq'[m].timer = ioq'[n].timer
       PROVE  m = n
  <2>1. m - Len(ioq) = n - Len(ioq)
    BY <1>4, <1>10, <1>11
  <2>2. QED BY <1>8, <1>10, <1>11, <2>1
<1>12. QED BY <1>5, <1>10, <1>11 DEF armed

LEMMA SecondTimer ==
  ASSUME TypeInv, OneTimer, Second PROVE OneTimer'
<1>1. Moved(0) /\ \A n : Added(0, n) => ioq'[n].op = "timer"
  BY SecondMoves
<1>2. UNCHANGED <<check_timer_id, cur_timer_id, started, caller, DOMAIN timers>>
  BY DEF Second
<1>3. \A t \in DOMAIN timers' : timers'[t] = "expired"
  BY DEF Second
<1>4. ASSUME NEW n \in 1..Len(ioq'), ~Added(0, n)
      PROVE  n \in 1..Len(ioq) /\ ioq'[n] = ioq[n]
  <2>1. n + 0 \in 1..Len(ioq) /\ ioq'[n] = ioq[n + 0] /\ n + 0 = n
    BY <1>1, <1>4, MovedFrom
  <2>2. QED BY <2>1
<1>5. ExpirationsKnown'
  <2>1. ASSUME NEW n \in 1..Len(ioq'), ioq'[n].op = "timer"
        PROVE  ioq'[n].timer \in 1..cur_timer_id
    <3>1. CASE Added(0, n)
      BY <3>1, SecondAdds DEF TypeInv, TimersOK
    <3>2. CASE ~Added(0, n)
      BY <1>4, <2>1, <3>2 DEF OneTimer, ExpirationsKnown
    <3>3. QED BY <3>1, <3>2
  <2>2. QED BY <1>2, <2>1 DEF ExpirationsKnown
<1>6. OneTick'
  <2>1. ASSUME NEW n, Tick(n)'
        PROVE  (Added(0, n) /\ Tick(0)) \/ (Tick(n) /\ n # 0)
    <3>1. n \in 1..Len(ioq') /\ ioq'[n].op \in TickOps /\ ioq'[n].timer = check_timer_id
      BY <1>2, <1>3, <2>1 DEF Tick, TickOps
    <3>2. CASE Added(0, n)
      BY <3>1, <3>2, SecondAdds DEF Tick
    <3>3. CASE ~Added(0, n)
      BY <1>4, <3>1, <3>3 DEF Tick, TickOps
    <3>4. QED BY <3>2, <3>3
  <2>2. ASSUME NEW m, NEW n, Tick(m)', Tick(n)' PROVE m = n
    <3>1. CASE Added(0, m) /\ Tick(0)
      <4>1. ~(Tick(n) /\ n # 0)
        BY <3>1 DEF OneTimer, OneTick
      <4>2. Added(0, n)
        BY <2>1, <2>2, <4>1
      <4>3. \A k : Added(0, k) /\ Tick(k)' => ioq'[k].timer = check_timer_id
        <5>1. \A k : Added(0, k) => k # 0
          BY DEF Added
        <5>2. QED BY <1>2, <5>1 DEF Tick
      <4>4. QED BY <2>2, <3>1, <4>2, <4>3, SecondAdds
    <3>2. CASE Tick(m) /\ m # 0
      <4>1. ~Tick(0)
        BY <3>2 DEF OneTimer, OneTick
      <4>2. QED BY <2>1, <2>2, <3>2, <4>1 DEF OneTimer, OneTick
    <3>3. QED BY <2>1, <2>2, <3>1, <3>2
  <2>3. QED BY <2>2 DEF OneTick
<1>7. OthersStop'
  <2> SUFFICES ASSUME NEW n, NEW t, Given(n, t)', t # check_timer_id'
               PROVE  ~started' /\ \E m : Stopping(m, t)' /\ n < m
    BY DEF OthersStop
  <2>1. Given(n, t)
    <3>1. CASE n = 0 /\ t \in DOMAIN timers'
      BY <1>2, <3>1 DEF Given
    <3>2. CASE ~(n = 0 /\ t \in DOMAIN timers')
      BY <1>1, <1>4, <3>2 DEF Given
    <3>3. QED BY <3>1, <3>2
  <2>2. PICK m : Stopping(m, t) /\ n < m /\ ~started
    BY <1>2, <2>1 DEF OneTimer, OthersStop
  <2>3. m - 0 = m /\ m > 0
    BY <2>2 DEF Stopping
  <2>4. Stopping(m, t)'
    <3>1. Stopping(m - 0, t)'
      BY <1>1, <2>2, <2>3, StoppingStays
    <3>2. QED BY <2>3, <3>1
  <2>5. QED BY <1>2, <2>2, <2>4
<1>8. AtRest' => AtRest
  BY <1>1, <1>2, StillAtRest
<1>9. QED BY <1>2, <1>5, <1>6, <1>7, <1>8 DEF OneTimer

\* What adds no timer, and no call but at rest.
LEMMA AddingTimer ==
  ASSUME TypeInv, OneTimer, UNCHANGED <<timers, check_timer_id, cur_timer_id>>,
         Unticked(0), started' => started, AtRest' => AtRest
  PROVE  OneTimer'
<1>1. Tick(0)' => Tick(0)
  BY DEF Tick
<1>2. 0 # 1
  OBVIOUS
<1>3. QED BY <1>1, <1>2, UntickedTimer

\* A call, as the timers, the connection and the queue see it.
LEMMA CallShape ==
  ASSUME OneThread, TypeInv, TickInv, CallAPI
  PROVE  /\ UNCHANGED <<timers, check_timer_id, cur_timer_id, connect_state,
                        read_pending, last_connect, socket, reading, lag>>
         /\ AtRest' => AtRest
         /\ \/ /\ ioq' = ioq /\ started /\ ~started'
               /\ \A n \in 1..Len(ioq) : ioq[n].op # "start"
            \/ /\ started' = started
               /\ \E h : /\ Posting(h)
                         /\ h.op \in {"start", "stop", "send", "cancel",
                                      "subscribe", "unsubscribe"}
<1>1. PICK t \in Threads :
        \/ CallStart(t) \/ CallStop(t) \/ PostStop(t)
        \/ \E opt \in SendOpts : SendReqAsync(t, opt)
        \/ \E i \in Requests : SendCancel(t, i)
        \/ \E cmd \in Cmds : SubscribeNotification(t, cmd)
                               \/ UnsubscribeNotification(t, cmd)
  BY DEF CallAPI
<1>2. UNCHANGED <<timers, check_timer_id, cur_timer_id, connect_state,
                  read_pending, last_connect, socket, reading, lag>>
  BY <1>1 DEF CallStart, CallStop, PostStop, SendReqAsync, SendCancel,
     SubscribeNotification, UnsubscribeNotification, clientVars, timerVars, netVars,
     queueVars, Posted
<1>3. CASE CallStart(t)
  <2> DEFINE h == [op |-> "start", thread |-> t]
  <2>1. Posting(h) /\ h.op = "start" /\ started' = started
    BY <1>3 DEF CallStart, Posting, Handlers, clientVars
  <2> HIDE DEF h
  <2>2. Moved(0) /\ \A n : Added(0, n) => ioq'[n] = h
    BY <2>1, PostingMoves
  <2>3. \A u \in Threads : caller[u] # "stopping"
    BY <1>3 DEF CallStart, MayCall, OneThread
  <2>4. AtRest' => AtRest
    <3>1. ASSUME AtRest', NEW n \in 1..Len(ioq) PROVE ioq[n].op # "stop"
      <4>1. n > 0 /\ n - 0 = n
        OBVIOUS
      <4>2. n \in 1..Len(ioq') /\ ioq'[n] = ioq[n]
        BY <2>2, <4>1, MovedBack
      <4>3. QED BY <3>1, <4>2 DEF AtRest
    <3>2. QED BY <2>1, <2>3, <3>1 DEF AtRest
  <2>5. QED BY <1>2, <2>1, <2>4
<1>4. CASE CallStop(t)
  <2>1. /\ ioq' = ioq /\ ~started' /\ started /\ caller'[t] = "stopping"
        /\ caller[t] # "waiting"
    BY <1>4 DEF CallStop, MayCall, queueVars, TypeInv, FieldsOK
  <2>2. \A n \in 1..Len(ioq) : ioq[n].op \notin {"start", "stop"}
    BY <2>1, NoCallQueued DEF TickInv
  <2>3. ~AtRest'
    BY <2>1 DEF AtRest
  <2>4. QED BY <1>2, <2>1, <2>2, <2>3
<1>5. CASE PostStop(t)
  <2> DEFINE h == [op |-> "stop", thread |-> t]
  <2>1. Posting(h) /\ h.op = "stop" /\ started' = started
    BY <1>5 DEF PostStop, Posting, Handlers, clientVars
  <2> HIDE DEF h
  <2>2. /\ Moved(0) /\ \A n : Added(0, n) => ioq'[n] = h
        /\ \E n : Added(0, n)
    BY <2>1, PostingMoves
  <2>3. ~AtRest'
    BY <2>1, <2>2 DEF AtRest, Added
  <2>4. QED BY <1>2, <2>1, <2>3
<1>6. CASE \/ \E opt \in SendOpts : SendReqAsync(t, opt)
           \/ \E i \in Requests : SendCancel(t, i)
           \/ \E cmd \in Cmds : SubscribeNotification(t, cmd)
                                  \/ UnsubscribeNotification(t, cmd)
  <2>1. PICK h : Posting(h) /\ h.op \in {"send", "cancel", "subscribe", "unsubscribe"}
    <3>1. ASSUME NEW opt \in SendOpts, SendReqAsync(t, opt)
          PROVE  \E h : Posting(h) /\ h.op = "send"
      <4> DEFINE h == [op |-> "send", id |-> cur_send_id', opt |-> opt]
      <4>1. Posting(h) /\ h.op = "send"
        BY <3>1, SendTypes DEF Posting
      <4> HIDE DEF h
      <4>2. QED BY <4>1
    <3>2. ASSUME NEW i \in Requests, SendCancel(t, i)
          PROVE  \E h : Posting(h) /\ h.op = "cancel"
      <4>1. Posting([op |-> "cancel", id |-> i])
        BY <3>2 DEF SendCancel, Handlers, Posting
      <4>2. QED BY <4>1
    <3>3. ASSUME NEW cmd \in Cmds, NEW op \in {"subscribe", "unsubscribe"},
                 Posted([op |-> op, cmd |-> cmd])
          PROVE  \E h : Posting(h) /\ h.op \in {"subscribe", "unsubscribe"}
      <4>1. Posting([op |-> op, cmd |-> cmd])
        BY <3>3 DEF Handlers, Posting
      <4>2. QED BY <4>1
    <3>4. QED BY <1>6, <3>1, <3>2, <3>3
                 DEF SubscribeNotification, UnsubscribeNotification
  <2>2. UNCHANGED <<caller, started>>
    BY <1>6 DEF SendReqAsync, SendCancel, SubscribeNotification,
       UnsubscribeNotification, clientVars
  <2>3. Moved(0)
    BY <2>1, PostingMoves
  <2>4. AtRest' => AtRest
    BY <2>2, <2>3, StillAtRest
  <2>5. QED BY <1>2, <2>1, <2>2, <2>4
<1>7. QED BY <1>1, <1>3, <1>4, <1>5, <1>6

LEMMA CallsTimer ==
  ASSUME OneThread, TypeInv, TickInv, OneTimer, CallAPI PROVE OneTimer'
<1>1. /\ UNCHANGED <<timers, check_timer_id, cur_timer_id>>
      /\ (AtRest' => AtRest) /\ (started' => started)
  BY CallShape
<1>2. Unticked(0)
  <2>1. CASE ioq' = ioq
    BY <2>1, UnchangedMoves DEF Unticked
  <2>2. CASE ioq' # ioq
    <3>1. PICK h : /\ Posting(h)
                   /\ h.op \in {"start", "stop", "send", "cancel",
                                "subscribe", "unsubscribe"}
      BY <2>2, CallShape
    <3>2. QED BY <3>1, PostingMoves DEF Unticked, TickOps
  <2>3. QED BY <2>1, <2>2
<1>3. QED BY <1>1, <1>2, AddingTimer

LEMMA NetworkTimer ==
  ASSUME TypeInv, OneTimer, Network PROVE OneTimer'
<1>1. Delivers
  BY NetworkTypes
<1>2. UNCHANGED <<timers, check_timer_id, cur_timer_id, caller, started>>
  BY <1>1 DEF Delivers, clientVars, timerVars
<1>3. Unticked(0)
  <2>1. CASE UNCHANGED queueVars
    BY <2>1, UnchangedMoves DEF queueVars, Unticked
  <2>2. CASE \E h : Posting(h) /\ h.op \in {"connect", "read", "read_error"}
    BY <2>2, PostingMoves DEF Unticked, TickOps
  <2>3. QED BY <1>1, <2>1, <2>2 DEF Delivers
<1>4. AtRest' => AtRest
  BY <1>2, <1>3, StillAtRest DEF Unticked
<1>5. QED BY <1>2, <1>3, <1>4, AddingTimer

LEMMA NextTimer ==
  ASSUME OneThread PROVE TypeInv /\ TickInv /\ OneTimer /\ [Next]_vars => OneTimer'
<1> SUFFICES ASSUME TypeInv, TickInv, OneTimer, [Next]_vars PROVE OneTimer'
  OBVIOUS
<1>1. CASE RunHandler
  <2>1. CASE RunStart /\ started
    <3>1. ioq # <<>> /\ Queues(<<>>) /\ UNCHANGED <<timers, check_timer_id, cur_timer_id>>
      BY <2>1 DEF RunStart, Runs
    <3>2. <<>> \in Seq(Completions)
      OBVIOUS
    <3>3. Unticked(1)
      BY <3>1, <3>2, CompletionsUnticked
    <3>4. ioq[1].op # "timer_stop"
      BY <2>1, NextHandler DEF RunStart, TypeInv
    <3>5. ~AtRest' /\ (Tick(0)' => Tick(0))
      BY <2>1, <3>1 DEF RunStart, AtRest, Tick
    <3>6. QED BY <2>1, <3>1, <3>3, <3>4, <3>5, UntickedTimer
  <2>2. QED BY <1>1, <2>1, FreshTimer, StopTimer, TimersKeepTimer, OthersKeepTimer
<1>2. CASE UNCHANGED vars
  <2>1. UNCHANGED <<ioq, caller, started, check_timer_id, timers, cur_timer_id>>
    BY <1>2 DEF vars, clientVars, timerVars, queueVars
  <2>2. Unticked(0)
    BY <2>1, UnchangedMoves DEF Unticked
  <2>3. AtRest' => AtRest
    BY <2>1 DEF AtRest
  <2>4. QED BY <2>1, <2>2, <2>3, AddingTimer
<1>3. QED BY <1>1, <1>2, CallsTimer, SecondTimer, NetworkTimer DEF Next

-----------------------------------------------------------------------------
(* The attempts to connect, in the order in which they complete: those     *)
(* whose completion is queued, and one that is under way behind them.      *)

Attempt(n) ==
    \/ n \in 1..Len(ioq) /\ ioq[n].op = "connect"
    \/ n = Len(ioq) + 1 /\ socket = "opening"

\* A handler that closes a connection.
Closer(n) == n \in 1..Len(ioq) /\ ioq[n].op \in {"read_error", "write_error"}

\* A handler that may begin an attempt: the client's timer, or a first start().
Opener(n) ==
    /\ n \in 1..Len(ioq)
    /\ \/ ioq[n].op = "timer" /\ ioq[n].timer = check_timer_id /\ started
       \/ ioq[n].op = "start" /\ ~started

NoAttempt == \A n : ~Attempt(n)

OneAttempt == \A m, n : Attempt(m) /\ Attempt(n) => m = n

TwoAttempts == \A k, m, n : Attempt(k) /\ Attempt(m) /\ Attempt(n) => ~(k < m /\ m < n)

ClosersLast == \A m, n : Attempt(m) /\ Closer(n) => m < n

NoneBetween == \A k, m, n : Attempt(k) /\ Closer(m) /\ Attempt(n) => ~(k < m /\ m < n)

OneBehindOpener ==
    \A k, m, n : Opener(k) /\ Attempt(m) /\ Attempt(n) /\ k < m /\ k < n => m = n

ClosedFirst ==
    \A k, m, n : Attempt(k) /\ Closer(m) /\ k < m /\ Opener(n) => k < n

\* At most two attempts are left of connections that were given up, and what
\* closes a connection cannot close the one that is opened next.
AttemptsInOrder ==
    /\ TwoAttempts /\ NoneBetween /\ OneBehindOpener
    /\ connect_state = "connected" => OneAttempt /\ ClosersLast
    /\ connect_state # "connected" => ClosedFirst
    /\ OneAttempt \/ connect_state = "connecting" \/ socket = "closed"
    /\ AtRest => /\ connect_state = "connected" => NoAttempt
                 /\ OneAttempt \/ socket = "closed"

\* Where a handler or an attempt was before s handlers ran.
Was(s, n) == IF n <= Len(ioq) - s THEN n + s ELSE Len(ioq) + 1

\* No attempt begins, and what closes connections is added behind all attempts.
Settling(s) ==
    /\ Moved(s)
    /\ \A n : Attempt(n)' => Attempt(Was(s, n))
    /\ \A m, n : Attempt(m)' /\ Attempt(n)' /\ Was(s, m) = Was(s, n) => m = n
    /\ \A m, n : Added(s, m) /\ Closer(m)' /\ Attempt(n)' =>
         n < m /\ connect_state = "connected"

LEMMA AttemptPlaces ==
  ASSUME NEW s, Moved(s)
  PROVE  /\ \A n : Attempt(n) => n \in Nat \ {0} /\ n <= Len(ioq) + 1
         /\ \A n : Attempt(n)' => n \in Nat \ {0} /\ n <= Len(ioq') + 1
         /\ \A n : Closer(n) \/ Opener(n) => n \in 1..Len(ioq)
         /\ \A n : (Closer(n) \/ Opener(n))' => n \in 1..Len(ioq')
         /\ Len(ioq) \in Nat /\ Len(ioq') \in Nat /\ s \in {0, 1} /\ s <= Len(ioq)
<1>1. Len(ioq) \in Nat /\ Len(ioq') \in Nat /\ s \in {0, 1} /\ s <= Len(ioq)
  BY DEF Moved
<1>2. QED BY <1>1 DEF Attempt, Closer, Opener

\* The order of attempts, and of closers, stays.
LEMMA WasOrder ==
  ASSUME NEW s, Moved(s), NEW m \in Nat, NEW n \in Nat, m < n
  PROVE  /\ Was(s, m) <= Was(s, n)
         /\ n <= Len(ioq) - s => Was(s, m) = m + s /\ Was(s, n) = n + s
         /\ Was(s, m) \in Nat /\ Was(s, n) \in Nat
  BY DEF Moved, Was

LEMMA CloserWas ==
  ASSUME NEW s, Moved(s), NEW n, Closer(n)', ~Added(s, n)
  PROVE  Closer(n + s) /\ n <= Len(ioq) - s
<1>1. n \in 1..Len(ioq') /\ n <= Len(ioq) - s
  BY DEF Closer, Added, Moved
<1>2. QED BY <1>1, MovedFrom DEF Closer

LEMMA SettlingAttempts ==
  ASSUME NEW s, Settling(s)
  PROVE  /\ NoAttempt => NoAttempt'
         /\ OneAttempt => OneAttempt'
         /\ TwoAttempts => TwoAttempts'
         /\ ClosersLast => ClosersLast'
         /\ NoneBetween => NoneBetween'
<1>0. Moved(s)
  BY DEF Settling
<1>1. \A m, n : Attempt(m)' /\ Attempt(n)' /\ m < n =>
        Was(s, m) < Was(s, n) /\ Attempt(Was(s, m)) /\ Attempt(Was(s, n))
  <2> SUFFICES ASSUME NEW m, NEW n, Attempt(m)', Attempt(n)', m < n
               PROVE  Was(s, m) < Was(s, n) /\ Attempt(Was(s, m)) /\ Attempt(Was(s, n))
    OBVIOUS
  <2>1. m \in Nat /\ n \in Nat
    BY <1>0, AttemptPlaces
  <2>2. Was(s, m) <= Was(s, n) /\ Was(s, m) \in Nat /\ Was(s, n) \in Nat
    BY <1>0, <2>1, WasOrder
  <2>3. Was(s, m) # Was(s, n)
    BY <2>1 DEF Settling
  <2>4. QED BY <2>2, <2>3 DEF Settling
<1>2. NoAttempt => NoAttempt'
  BY DEF Settling, NoAttempt
<1>3. OneAttempt => OneAttempt'
  BY DEF Settling, OneAttempt
<1>4. TwoAttempts => TwoAttempts'
  BY <1>1 DEF TwoAttempts
<1>5. ASSUME ClosersLast, NEW m, NEW n, Attempt(m)', Closer(n)' PROVE m < n
  <2>1. CASE Added(s, n)
    BY <1>5, <2>1 DEF Settling
  <2>2. CASE ~Added(s, n)
    <3>1. Closer(n + s) /\ n <= Len(ioq) - s
      BY <1>0, <1>5, <2>2, CloserWas
    <3>2. Was(s, m) < n + s
      BY <1>5, <3>1 DEF Settling, ClosersLast
    <3>3. QED BY <1>0, <1>5, <3>1, <3>2, AttemptPlaces DEF Was
  <2>3. QED BY <2>1, <2>2
<1>6. ASSUME NoneBetween, NEW k, NEW m, NEW n, Attempt(k)', Closer(m)', Attempt(n)',
             k < m, m < n
      PROVE  FALSE
  <2>0. k \in Nat /\ m \in Nat /\ n \in Nat
    BY <1>0, <1>6, AttemptPlaces
  <2>1. ~Added(s, m)
    BY <1>6, <2>0 DEF Settling
  <2>2. Closer(m + s) /\ m <= Len(ioq) - s
    BY <1>0, <1>6, <2>1, CloserWas
  <2>3. Was(s, k) = k + s /\ k + s < m + s /\ m + s < Was(s, n)
    BY <1>0, <1>6, <2>0, <2>2 DEF Was, Moved
  <2>4. Attempt(Was(s, k)) /\ Attempt(Was(s, n))
    BY <1>6 DEF Settling
  <2>5. QED BY <1>6, <2>2, <2>3, <2>4 DEF NoneBetween
<1>7. QED BY <1>2, <1>3, <1>4, <1>5, <1>6 DEF ClosersLast, NoneBetween

OpenersMoved(s) == \A n : Opener(n)' => Added(s, n) \/ Opener(n + s)

LEMMA SettlingInOrder ==
  ASSUME NEW s, Settling(s), OpenersMoved(s), AttemptsInOrder,
         connect_state' = "connected" =>
           \/ connect_state = "connected"
           \/ OneAttempt' /\ ClosersLast' /\ (AtRest' => NoAttempt'),
         connect_state' # "connected" =>
           connect_state # "connected" \/ NoAttempt' \/ (\A n : ~Opener(n)'),
         \/ OneAttempt' \/ socket' = "closed"
         \/ connect_state' = connect_state /\ (socket = "closed" => socket' = "closed"),
         \/ AtRest' => AtRest
         \/ connect_state' # "connected" /\ (OneAttempt' \/ socket' = "closed")
  PROVE  AttemptsInOrder'
<1>0. Moved(s) /\ s \in {0, 1} /\ Len(ioq) \in Nat /\ Len(ioq') \in Nat
  BY DEF Settling, Moved
<1>1. TwoAttempts' /\ NoneBetween'
  BY SettlingAttempts DEF AttemptsInOrder
<1>2. OneBehindOpener'
  <2> SUFFICES ASSUME NEW k, NEW m, NEW n, Opener(k)', Attempt(m)', Attempt(n)',
                      k < m, k < n
               PROVE  m = n
    BY DEF OneBehindOpener
  <2>1. k \in Nat /\ m \in Nat /\ n \in Nat /\ k \in 1..Len(ioq')
    BY <1>0, AttemptPlaces
  <2>2. Attempt(Was(s, m)) /\ Attempt(Was(s, n))
    BY DEF Settling
  <2>3. CASE Added(s, k)
    <3>1. Was(s, m) = Len(ioq) + 1 /\ Was(s, n) = Len(ioq) + 1
      BY <1>0, <2>1, <2>3 DEF Was, Added
    <3>2. QED BY <3>1 DEF Settling
  <2>4. CASE ~Added(s, k)
    <3>1. Opener(k + s) /\ k <= Len(ioq) - s
      BY <1>0, <2>1, <2>4 DEF OpenersMoved, Added
    <3>2. k + s < Was(s, m) /\ k + s < Was(s, n)
      BY <1>0, <2>1, <3>1 DEF Was
    <3>3. Was(s, m) = Was(s, n)
      BY <2>2, <3>1, <3>2 DEF AttemptsInOrder, OneBehindOpener
    <3>4. QED BY <3>3 DEF Settling
  <2>5. QED BY <2>3, <2>4
<1>3. connect_state' = "connected" => OneAttempt' /\ ClosersLast'
  BY SettlingAttempts DEF AttemptsInOrder
<1>4. ASSUME connect_state' # "connected" PROVE ClosedFirst'
  <2>1. CASE NoAttempt' \/ \A n : ~Opener(n)'
    BY <2>1 DEF NoAttempt, ClosedFirst
  <2>2. CASE connect_state # "connected"
    <3> SUFFICES ASSUME NEW k, NEW m, NEW n, Attempt(k)', Closer(m)', k < m, Opener(n)'
                 PROVE  k < n
      BY DEF ClosedFirst
    <3>1. k \in Nat /\ m \in Nat /\ n \in Nat /\ n \in 1..Len(ioq')
      BY <1>0, AttemptPlaces
    <3>2. ~Added(s, m)
      BY <2>2 DEF Settling
    <3>3. Closer(m + s) /\ m <= Len(ioq) - s
      BY <1>0, <3>2, CloserWas
    <3>4. Was(s, k) = k + s /\ Attempt(k + s)
      <4>1. Was(s, k) = k + s
        BY <1>0, <3>1, <3>3 DEF Was
      <4>2. QED BY <4>1 DEF Settling
    <3>5. CASE Added(s, n)
      BY <1>0, <3>1, <3>3, <3>5 DEF Added
    <3>6. CASE ~Added(s, n)
      <4>1. Opener(n + s) /\ k + s < m + s
        BY <1>0, <3>1, <3>6 DEF OpenersMoved
      <4>2. k + s < n + s
        BY <2>2, <3>3, <3>4, <4>1 DEF AttemptsInOrder, ClosedFirst
      <4>3. QED BY <1>0, <3>1, <4>2
    <3>7. QED BY <3>5, <3>6
  <2>3. QED BY <1>4, <2>1, <2>2
<1>5. OneAttempt' \/ connect_state' = "connecting" \/ socket' = "closed"
  BY SettlingAttempts DEF AttemptsInOrder
<1>6. ASSUME AtRest'
      PROVE  /\ connect_state' = "connected" => NoAttempt'
             /\ OneAttempt' \/ socket' = "closed"
  <2>1. CASE AtRest
    BY <1>6, <2>1, SettlingAttempts DEF AttemptsInOrder
  <2>2. CASE ~AtRest
    BY <1>6, <2>2
  <2>3. QED BY <2>1, <2>2
<1>7. QED BY <1>1, <1>2, <1>3, <1>4, <1>5, <1>6 DEF AttemptsInOrder

LEMMA AddingSettles ==
  ASSUME NEW s, Moved(s), socket' = "opening" => socket = "opening",
         \A n : Added(s, n) /\ ioq'[n].op = "connect" =>
           socket = "opening" /\ socket' # "opening",
         \A m, n : /\ Added(s, m) /\ ioq'[m].op = "connect"
                   /\ Added(s, n) /\ ioq'[n].op = "connect"
                   => m = n,
         \A n : Added(s, n) /\ Closer(n)' =>
           /\ socket' # "opening"
           /\ NoAttempt \/ connect_state = "connected"
           /\ \A m : Added(s, m) /\ ioq'[m].op = "connect" => m < n
  PROVE  Settling(s)
<1>0. s \in {0, 1} /\ Len(ioq) \in Nat /\ Len(ioq') \in Nat /\ Len(ioq) - s <= Len(ioq')
  BY DEF Moved
<1>1. ASSUME NEW n, Attempt(n)'
      PROVE  /\ Attempt(Was(s, n)) /\ n \in Nat
             /\ \/ n <= Len(ioq) - s /\ Was(s, n) = n + s
                \/ /\ n > Len(ioq) - s /\ Was(s, n) = Len(ioq) + 1
                   /\ \/ Added(s, n) /\ ioq'[n].op = "connect"
                      \/ n = Len(ioq') + 1 /\ socket' = "opening"
  <2>1. n \in Nat
    BY <1>1, AttemptPlaces
  <2>2. CASE n \in 1..Len(ioq') /\ ioq'[n].op = "connect" /\ ~Added(s, n)
    <3>1. n + s \in 1..Len(ioq) /\ ioq[n + s].op = "connect" /\ n <= Len(ioq) - s
      BY <1>0, <2>2, MovedFrom DEF Added
    <3>2. QED BY <2>1, <3>1 DEF Was, Attempt
  <2>3. CASE Added(s, n) /\ ioq'[n].op = "connect"
    <3>1. n > Len(ioq) - s /\ Was(s, n) = Len(ioq) + 1
      BY <1>0, <2>1, <2>3 DEF Added, Was
    <3>2. QED BY <2>1, <2>3, <3>1 DEF Attempt
  <2>4. CASE n = Len(ioq') + 1 /\ socket' = "opening"
    <3>1. n > Len(ioq) - s /\ Was(s, n) = Len(ioq) + 1
      BY <1>0, <2>4 DEF Was
    <3>2. QED BY <2>1, <2>4, <3>1 DEF Attempt
  <2>5. QED BY <1>1, <2>2, <2>3, <2>4 DEF Attempt
<1>2. ASSUME NEW m, NEW n, Attempt(m)', Attempt(n)', Was(s, m) = Was(s, n)
      PROVE  m = n
  <2>1. CASE m <= Len(ioq) - s \/ n <= Len(ioq) - s
    BY <1>0, <1>1, <1>2, <2>1
  <2>2. CASE ~(m <= Len(ioq) - s \/ n <= Len(ioq) - s)
    <3>1. \/ Added(s, m) /\ ioq'[m].op = "connect"
          \/ m = Len(ioq') + 1 /\ socket' = "opening"
      BY <1>1, <1>2, <2>2
    <3>2. \/ Added(s, n) /\ ioq'[n].op = "connect"
          \/ n = Len(ioq') + 1 /\ socket' = "opening"
      BY <1>1, <1>2, <2>2
    <3>3. QED BY <3>1, <3>2
  <2>3. QED BY <2>1, <2>2
<1>3. ASSUME NEW m, NEW n, Added(s, m), Closer(m)', Attempt(n)'
      PROVE  n < m /\ connect_state = "connected"
  <2>1. ~NoAttempt
    BY <1>1, <1>3 DEF NoAttempt
  <2>2. socket' # "opening" /\ m \in Nat /\ m > Len(ioq) - s
    BY <1>3 DEF Added
  <2>3. QED BY <1>0, <1>1, <1>3, <2>1, <2>2
<1>4. QED BY <1>1, <1>2, <1>3 DEF Settling

-----------------------------------------------------------------------------
(* The read that is outstanding, or its completion.                        *)

ReadEnd(n) == n \in 1..Len(ioq) /\ ioq[n].op \in {"read", "read_error"}

\* stop_impl has closed the socket, and no start() that is queued runs before n.
ClosedUntil(n) ==
    /\ socket = "closed" /\ ~started
    /\ \A k \in 1..Len(ioq) : ioq[k].op = "start" => n < k

\* A read of an earlier connection that completes after the next attempt was
\* aborted, and nothing closes that connection before its own completion runs.
LateRead(m, n) ==
    /\ \A k : Closer(k) => m < k
    /\ read_pending \/ ClosedUntil(n)

Turns ==
    /\ reading \in {0, 1} /\ read_pending \in BOOLEAN
    /\ \A m, n : ReadEnd(m) /\ ReadEnd(n) => m = n
    /\ reading = 1 =>
         /\ read_pending /\ \A n : ~ReadEnd(n)
         /\ NoAttempt \/ connect_state = "connected"
    /\ \A m, n : Attempt(m) /\ ReadEnd(n) /\ m < n => LateRead(m, n)

\* A read ended, if any did, and attempts that are queued are earlier ones.
ReadsMoved(s) ==
    /\ Moved(s)
    /\ reading' \in {0, reading}
    /\ \A n : Added(s, n) /\ ReadEnd(n)' => reading = 1 /\ reading' = 0
    /\ \A m, n : Added(s, m) /\ ReadEnd(m)' /\ Added(s, n) /\ ReadEnd(n)' => m = n
    /\ \A n : Attempt(n)' /\ n <= Len(ioq') => Attempt(Was(s, n))
    /\ \A m, n : Added(s, m) /\ Closer(m)' /\ Attempt(n)' /\ n <= Len(ioq') => n < m

LEMMA EndWas ==
  ASSUME NEW s, Moved(s), NEW n, ReadEnd(n)', ~Added(s, n)
  PROVE  ReadEnd(n + s) /\ n <= Len(ioq) - s
<1>1. n \in 1..Len(ioq') /\ n <= Len(ioq) - s
  BY DEF ReadEnd, Added, Moved
<1>2. QED BY <1>1, MovedFrom DEF ReadEnd

LEMMA NoReadLeft ==
  ASSUME \A n : ~ReadEnd(n)', reading' \in {0, 1}, read_pending' \in BOOLEAN,
         reading' = 1 => read_pending' /\ (NoAttempt' \/ connect_state' = "connected")
  PROVE  Turns'
  BY DEF Turns

LEMMA ReadsTurn ==
  ASSUME NEW s, ReadsMoved(s), Turns, AttemptsInOrder, read_pending' \in BOOLEAN,
         reading' = 1 => read_pending' /\ (NoAttempt' \/ connect_state' = "connected"),
         \A m, n : Attempt(m)' /\ ReadEnd(n)' /\ m < n => read_pending' \/ ClosedUntil(n)'
  PROVE  Turns'
<1>0. Moved(s) /\ s \in {0, 1} /\ Len(ioq) \in Nat /\ Len(ioq') \in Nat
  BY DEF ReadsMoved, Moved
<1>1. \A n : ReadEnd(n)' => n \in 1..Len(ioq')
  BY DEF ReadEnd
<1>2. \A m, n : ReadEnd(m)' /\ ReadEnd(n)' => m = n
  <2> SUFFICES ASSUME NEW m, NEW n, ReadEnd(m)', ReadEnd(n)' PROVE m = n
    OBVIOUS
  <2>1. CASE Added(s, m) /\ Added(s, n)
    BY <2>1 DEF ReadsMoved
  <2>2. CASE ~Added(s, m) /\ ~Added(s, n)
    <3>1. ReadEnd(m + s) /\ ReadEnd(n + s)
      BY <1>0, <2>2, EndWas
    <3>2. m + s = n + s
      BY <3>1 DEF Turns
    <3>3. QED BY <1>0, <1>1, <3>2
  <2>3. CASE Added(s, m) /\ ~Added(s, n)
    <3>1. ReadEnd(n + s) /\ reading = 1
      BY <1>0, <2>3, EndWas DEF ReadsMoved
    <3>2. QED BY <3>1 DEF Turns
  <2>4. CASE ~Added(s, m) /\ Added(s, n)
    <3>1. ReadEnd(m + s) /\ reading = 1
      BY <1>0, <2>4, EndWas DEF ReadsMoved
    <3>2. QED BY <3>1 DEF Turns
  <2>5. QED BY <2>1, <2>2, <2>3, <2>4
<1>3. reading' = 1 => \A n : ~ReadEnd(n)'
  <2> SUFFICES ASSUME reading' = 1, NEW n, ReadEnd(n)' PROVE FALSE
    OBVIOUS
  <2>1. reading = 1 /\ ~Added(s, n)
    BY DEF ReadsMoved
  <2>2. ReadEnd(n + s)
    BY <1>0, <2>1, EndWas
  <2>3. QED BY <2>1, <2>2 DEF Turns
<1>4. ASSUME NEW m, NEW n, Attempt(m)', ReadEnd(n)', m < n, NEW k, Closer(k)'
      PROVE  m < k
  <2>1. /\ m \in Nat /\ n \in Nat /\ k \in Nat /\ m <= Len(ioq')
        /\ n <= Len(ioq') /\ k \in 1..Len(ioq')
    BY <1>0, <1>1, <1>4, AttemptPlaces
  <2>2. Attempt(Was(s, m))
    BY <1>4, <2>1 DEF ReadsMoved
  <2>3. CASE Added(s, k)
    BY <1>4, <2>1, <2>3 DEF ReadsMoved
  <2>4. CASE ~Added(s, k)
    <3>1. Closer(k + s) /\ k <= Len(ioq) - s
      BY <1>0, <1>4, <2>4, CloserWas
    <3>2. Was(s, m) < k + s
      <4>1. CASE Added(s, n)
        <5>1. connect_state = "connected"
          BY <1>4, <2>2, <4>1 DEF ReadsMoved, Turns, NoAttempt
        <5>2. QED BY <2>2, <3>1, <5>1 DEF AttemptsInOrder, ClosersLast
      <4>2. CASE ~Added(s, n)
        <5>1. ReadEnd(n + s) /\ n <= Len(ioq) - s
          BY <1>0, <1>4, <4>2, EndWas
        <5>2. Was(s, m) = m + s /\ m + s < n + s
          BY <1>0, <1>4, <2>1, <5>1 DEF Was
        <5>3. QED BY <2>2, <3>1, <5>1, <5>2 DEF Turns, LateRead
      <4>3. QED BY <4>1, <4>2
    <3>3. QED BY <1>0, <2>1, <3>1, <3>2 DEF Was
  <2>5. QED BY <2>3, <2>4
<1>5. reading' \in {0, 1}
  BY DEF ReadsMoved, Turns
<1>6. QED BY <1>2, <1>3, <1>4, <1>5 DEF Turns, LateRead

\* The flag stays set for a read that is to complete late.
LEMMA LateReadsWait ==
  ASSUME NEW s, ReadsMoved(s), Turns, read_pending' = read_pending,
         \A n : ClosedUntil(n + s) /\ n \in Nat /\ n <= Len(ioq) - s => ClosedUntil(n)',
         NEW m, NEW n, Attempt(m)', ReadEnd(n)', m < n
  PROVE  read_pending' \/ ClosedUntil(n)'
<1>0. Moved(s) /\ s \in {0, 1} /\ Len(ioq) \in Nat /\ Len(ioq') \in Nat
  BY DEF ReadsMoved, Moved
<1>1. m \in Nat /\ n \in Nat /\ m <= Len(ioq') /\ n \in 1..Len(ioq')
  <2>1. n \in 1..Len(ioq')
    BY DEF ReadEnd
  <2>2. QED BY <1>0, <2>1, AttemptPlaces
<1>2. CASE Added(s, n)
  BY <1>2 DEF ReadsMoved, Turns
<1>3. CASE ~Added(s, n)
  <2>1. ReadEnd(n + s) /\ n <= Len(ioq) - s
    BY <1>0, <1>3, EndWas
  <2>2. Attempt(m + s) /\ m + s < n + s
    <3>1. Was(s, m) = m + s
      BY <1>0, <1>1, <2>1 DEF Was
    <3>2. QED BY <1>0, <1>1, <3>1 DEF ReadsMoved
  <2>3. read_pending \/ ClosedUntil(n + s)
    BY <2>1, <2>2 DEF Turns, LateRead
  <2>4. QED BY <1>1, <2>1, <2>3
<1>4. QED BY <1>2, <1>3

LEMMA StaysClosed ==
  ASSUME NEW s, Moved(s), socket = "closed" => socket' = "closed", started' => started,
         NEW n \in Nat, n <= Len(ioq) - s, ClosedUntil(n + s)
  PROVE  ClosedUntil(n)'
<1>1. ASSUME NEW k \in 1..Len(ioq'), ioq'[k].op = "start" PROVE n < k
  <2>1. CASE Added(s, k)
    BY <2>1 DEF Added, Moved
  <2>2. CASE ~Added(s, k)
    <3>1. k + s \in 1..Len(ioq) /\ ioq[k + s].op = "start"
      BY <1>1, <2>2, MovedFrom
    <3>2. n + s < k + s
      BY <3>1 DEF ClosedUntil
    <3>3. QED BY <3>2 DEF Moved
  <2>3. QED BY <2>1, <2>2
<1>2. QED BY <1>1 DEF ClosedUntil

-----------------------------------------------------------------------------
(* Steps that neither begin an attempt nor close a connection.             *)

LEMMA OpenersStay ==
  ASSUME NEW s, Moved(s), check_timer_id' = check_timer_id, started' => started,
         started => started' \/ \A n \in 1..Len(ioq) : ioq[n].op # "start"
  PROVE  OpenersMoved(s)
<1> SUFFICES ASSUME NEW n, Opener(n)', ~Added(s, n) PROVE Opener(n + s)
  BY DEF OpenersMoved
<1>1. n + s \in 1..Len(ioq) /\ ioq'[n] = ioq[n + s]
  BY MovedFrom DEF Opener
<1>2. QED BY <1>1 DEF Opener

LEMMA CalmTurns ==
  ASSUME NEW s, Settling(s), OpenersMoved(s), AttemptsInOrder, Turns,
         UNCHANGED <<connect_state, read_pending>>,
         socket = "closed" => socket' = "closed",
         started' => started, AtRest' => AtRest,
         reading' \in {0, reading},
         \A n : Added(s, n) /\ ReadEnd(n)' => reading = 1 /\ reading' = 0,
         \A m, n : Added(s, m) /\ ReadEnd(m)' /\ Added(s, n) /\ ReadEnd(n)' => m = n
  PROVE  AttemptsInOrder' /\ Turns'
<1>1. AttemptsInOrder'
  BY SettlingInOrder
<1>2. Moved(s) /\ ReadsMoved(s)
  BY DEF Settling, ReadsMoved
<1>3. reading' = 1 => read_pending' /\ (NoAttempt' \/ connect_state' = "connected")
  BY SettlingAttempts DEF Turns
<1>4. \A n : ClosedUntil(n + s) /\ n \in Nat /\ n <= Len(ioq) - s => ClosedUntil(n)'
  BY <1>2, StaysClosed
<1>5. \A m, n : Attempt(m)' /\ ReadEnd(n)' /\ m < n => read_pending' \/ ClosedUntil(n)'
  BY <1>2, <1>4, LateReadsWait
<1>6. QED BY <1>1, <1>2, <1>3, <1>5, ReadsTurn DEF Turns

NetOps == {"connect", "read", "read_error", "write_error"}

\* A call or a completion is queued.
Arrives(h) ==
    /\ Posting(h)
    /\ \/ h.op \notin NetOps /\ UNCHANGED <<socket, reading>>
       \/ /\ h.op = "connect" /\ socket = "opening"
          /\ socket' \in {"up", "down"} /\ reading' = reading
          /\ h.ok \/ socket' = "down"
       \/ /\ h.op \in {"read", "read_error"} /\ socket' = socket
          /\ socket \in {"up", "down"} /\ reading > 0 /\ reading' = reading - 1

LEMMA ArrivesSettles ==
  ASSUME TypeInv, Turns, NEW h, Arrives(h)
  PROVE  /\ Settling(0)
         /\ \A n : Added(0, n) /\ Closer(n)' => h.op = "read_error" /\ reading = 1
<1>1. /\ Moved(0) /\ \A m, n : Added(0, m) /\ Added(0, n) => m = n
      /\ \A n : Added(0, n) => ioq'[n] = h
  BY PostingMoves DEF Arrives
<1>2. \A n : Closer(n)' => ioq'[n].op \in {"read_error", "write_error"}
  BY DEF Closer
<1>3. \A n : Added(0, n) /\ Closer(n)' =>
        /\ h.op = "read_error" /\ reading = 1 /\ socket' # "opening"
        /\ \A m : Added(0, m) => ioq'[m].op # "connect"
  BY <1>1, <1>2 DEF Arrives, NetOps, Turns
<1>4. \A n : Added(0, n) /\ Closer(n)' => NoAttempt \/ connect_state = "connected"
  BY <1>3 DEF Turns
<1>5. \A n : Added(0, n) /\ ioq'[n].op = "connect" =>
        socket = "opening" /\ socket' # "opening"
  BY <1>1 DEF Arrives, NetOps
<1>6. socket' = "opening" => socket = "opening"
  BY DEF Arrives
<1>7. Settling(0)
  BY <1>1, <1>3, <1>4, <1>5, <1>6, AddingSettles
<1>8. QED BY <1>3, <1>7

LEMMA ArrivesInTurn ==
  ASSUME TypeInv, AttemptsInOrder, Turns, NEW h, Arrives(h),
         UNCHANGED <<connect_state, read_pending, check_timer_id, started>>,
         AtRest' => AtRest
  PROVE  AttemptsInOrder' /\ Turns'
<1>1. /\ Moved(0) /\ \A m, n : Added(0, m) /\ Added(0, n) => m = n
      /\ \A n : Added(0, n) => ioq'[n] = h
  BY PostingMoves DEF Arrives
<1>2. Settling(0)
  BY ArrivesSettles
<1>3. OpenersMoved(0)
  BY <1>1, OpenersStay
<1>4. reading' \in {0, reading}
  BY DEF Arrives, Turns
<1>5. \A n : Added(0, n) /\ ReadEnd(n)' => reading = 1 /\ reading' = 0
  BY <1>1 DEF Arrives, Turns, ReadEnd, NetOps
<1>6. socket = "closed" => socket' = "closed"
  BY DEF Arrives
<1>7. QED BY <1>1, <1>2, <1>3, <1>4, <1>5, <1>6, CalmTurns

LEMMA KeepingTurns ==
  ASSUME TypeInv, AttemptsInOrder, Turns, ioq' = ioq,
         UNCHANGED <<connect_state, read_pending, check_timer_id, reading>>,
         socket' = socket \/ (socket = "up" /\ socket' = "down"),
         started' => started,
         started => started' \/ \A n \in 1..Len(ioq) : ioq[n].op # "start",
         AtRest' => AtRest
  PROVE  AttemptsInOrder' /\ Turns'
<1>1. Moved(0) /\ \A n : ~Added(0, n)
  BY UnchangedMoves
<1>2. Settling(0)
  BY <1>1, AddingSettles
<1>3. OpenersMoved(0)
  BY <1>1, OpenersStay
<1>4. QED BY <1>1, <1>2, <1>3, CalmTurns

LEMMA SecondTurns ==
  ASSUME TypeInv, AttemptsInOrder, Turns, Second
  PROVE  AttemptsInOrder' /\ Turns'
<1>1. Moved(0) /\ \A n : Added(0, n) => ioq'[n].op = "timer"
  BY SecondMoves
<1>2. UNCHANGED <<connect_state, read_pending, check_timer_id, started, socket,
                  reading, caller>>
  BY DEF Second, netVars
<1>3. Settling(0)
  BY <1>1, <1>2, AddingSettles DEF Closer
<1>4. OpenersMoved(0)
  BY <1>1, <1>2, OpenersStay
<1>5. AtRest' => AtRest
  BY <1>1, <1>2, StillAtRest
<1>6. \A n : Added(0, n) => ~ReadEnd(n)'
  BY <1>1 DEF ReadEnd
<1>7. QED BY <1>2, <1>3, <1>4, <1>5, <1>6, CalmTurns

LEMMA CallsTurn ==
  ASSUME OneThread, TypeInv, TickInv, AttemptsInOrder, Turns, CallAPI
  PROVE  AttemptsInOrder' /\ Turns'
<1>1. /\ UNCHANGED <<check_timer_id, connect_state, read_pending, socket, reading>>
      /\ AtRest' => AtRest
      /\ \/ /\ ioq' = ioq /\ started /\ ~started'
            /\ \A n \in 1..Len(ioq) : ioq[n].op # "start"
         \/ /\ started' = started
            /\ \E h : /\ Posting(h)
                      /\ h.op \in {"start", "stop", "send", "cancel",
                                   "subscribe", "unsubscribe"}
  BY CallShape
<1>2. ASSUME NEW h, Posting(h),
             h.op \in {"start", "stop", "send", "cancel", "subscribe", "unsubscribe"}
      PROVE  Arrives(h)
  BY <1>1, <1>2 DEF Arrives, NetOps
<1>3. QED BY <1>1, <1>2, KeepingTurns, ArrivesInTurn

\* What the network does, as the connection and the queue see it.
LEMMA NetworkShape ==
  ASSUME TypeInv, Network
  PROVE  /\ UNCHANGED <<connect_state, read_pending, check_timer_id, last_connect,
                        started, caller, lag>>
         /\ \/ ioq' = ioq /\ reading' = reading /\ socket = "up" /\ socket' = "down"
            \/ \E h : Arrives(h)
         /\ AtRest' => AtRest
<1>1. UNCHANGED <<connect_state, read_pending, check_timer_id, last_connect,
                  started, caller>>
  BY NetworkTypes DEF Delivers, clientVars
<1>2. lag' = lag
  BY DEF Network, ConnectDone, LinkBreaks, ReadReady, ReadFails, Posted, queueVars
<1>3. ASSUME NEW ok \in BOOLEAN, ConnectDone(ok) PROVE \E h : Arrives(h)
  <2> DEFINE h == [op |-> "connect", ok |-> ok]
  <2>1. Posting(h) /\ h.op = "connect" /\ h.ok = ok
    BY <1>3 DEF ConnectDone, Posting, Handlers
  <2>2. /\ socket = "opening" /\ socket' \in {"up", "down"} /\ reading' = reading
        /\ ok \/ socket' = "down"
    BY <1>3 DEF ConnectDone
  <2> HIDE DEF h
  <2>3. QED BY <2>1, <2>2 DEF Arrives
<1>4. ASSUME LinkBreaks
      PROVE  ioq' = ioq /\ reading' = reading /\ socket = "up" /\ socket' = "down"
  BY <1>4 DEF LinkBreaks, queueVars
<1>5. ASSUME NEW packet, ReadReady(packet), [op |-> "read", packet |-> packet] \in Handlers
      PROVE  \E h : Arrives(h)
  <2> DEFINE h == [op |-> "read", packet |-> packet]
  <2>1. Posting(h) /\ h.op = "read"
    BY <1>5 DEF ReadReady, Posting
  <2>2. /\ socket' = socket /\ socket \in {"up", "down"}
        /\ reading > 0 /\ reading' = reading - 1
    BY <1>5 DEF ReadReady
  <2> HIDE DEF h
  <2>3. QED BY <2>1, <2>2 DEF Arrives
<1>6. ASSUME ReadFails PROVE \E h : Arrives(h)
  <2> DEFINE h == [op |-> "read_error"]
  <2>1. Posting(h) /\ h.op = "read_error"
    BY <1>6 DEF ReadFails, Posting, Handlers
  <2>2. /\ socket' = socket /\ socket \in {"up", "down"}
        /\ reading > 0 /\ reading' = reading - 1
    BY <1>6 DEF ReadFails
  <2> HIDE DEF h
  <2>3. QED BY <2>1, <2>2 DEF Arrives
<1>7. /\ \A i \in on_wire : [op |-> "read", packet |-> Response(i)] \in Handlers
      /\ \A p \in Pushes : [op |-> "read", packet |-> Push(p)] \in Handlers
  BY DEF TypeInv, NetOK, Handlers, Response, Push
<1>8. \/ ioq' = ioq /\ reading' = reading /\ socket = "up" /\ socket' = "down"
      \/ \E h : Arrives(h)
  BY <1>3, <1>4, <1>5, <1>6, <1>7 DEF Network
<1>9. AtRest' => AtRest
  <2>1. Moved(0)
    BY <1>8, PostingMoves, UnchangedMoves DEF Arrives
  <2>2. QED BY <1>1, <2>1, StillAtRest
<1>10. QED BY <1>1, <1>2, <1>8, <1>9

LEMMA NetworkTurns ==
  ASSUME TypeInv, AttemptsInOrder, Turns, Network
  PROVE  AttemptsInOrder' /\ Turns'
<1>1. /\ UNCHANGED <<connect_state, read_pending, check_timer_id, started>>
      /\ \/ ioq' = ioq /\ reading' = reading /\ socket = "up" /\ socket' = "down"
         \/ \E h : Arrives(h)
      /\ AtRest' => AtRest
  BY NetworkShape
<1>2. QED BY <1>1, KeepingTurns, ArrivesInTurn

\* What is written to a connection that broke fails.
LEMMA WritesAdd ==
  ASSUME TypeInv, ioq # <<>>, Queues(<<>>) \/ Queues(WriteErrors)
  PROVE  /\ Moved(1) /\ 1 \in 1..Len(ioq) /\ Head(ioq) = ioq[1]
         /\ \A n : Added(1, n) =>
              /\ ioq'[n].op = "write_error"
              /\ socket \in {"down", "closed"} /\ connect_state = "connected"
<1>1. PICK handlers \in Seq(Completions) :
        /\ Queues(handlers)
        /\ \A k \in 1..Len(handlers) :
             /\ handlers[k].op = "write_error"
             /\ socket \in {"down", "closed"} /\ connect_state = "connected"
  <2>1. CASE Queues(<<>>)
    <3>1. <<>> \in Seq(Completions) /\ Len(<<>>) = 0
      OBVIOUS
    <3>2. \A k \in 1..Len(<<>>) : FALSE
      BY <3>1
    <3>3. QED BY <2>1, <3>1, <3>2
  <2>2. CASE Queues(WriteErrors)
    <3>1. WriteErrors \in Seq(Completions)
      BY WritesType DEF TypeInv
    <3>2. Len(Outgoing) \in Nat
      BY OutgoingType DEF TypeInv
    <3>3. ASSUME NEW k \in 1..Len(WriteErrors)
          PROVE  /\ WriteErrors[k].op = "write_error"
                 /\ socket \in {"down", "closed"} /\ connect_state = "connected"
      <4>1. socket \in {"down", "closed"}
        <5>1. SUFFICES ASSUME socket \notin {"down", "closed"} PROVE FALSE
          OBVIOUS
        <5>2. WriteErrors = <<>>
          BY <5>1 DEF WriteErrors
        <5>3. QED BY <3>3, <5>2
      <4>2. WriteErrors = [n \in 1..Len(Outgoing) |-> [op |-> "write_error"]]
        BY <4>1 DEF WriteErrors
      <4>3. Len(WriteErrors) = Len(Outgoing)
        BY <3>2, <4>2
      <4>4. connect_state = "connected"
        <5>1. SUFFICES ASSUME connect_state # "connected" PROVE FALSE
          OBVIOUS
        <5>2. Outgoing = <<>>
          BY <5>1 DEF Outgoing
        <5>3. QED BY <3>3, <4>3, <5>2
      <4>5. QED BY <3>3, <4>1, <4>2, <4>3, <4>4
    <3>4. QED BY <2>2, <3>1, <3>3
  <2>3. QED BY <2>1, <2>2
<1>2. handlers \in Seq(Handlers)
  BY SeqWider, CompletionTypes
<1>3. Head(ioq) = ioq[1]
  BY DEF TypeInv, QueueOK
<1>4. QED BY <1>1, <1>2, <1>3, QueuesMoves

LEMMA WritesSettle ==
  ASSUME TypeInv, ioq # <<>>, Queues(<<>>) \/ Queues(WriteErrors), socket' = socket
  PROVE  Settling(1) /\ \A n : Added(1, n) => ~ReadEnd(n)'
<1>1. /\ Moved(1)
      /\ \A n : Added(1, n) =>
           /\ ioq'[n].op = "write_error"
           /\ socket \in {"down", "closed"} /\ connect_state = "connected"
  BY WritesAdd
<1>2. Settling(1)
  BY <1>1, AddingSettles
<1>3. QED BY <1>1, <1>2 DEF ReadEnd

LEMMA WritingTurns ==
  ASSUME TypeInv, AttemptsInOrder, Turns,
         ioq # <<>>, Queues(<<>>) \/ Queues(WriteErrors),
         UNCHANGED <<connect_state, read_pending, socket, reading, check_timer_id,
                     started>>,
         AtRest' => AtRest
  PROVE  AttemptsInOrder' /\ Turns'
<1>1. Settling(1) /\ \A n : Added(1, n) => ~ReadEnd(n)'
  BY WritesSettle
<1>2. OpenersMoved(1)
  BY <1>1, OpenersStay DEF Settling
<1>3. QED BY <1>1, <1>2, CalmTurns

\* Handlers that leave the connection alone.
LEMMA OthersTurn ==
  ASSUME TypeInv, AttemptsInOrder, Turns,
         \/ RunSend \/ RunCancel \/ RunSubscription \/ RunTimerStart \/ RunTimerStop
         \/ RunTimer /\ ~(Head(ioq).timer \in DOMAIN timers /\ Reconnects)
         \/ RunStart /\ started
  PROVE  AttemptsInOrder' /\ Turns'
<1>1. /\ ioq # <<>> /\ (Queues(<<>>) \/ Queues(WriteErrors))
      /\ UNCHANGED <<connect_state, read_pending, socket, reading, check_timer_id,
                     started>>
  BY DEF RunSend, RunCancel, RunSubscription, RunTimerStart, RunTimerStop, RunTimer,
     RunStart, Runs, clientVars, netVars
<1>2. Moved(1) /\ Head(ioq) = ioq[1]
  BY <1>1, WritesAdd
<1>3. AtRest' => AtRest
  <2>1. CASE RunStart
    BY <2>1 DEF RunStart, AtRest
  <2>2. CASE ~RunStart
    <3>1. caller' = caller /\ ioq[1].op # "stop"
      BY <1>2, <2>2 DEF RunSend, RunCancel, RunSubscription, RunTimerStart,
         RunTimerStop, RunTimer, Runs
    <3>2. QED BY <1>1, <1>2, <3>1, StillAtRest
  <2>3. QED BY <2>1, <2>2
<1>4. QED BY <1>1, <1>3, WritingTurns

\* A read that completed is followed by the next, if the client is connected.
LEMMA ReadsTurnOver ==
  ASSUME TypeInv, AttemptsInOrder, Turns, RunReadResponse \/ RunReadPush
  PROVE  AttemptsInOrder' /\ Turns'
<1>1. /\ ioq # <<>> /\ (Queues(<<>>) \/ Queues(WriteErrors)) /\ Runs("read")
      /\ UNCHANGED <<connect_state, socket, check_timer_id, started, caller>>
      /\ DoReadPacket(connect_state = "connected", FALSE)
  BY DEF RunReadResponse, RunReadPush, Runs
<1>2. Settling(1) /\ \A n : Added(1, n) => ~ReadEnd(n)'
  BY <1>1, WritesSettle
<1>3. Moved(1) /\ 1 \in 1..Len(ioq) /\ Head(ioq) = ioq[1] /\ ioq[1].op = "read"
  BY <1>1, WritesAdd DEF Runs
<1>4. OpenersMoved(1)
  BY <1>1, <1>3, OpenersStay
<1>5. AtRest' => AtRest
  BY <1>1, <1>3, StillAtRest
<1>6. AttemptsInOrder'
  BY <1>1, <1>2, <1>4, <1>5, SettlingInOrder
<1>7. ReadEnd(1)
  BY <1>3 DEF ReadEnd
<1>8. \A n : ~ReadEnd(n)'
  <2> SUFFICES ASSUME NEW n, ReadEnd(n)' PROVE FALSE
    OBVIOUS
  <2>1. ReadEnd(n + 1) /\ n \in 1..Len(ioq')
    BY <1>2, <1>3, EndWas DEF ReadEnd
  <2>2. n + 1 = 1
    BY <1>7, <2>1 DEF Turns
  <2>3. QED BY <2>1, <2>2
<1>9. reading = 0
  BY <1>7 DEF Turns
<1>10. /\ reading' \in {0, 1} /\ read_pending' \in BOOLEAN
       /\ reading' = 1 => read_pending' /\ connect_state' = "connected"
  <2>1. CASE connect_state = "connected"
    <3>1. read_pending' = TRUE /\ reading' = reading + 1 /\ connect_state' = "connected"
      BY <1>1, <2>1 DEF DoReadPacket
    <3>2. QED BY <1>9, <3>1
  <2>2. CASE connect_state # "connected"
    <3>1. read_pending' = FALSE /\ reading' = reading
      BY <1>1, <2>2 DEF DoReadPacket
    <3>2. reading' # 1 /\ reading' \in {0, 1}
      BY <1>9, <3>1
    <3>3. read_pending' \in BOOLEAN
      BY <3>1
    <3>4. QED BY <3>2, <3>3
  <2>3. QED BY <2>1, <2>2
<1>11. QED BY <1>6, <1>8, <1>10, NoReadLeft

-----------------------------------------------------------------------------
(* Attempts end, and connections are closed.                               *)

LEMMA ConnectTurns ==
  ASSUME TypeInv, AttemptsInOrder, Turns, RunConnect
  PROVE  AttemptsInOrder' /\ Turns'
<1>1. /\ ioq # <<>> /\ Queues(<<>>) /\ Runs("connect")
      /\ UNCHANGED <<socket, check_timer_id, started, caller>>
  BY DEF RunConnect, Runs
<1>2. Settling(1) /\ \A n : Added(1, n) => ~ReadEnd(n)'
  BY <1>1, WritesSettle
<1>3. Moved(1) /\ 1 \in 1..Len(ioq) /\ Head(ioq) = ioq[1] /\ ioq[1].op = "connect"
  BY <1>1, WritesAdd DEF Runs
<1>4. OpenersMoved(1)
  BY <1>1, <1>3, OpenersStay
<1>5. AtRest' => AtRest
  BY <1>1, <1>3, StillAtRest
<1>6. Attempt(1) /\ Len(ioq) \in Nat /\ Len(ioq') \in Nat
  BY <1>3 DEF Attempt, Moved
<1>7. \A n : Attempt(n)' =>
        /\ n \in Nat \ {0} /\ Attempt(Was(1, n)) /\ Was(1, n) \in Nat /\ Was(1, n) > 1
        /\ n <= Len(ioq) - 1 => Was(1, n) = n + 1
  <2> SUFFICES ASSUME NEW n, Attempt(n)'
               PROVE  /\ n \in Nat \ {0} /\ Attempt(Was(1, n))
                      /\ Was(1, n) \in Nat /\ Was(1, n) > 1
                      /\ n <= Len(ioq) - 1 => Was(1, n) = n + 1
    OBVIOUS
  <2>1. n \in Nat \ {0} /\ Attempt(Was(1, n))
    BY <1>2, <1>3, AttemptPlaces DEF Settling
  <2>2. QED BY <1>3, <1>6, <2>1 DEF Was
<1>8. OneAttempt'
  <2> SUFFICES ASSUME NEW m, NEW n, Attempt(m)', Attempt(n)' PROVE m = n
    BY DEF OneAttempt
  <2>1. /\ Attempt(Was(1, m)) /\ Was(1, m) > 1 /\ Was(1, m) \in Nat
        /\ Attempt(Was(1, n)) /\ Was(1, n) > 1 /\ Was(1, n) \in Nat
    BY <1>7
  <2>2. Was(1, m) = Was(1, n)
    <3>1. TwoAttempts
      BY DEF AttemptsInOrder
    <3>2. ~(Was(1, m) < Was(1, n)) /\ ~(Was(1, n) < Was(1, m))
      BY <1>6, <2>1, <3>1 DEF TwoAttempts
    <3>3. QED BY <2>1, <3>2
  <2>3. QED BY <1>2, <2>2 DEF Settling
<1>9. ClosersLast'
  <2> SUFFICES ASSUME NEW m, NEW n, Attempt(m)', Closer(n)' PROVE m < n
    BY DEF ClosersLast
  <2>1. CASE Added(1, n)
    BY <1>2, <2>1 DEF Settling
  <2>2. CASE ~Added(1, n)
    <3>1. Closer(n + 1) /\ n <= Len(ioq) - 1 /\ n \in 1..Len(ioq')
      BY <1>3, <2>2, CloserWas DEF Closer
    <3>2. Attempt(Was(1, m)) /\ ~(n + 1 < Was(1, m))
      <4>1. NoneBetween /\ 1 < n + 1
        BY <3>1 DEF AttemptsInOrder
      <4>2. QED BY <1>6, <1>7, <3>1, <4>1 DEF NoneBetween
    <3>3. m \in Nat /\ Was(1, m) # n + 1
      <4>1. n + 1 <= Len(ioq)
        BY <1>6, <3>1
      <4>2. QED BY <1>6, <1>7, <3>1, <3>2, <4>1 DEF Attempt, Closer
    <3>4. QED BY <1>6, <1>7, <3>1, <3>2, <3>3 DEF Was
  <2>3. QED BY <2>1, <2>2
<1>10. connect_state = "connected" \/ ~OneAttempt => NoAttempt' \/ ~OneAttempt
  <2>1. ASSUME OneAttempt, NEW n, Attempt(n)' PROVE FALSE
    BY <1>6, <1>7, <2>1 DEF OneAttempt
  <2>2. QED BY <2>1 DEF NoAttempt
<1>11. connect_state = "connected" => NoAttempt'
  BY <1>10 DEF AttemptsInOrder
<1>12. CASE Head(ioq).ok /\ socket # "closed"
  <2>1. /\ connect_state' = "connected" /\ DoReadPacket(TRUE, read_pending)
    BY <1>12 DEF RunConnect
  <2>2. AtRest' => NoAttempt'
    <3>1. AtRest' => OneAttempt
      BY <1>5, <1>12 DEF AttemptsInOrder
    <3>2. ASSUME OneAttempt, NEW n, Attempt(n)' PROVE FALSE
      BY <1>6, <1>7, <3>2 DEF OneAttempt
    <3>3. QED BY <3>1, <3>2 DEF NoAttempt
  <2>3. AttemptsInOrder'
    BY <1>2, <1>4, <1>5, <1>8, <1>9, <2>1, <2>2, SettlingInOrder
  <2>4. CASE read_pending
    <3>1. read_pending' = read_pending /\ reading' = reading
      BY <2>1, <2>4 DEF DoReadPacket
    <3>2. ReadsMoved(1)
      BY <1>2, <3>1 DEF Settling, ReadsMoved
    <3>3. QED BY <2>1, <2>3, <2>4, <3>1, <3>2, ReadsTurn
  <2>5. CASE ~read_pending
    <3>1. \A n : ~ReadEnd(n)'
      <4> SUFFICES ASSUME NEW n, ReadEnd(n)' PROVE FALSE
        OBVIOUS
      <4>1. ReadEnd(n + 1) /\ n \in 1..Len(ioq')
        BY <1>2, <1>3, EndWas DEF ReadEnd
      <4>2. ClosedUntil(n + 1)
        <5>1. 1 < n + 1
          BY <4>1
        <5>2. LateRead(1, n + 1)
          BY <1>6, <4>1, <5>1 DEF Turns
        <5>3. QED BY <2>5, <5>2 DEF LateRead
      <4>3. QED BY <1>12, <4>2 DEF ClosedUntil
    <3>2. reading = 0
      BY <2>5 DEF Turns
    <3>3. reading' = 1 /\ read_pending' = TRUE
      BY <2>1, <2>5, <3>2 DEF DoReadPacket
    <3>4. QED BY <2>1, <2>3, <3>1, <3>3, NoReadLeft
  <2>6. QED BY <2>4, <2>5 DEF Turns
<1>13. CASE ~(Head(ioq).ok /\ socket # "closed")
  <2>1. connect_state' = "disconnected" /\ UNCHANGED <<read_pending, reading>>
    BY <1>13 DEF RunConnect, AfterFailedConnect
  <2>2. AttemptsInOrder'
    BY <1>2, <1>4, <1>5, <1>8, <1>11, <2>1, SettlingInOrder
  <2>3. ReadsMoved(1)
    BY <1>2, <2>1 DEF Settling, ReadsMoved
  <2>4. reading' = 1 => read_pending' /\ NoAttempt'
    <3>1. reading = 1 => connect_state = "connected" /\ read_pending
      BY <1>6 DEF Turns, NoAttempt
    <3>2. QED BY <1>11, <2>1, <3>1
  <2>5. \A n : ClosedUntil(n + 1) /\ n \in Nat /\ n <= Len(ioq) - 1 => ClosedUntil(n)'
    BY <1>1, <1>3, StaysClosed
  <2>6. \A m, n : Attempt(m)' /\ ReadEnd(n)' /\ m < n => read_pending' \/ ClosedUntil(n)'
    BY <2>1, <2>3, <2>5, LateReadsWait
  <2>7. QED BY <2>1, <2>2, <2>3, <2>4, <2>6, ReadsTurn DEF Turns
<1>14. QED BY <1>12, <1>13

\* What closing, or connecting again, adds to the queue.
LEMMA AbortsAdd ==
  ASSUME TypeInv, Turns, NEW handlers \in Seq(Handlers), ioq # <<>>,
         Queues(handlers), Aborts(handlers)
  PROVE  /\ Moved(1) /\ 1 \in 1..Len(ioq) /\ Head(ioq) = ioq[1]
         /\ \A m, n : Added(1, m) /\ Added(1, n) =>
              /\ ioq'[m].op \notin {"read", "write_error", "timer", "start", "stop"}
              /\ ioq'[m].op = "connect" => socket = "opening"
              /\ ioq'[m].op = "read_error" => reading = 1
              /\ ioq'[m].op = "connect" /\ ioq'[n].op = "connect" => m = n
              /\ ioq'[m].op = "connect" /\ ioq'[n].op = "read_error" => m < n
              /\ ioq'[m].op = "read_error" /\ ioq'[n].op = "read_error" => m = n
<1>1. /\ Moved(1) /\ 1 \in 1..Len(ioq) /\ Len(handlers) \in Nat
      /\ \A n : Added(1, n) =>
           /\ n - (Len(ioq) - 1) \in 1..Len(handlers)
           /\ ioq'[n] = handlers[n - (Len(ioq) - 1)]
  BY QueuesMoves
<1>2. Head(ioq) = ioq[1]
  BY DEF TypeInv, QueueOK
<1>3. ASSUME NEW m, NEW n, Added(1, m), Added(1, n)
      PROVE  /\ ioq'[m].op \notin {"read", "write_error", "timer", "start", "stop"}
             /\ ioq'[m].op = "connect" => socket = "opening"
             /\ ioq'[m].op = "read_error" => reading = 1
             /\ ioq'[m].op = "connect" /\ ioq'[n].op = "connect" => m = n
             /\ ioq'[m].op = "connect" /\ ioq'[n].op = "read_error" => m < n
             /\ ioq'[m].op = "read_error" /\ ioq'[n].op = "read_error" => m = n
  <2> DEFINE j == m - (Len(ioq) - 1)
             k == n - (Len(ioq) - 1)
  <2>1. /\ j \in 1..Len(handlers) /\ ioq'[m] = handlers[j]
        /\ k \in 1..Len(handlers) /\ ioq'[n] = handlers[k]
    BY <1>1, <1>3
  <2>2. (j = k => m = n) /\ (j < k => m < n)
    BY <1>1, <1>3 DEF Added, Moved
  <2> HIDE DEF j, k
  <2>3. /\ handlers[j].op \notin {"read", "write_error", "timer", "start", "stop"}
        /\ handlers[j].op = "connect" => socket = "opening"
        /\ handlers[j].op = "read_error" => reading > 0
        /\ handlers[j].op = "connect" /\ handlers[k].op = "connect" => j = k
        /\ handlers[j].op = "connect" /\ handlers[k].op = "read_error" => j < k
        /\ /\ handlers[j].op = "read_error" /\ handlers[k].op = "read_error"
           /\ reading = 1
           => j = k
    BY <2>1 DEF Aborts
  <2>4. reading > 0 => reading = 1
    BY DEF Turns
  <2>5. QED BY <2>1, <2>2, <2>3, <2>4
<1>4. QED BY <1>1, <1>2, <1>3

\* The connection is closed.
LEMMA ClosingSettles ==
  ASSUME TypeInv, Turns, NEW handlers \in Seq(Handlers), ioq # <<>>,
         Queues(handlers), Aborts(handlers), socket' = "closed", reading' = 0
  PROVE  Settling(1) /\ ReadsMoved(1)
<1>1. /\ Moved(1)
      /\ \A m, n : Added(1, m) /\ Added(1, n) =>
           /\ ioq'[m].op \notin {"read", "write_error", "timer", "start", "stop"}
           /\ ioq'[m].op = "connect" => socket = "opening"
           /\ ioq'[m].op = "read_error" => reading = 1
           /\ ioq'[m].op = "connect" /\ ioq'[n].op = "connect" => m = n
           /\ ioq'[m].op = "connect" /\ ioq'[n].op = "read_error" => m < n
           /\ ioq'[m].op = "read_error" /\ ioq'[n].op = "read_error" => m = n
  BY AbortsAdd
<1>2. ASSUME NEW n, Added(1, n), Closer(n)'
      PROVE  /\ NoAttempt \/ connect_state = "connected"
             /\ \A m : Added(1, m) /\ ioq'[m].op = "connect" => m < n
  <2>1. ioq'[n].op = "read_error"
    BY <1>1, <1>2 DEF Closer
  <2>2. QED BY <1>1, <1>2, <2>1 DEF Turns
<1>3. Settling(1)
  BY <1>1, <1>2, AddingSettles
<1>4. ASSUME NEW n, Added(1, n), ReadEnd(n)' PROVE ioq'[n].op = "read_error"
  BY <1>1, <1>4 DEF ReadEnd
<1>5. ReadsMoved(1)
  BY <1>1, <1>3, <1>4 DEF ReadsMoved, Settling
<1>6. QED BY <1>3, <1>5

\* A read or a write that failed closes the connection, if there is one.
LEMMA ErrorCloses ==
  ASSUME TypeInv, AttemptsInOrder, Turns, RunReadError \/ RunWriteError, Closes
  PROVE  /\ Settling(1) /\ ReadsMoved(1) /\ Closer(1) /\ Head(ioq) = ioq[1]
         /\ connect_state = "connected" => NoAttempt
         /\ read_pending' = FALSE /\ reading' = 0
         /\ AttemptsInOrder'
<1>1. /\ ioq # <<>> /\ Queues(AbortedByClose)
      /\ UNCHANGED <<check_timer_id, started, caller>>
      /\ DoClose
  BY DEF RunReadError, RunWriteError, Runs
<1>2. /\ connect_state' = "disconnected" /\ socket' = "closed"
      /\ read_pending' = FALSE /\ reading' = 0
  BY <1>1 DEF DoClose
<1>3. AbortedByClose \in Seq(Handlers) /\ Aborts(AbortedByClose)
  BY AbortedIs, SeqWider, CompletionTypes DEF TypeInv
<1>4. Settling(1) /\ ReadsMoved(1)
  BY <1>1, <1>2, <1>3, ClosingSettles
<1>5. Moved(1) /\ 1 \in 1..Len(ioq) /\ Head(ioq) = ioq[1]
  BY <1>1, <1>3, AbortsAdd
<1>6. Closer(1) /\ ioq[1].op # "stop"
  BY <1>5 DEF RunReadError, RunWriteError, Runs, Closer
<1>7. connect_state = "connected" => NoAttempt
  <2>1. ASSUME connect_state = "connected", NEW n, Attempt(n) PROVE FALSE
    <3>1. n < 1
      BY <1>6, <2>1 DEF AttemptsInOrder, ClosersLast
    <3>2. QED BY <1>5, <2>1, <3>1, AttemptPlaces
  <2>2. QED BY <2>1 DEF NoAttempt
<1>8. connect_state = "connected" => NoAttempt'
  BY <1>4, <1>7, SettlingAttempts
<1>9. OpenersMoved(1)
  BY <1>1, <1>5, OpenersStay
<1>10. AtRest' => AtRest
  BY <1>1, <1>5, <1>6, StillAtRest
<1>11. AttemptsInOrder'
  BY <1>2, <1>4, <1>8, <1>9, <1>10, SettlingInOrder
<1>12. QED BY <1>2, <1>4, <1>5, <1>6, <1>7, <1>11

LEMMA ReadErrorTurns ==
  ASSUME TypeInv, AttemptsInOrder, Turns, RunReadError
  PROVE  AttemptsInOrder' /\ Turns'
<1>1. ioq # <<>> /\ ioq[1].op = "read_error" /\ 1 \in 1..Len(ioq)
  BY NextHandler DEF RunReadError, TypeInv
<1>2. ReadEnd(1) /\ reading = 0
  BY <1>1 DEF ReadEnd, Turns
<1>3. ASSUME Moved(1), \A n : Added(1, n) => ~ReadEnd(n)', NEW n, ReadEnd(n)'
      PROVE  FALSE
  <2>1. ReadEnd(n + 1) /\ n \in 1..Len(ioq')
    BY <1>3, EndWas DEF ReadEnd
  <2>2. n + 1 = 1
    BY <1>2, <2>1 DEF Turns
  <2>3. QED BY <2>1, <2>2
<1>4. CASE Closes
  <2>1. /\ Settling(1) /\ ReadsMoved(1) /\ AttemptsInOrder'
        /\ read_pending' = FALSE /\ reading' = 0
    BY <1>4, ErrorCloses
  <2>2. Moved(1) /\ \A n : Added(1, n) => ~ReadEnd(n)'
    BY <1>2, <2>1 DEF ReadsMoved
  <2>3. reading' \in {0, 1} /\ reading' # 1 /\ read_pending' \in BOOLEAN
    <3>1. reading' \in {0, 1} /\ reading' # 1
      BY <2>1
    <3>2. read_pending' \in BOOLEAN
      BY <2>1
    <3>3. QED BY <3>1, <3>2
  <2>4. QED BY <1>3, <2>1, <2>2, <2>3, NoReadLeft
<1>5. CASE ~Closes
  <2>1. /\ Queues(<<>>) /\ read_pending' = FALSE
        /\ UNCHANGED <<connect_state, socket, reading, check_timer_id, started, caller>>
    BY <1>5 DEF RunReadError, AbortedByClose, netVars
  <2>2. Settling(1) /\ Moved(1) /\ \A n : Added(1, n) => ~ReadEnd(n)'
    BY <1>1, <2>1, WritesSettle DEF Settling
  <2>3. OpenersMoved(1)
    BY <2>1, <2>2, OpenersStay
  <2>4. AtRest' => AtRest
    BY <1>1, <2>1, <2>2, StillAtRest
  <2>5. AttemptsInOrder'
    BY <2>1, <2>2, <2>3, <2>4, SettlingInOrder
  <2>6. reading' \in {0, 1} /\ reading' # 1 /\ read_pending' \in BOOLEAN
    <3>1. reading' \in {0, 1} /\ reading' # 1
      BY <1>2, <2>1
    <3>2. read_pending' \in BOOLEAN
      BY <1>2, <2>1
    <3>3. QED BY <3>1, <3>2
  <2>7. QED BY <1>3, <2>2, <2>5, <2>6, NoReadLeft
<1>6. QED BY <1>4, <1>5

LEMMA WriteErrorTurns ==
  ASSUME TypeInv, AttemptsInOrder, Turns, RunWriteError
  PROVE  AttemptsInOrder' /\ Turns'
<1>1. ioq # <<>> /\ ioq[1].op = "write_error" /\ 1 \in 1..Len(ioq)
  BY NextHandler DEF RunWriteError, TypeInv
<1>2. CASE Closes
  <2>1. /\ Settling(1) /\ ReadsMoved(1) /\ Closer(1) /\ AttemptsInOrder'
        /\ connect_state = "connected" => NoAttempt
        /\ read_pending' = FALSE /\ reading' = 0
    BY <1>2, ErrorCloses
  <2>2. Moved(1) /\ Len(ioq) \in Nat
    BY <2>1 DEF Settling, Moved
  <2>3. ASSUME NEW m, NEW n, Attempt(m)', ReadEnd(n)', m < n PROVE FALSE
    <3>1. CASE Added(1, n)
      <4>1. NoAttempt
        BY <2>1, <2>3, <3>1 DEF ReadsMoved, Turns
      <4>2. QED BY <2>1, <2>3, <4>1, SettlingAttempts DEF NoAttempt
    <3>2. CASE ~Added(1, n)
      <4>1. ReadEnd(n + 1) /\ n <= Len(ioq) - 1 /\ n \in Nat
        BY <2>2, <2>3, <3>2, EndWas DEF ReadEnd
      <4>2. m \in Nat /\ Attempt(m + 1) /\ m + 1 < n + 1
        <5>1. m \in Nat
          BY <2>2, <2>3, AttemptPlaces
        <5>2. Was(1, m) = m + 1
          BY <2>2, <2>3, <4>1, <5>1 DEF Was
        <5>3. QED BY <2>1, <2>3, <4>1, <5>1, <5>2 DEF Settling
      <4>3. m + 1 < 1
        BY <2>1, <4>1, <4>2 DEF Turns, LateRead
      <4>4. QED BY <4>2, <4>3
    <3>3. QED BY <3>1, <3>2
  <2>4. reading' # 1 /\ read_pending' \in BOOLEAN
    <3>1. reading' # 1
      BY <2>1
    <3>2. read_pending' \in BOOLEAN
      BY <2>1
    <3>3. QED BY <3>1, <3>2
  <2>5. QED BY <2>1, <2>3, <2>4, ReadsTurn
<1>3. CASE ~Closes
  <2>1. /\ Queues(<<>>)
        /\ UNCHANGED <<connect_state, read_pending, socket, reading, check_timer_id,
                       started, caller>>
    BY <1>3 DEF RunWriteError, AbortedByClose, DoClose
  <2>2. Moved(1)
    BY <1>1, <2>1, WritesAdd
  <2>3. AtRest' => AtRest
    BY <1>1, <2>1, <2>2, StillAtRest
  <2>4. QED BY <1>1, <2>1, <2>3, WritingTurns
<1>4. QED BY <1>2, <1>3

\* stop_impl closes what is open, and leaves no start() in the queue.
LEMMA StopSettles ==
  ASSUME OneThread, TypeInv, TickInv, Turns, RunStop
  PROVE  /\ Settling(1) /\ ReadsMoved(1)
         /\ check_timer_id' = 0 /\ ~started /\ ~started' /\ DoClose
         /\ \A n \in 1..Len(ioq') : ioq'[n].op # "start"
         /\ \A n : Added(1, n) => ioq'[n].op \in {"timer_stop", "connect", "read_error"}
         /\ connect_state = "disconnected" =>
              \A n : Added(1, n) => ioq'[n].op = "timer_stop"
<1>1. PICK handlers \in Seq(Handlers) :
        /\ ioq # <<>> /\ Queues(handlers) /\ Aborts(handlers)
        /\ 1 \in 1..Len(handlers)
        /\ handlers[1] = [op |-> "timer_stop", timer |-> check_timer_id]
        /\ \A k \in 1..Len(handlers) : k # 1 => handlers[k].op \in CompletionOps
        /\ connect_state = "disconnected" => Len(handlers) = 1
  BY StopAdds
<1>2. /\ Moved(1) /\ 1 \in 1..Len(ioq) /\ Head(ioq) = ioq[1]
      /\ \A n : Added(1, n) => ioq'[n].op \notin {"timer", "start", "write_error"}
  BY <1>1, AbortsAdd
<1>3. check_timer_id' = 0 /\ started' = started /\ DoClose /\ ioq[1].op = "stop"
  BY <1>2 DEF RunStop, Runs
<1>4. ~started /\ \A n \in 1..Len(ioq) : ioq[n].op = "start" => n = 1
  BY <1>2, <1>3 DEF TickInv, CallsInTurn
<1>5. \A n \in 1..Len(ioq') : ioq'[n].op # "start"
  <2> SUFFICES ASSUME NEW n \in 1..Len(ioq'), ioq'[n].op = "start" PROVE FALSE
    OBVIOUS
  <2>1. n + 1 \in 1..Len(ioq) /\ ioq[n + 1].op = "start" /\ n + 1 > 1
    BY <1>2, MovedFrom
  <2>2. QED BY <1>4, <2>1
<1>6. \A n : Added(1, n) =>
        /\ n - (Len(ioq) - 1) \in 1..Len(handlers)
        /\ ioq'[n] = handlers[n - (Len(ioq) - 1)]
  BY <1>1, QueuesMoves
<1>7. \A n : Added(1, n) => ioq'[n].op \in {"timer_stop", "connect", "read_error"}
  BY <1>1, <1>2, <1>6 DEF CompletionOps
<1>8. connect_state = "disconnected" => \A n : Added(1, n) => ioq'[n].op = "timer_stop"
  <2>1. ASSUME connect_state = "disconnected" PROVE \A k \in 1..Len(handlers) : k = 1
    <3>1. Len(handlers) = 1
      BY <1>1, <2>1
    <3>2. QED BY <3>1
  <2>2. QED BY <1>1, <1>6, <2>1
<1>9. Settling(1) /\ ReadsMoved(1)
  <2>1. CASE Closes
    BY <1>1, <1>3, <2>1, ClosingSettles DEF DoClose
  <2>2. CASE ~Closes
    <3>1. UNCHANGED <<connect_state, socket, reading>>
      BY <1>3, <2>2 DEF DoClose
    <3>2. \A n : Added(1, n) => ioq'[n].op = "timer_stop"
      BY <1>8, <2>2 DEF Closes
    <3>3. Settling(1)
      BY <1>2, <3>1, <3>2, AddingSettles DEF Closer
    <3>4. QED BY <3>1, <3>2, <3>3 DEF ReadsMoved, Settling, ReadEnd
  <2>3. QED BY <2>1, <2>2
<1>10. QED BY <1>3, <1>4, <1>5, <1>7, <1>8, <1>9

LEMMA StopTurns ==
  ASSUME OneThread, TypeInv, TickInv, AttemptsInOrder, Turns, RunStop
  PROVE  AttemptsInOrder' /\ Turns'
<1>1. /\ Settling(1) /\ ReadsMoved(1)
      /\ check_timer_id' = 0 /\ ~started /\ ~started' /\ DoClose
      /\ \A n \in 1..Len(ioq') : ioq'[n].op # "start"
      /\ \A n : Added(1, n) => ioq'[n].op \in {"timer_stop", "connect", "read_error"}
  BY StopSettles
<1>2. \A n : ~Opener(n)'
  BY <1>1 DEF Opener
<1>3. OpenersMoved(1)
  BY <1>2 DEF OpenersMoved
<1>4. CASE Closes
  <2>1. /\ connect_state' = "disconnected" /\ socket' = "closed"
        /\ read_pending' = FALSE /\ reading' = 0
    BY <1>1, <1>4 DEF DoClose
  <2>2. AttemptsInOrder'
    BY <1>1, <1>2, <1>3, <2>1, SettlingInOrder
  <2>3. \A n : ClosedUntil(n)'
    BY <1>1, <2>1 DEF ClosedUntil
  <2>4. reading' # 1 /\ read_pending' \in BOOLEAN
    <3>1. reading' # 1
      BY <2>1
    <3>2. read_pending' \in BOOLEAN
      BY <2>1
    <3>3. QED BY <3>1, <3>2
  <2>5. QED BY <1>1, <2>2, <2>3, <2>4, ReadsTurn
<1>5. CASE ~Closes
  <2>1. /\ connect_state = "disconnected"
        /\ UNCHANGED <<connect_state, read_pending, socket, reading>>
    BY <1>1, <1>5 DEF DoClose, Closes
  <2>2. AttemptsInOrder'
    <3>1. OneAttempt' \/ socket' = "closed"
      BY <1>1, <2>1, SettlingAttempts DEF AttemptsInOrder
    <3>2. QED BY <1>1, <1>2, <1>3, <2>1, <3>1, SettlingInOrder
  <2>3. reading' = 1 => read_pending' /\ NoAttempt'
    BY <1>1, <2>1, SettlingAttempts DEF Turns
  <2>4. \A n : ClosedUntil(n + 1) /\ n \in Nat /\ n <= Len(ioq) - 1 => ClosedUntil(n)'
    BY <1>1, <2>1, StaysClosed DEF Settling
  <2>5. \A m, n : Attempt(m)' /\ ReadEnd(n)' /\ m < n => read_pending' \/ ClosedUntil(n)'
    BY <1>1, <2>1, <2>4, LateReadsWait
  <2>6. QED BY <1>1, <2>1, <2>2, <2>3, <2>5, ReadsTurn DEF Turns
<1>6. QED BY <1>4, <1>5

-----------------------------------------------------------------------------
(* An attempt begins.                                                      *)

LEMMA ConnectingAttempts ==
  ASSUME TypeInv, AttemptsInOrder, Turns, Opener(1), DoConnect,
         NEW handlers \in Seq(Handlers), ioq # <<>>, Queues(handlers), Aborts(handlers),
         connect_state # "connected" \/ NoAttempt
  PROVE  /\ Moved(1)
         /\ \A n : Attempt(n)' /\ n <= Len(ioq') => Attempt(Was(1, n))
         /\ \A m, n : Attempt(m)' /\ m <= Len(ioq') /\ Attempt(n)' /\ n <= Len(ioq') => m = n
         /\ \A m, n : Attempt(m)' /\ m <= Len(ioq') /\ Closer(n)' => ~Added(1, n) /\ ~(m < n)
<1>1. /\ Moved(1)
      /\ \A m, n : Added(1, m) /\ Added(1, n) =>
           /\ ioq'[m].op \notin {"read", "write_error", "timer", "start", "stop"}
           /\ ioq'[m].op = "connect" => socket = "opening"
           /\ ioq'[m].op = "read_error" => reading = 1
           /\ ioq'[m].op = "connect" /\ ioq'[n].op = "connect" => m = n
  BY AbortsAdd
<1>2. Len(ioq) \in Nat /\ Len(ioq') \in Nat /\ 1 <= Len(ioq)
  BY <1>1 DEF Moved
<1>3. ASSUME NEW n, Attempt(n)', n <= Len(ioq')
      PROVE  /\ n \in 1..Len(ioq') /\ ioq'[n].op = "connect" /\ Attempt(Was(1, n))
             /\ Was(1, n) > 1
             /\ ~Added(1, n) => n <= Len(ioq) - 1 /\ Was(1, n) = n + 1
             /\ Added(1, n) => Was(1, n) = Len(ioq) + 1
  <2>1. n \in 1..Len(ioq') /\ ioq'[n].op = "connect"
    BY <1>2, <1>3 DEF Attempt
  <2>2. CASE Added(1, n)
    <3>1. socket = "opening"
      BY <1>1, <2>1, <2>2
    <3>2. Was(1, n) = Len(ioq) + 1
      BY <1>2, <2>1, <2>2 DEF Was, Added
    <3>3. QED BY <1>2, <2>1, <2>2, <3>1, <3>2 DEF Attempt
  <2>3. CASE ~Added(1, n)
    <3>1. n + 1 \in 1..Len(ioq) /\ ioq[n + 1].op = "connect" /\ n <= Len(ioq) - 1
      BY <1>1, <1>2, <2>1, <2>3, MovedFrom DEF Added
    <3>2. Was(1, n) = n + 1
      BY <3>1 DEF Was
    <3>3. QED BY <2>1, <2>3, <3>1, <3>2 DEF Attempt
  <2>4. QED BY <2>2, <2>3
<1>4. ASSUME NEW m, NEW n, Attempt(m)', m <= Len(ioq'), Attempt(n)', n <= Len(ioq')
      PROVE  m = n
  <2>1. Was(1, m) = Was(1, n)
    <3>1. OneBehindOpener
      BY DEF AttemptsInOrder
    <3>2. /\ Attempt(Was(1, m)) /\ 1 < Was(1, m)
          /\ Attempt(Was(1, n)) /\ 1 < Was(1, n)
      BY <1>3, <1>4
    <3>3. QED BY <3>1, <3>2 DEF OneBehindOpener
  <2>2. CASE Added(1, m) /\ Added(1, n)
    BY <1>1, <1>3, <1>4, <2>2
  <2>3. CASE ~(Added(1, m) /\ Added(1, n))
    BY <1>2, <1>3, <1>4, <2>1, <2>3
  <2>4. QED BY <2>2, <2>3
<1>5. ASSUME NEW m, NEW n, Attempt(m)', m <= Len(ioq'), Closer(n)'
      PROVE  ~Added(1, n) /\ ~(m < n)
  <2>1. Attempt(Was(1, m)) /\ ~NoAttempt
    BY <1>3, <1>5 DEF NoAttempt
  <2>2. connect_state # "connected"
    BY <2>1
  <2>3. ~Added(1, n)
    <3>1. SUFFICES ASSUME Added(1, n) PROVE FALSE
      OBVIOUS
    <3>2. reading = 1
      BY <1>1, <1>5, <3>1 DEF Closer
    <3>3. QED BY <2>1, <2>2, <3>2 DEF Turns
  <2>4. Closer(n + 1) /\ n <= Len(ioq) - 1 /\ n \in 1..Len(ioq')
    BY <1>1, <1>5, <2>3, CloserWas DEF Closer
  <2>5. ASSUME m < n PROVE FALSE
    <3>1. m \in 1..Len(ioq') /\ Was(1, m) = m + 1
      BY <1>2, <1>3, <1>5, <2>4, <2>5 DEF Was
    <3>2. m + 1 < n + 1
      BY <2>4, <2>5, <3>1
    <3>3. ClosedFirst
      BY <2>2 DEF AttemptsInOrder
    <3>4. m + 1 < 1
      BY <2>1, <2>4, <3>1, <3>2, <3>3 DEF ClosedFirst
    <3>5. QED BY <3>1, <3>4
  <2>6. QED BY <2>3, <2>5
<1>6. QED BY <1>1, <1>3, <1>4, <1>5

LEMMA ConnectingInOrder ==
  ASSUME DoConnect, started', \A n : ~Opener(n)',
         Len(ioq') \in Nat,
         \A m, n : Attempt(m)' /\ m <= Len(ioq') /\ Attempt(n)' /\ n <= Len(ioq') => m = n,
         \A m, n : Attempt(m)' /\ m <= Len(ioq') /\ Closer(n)' => ~(m < n)
  PROVE  AttemptsInOrder'
<1>1. connect_state' = "connecting"
  BY DEF DoConnect
<1>2. \A n : Attempt(n)' => n \in Nat /\ n <= Len(ioq') + 1
  BY DEF Attempt
<1>3. TwoAttempts'
  <2> SUFFICES ASSUME NEW k, NEW m, NEW n, Attempt(k)', Attempt(m)', Attempt(n)',
                      k < m, m < n
               PROVE  FALSE
    BY DEF TwoAttempts
  <2>1. k <= Len(ioq') /\ m <= Len(ioq') /\ k # m
    BY <1>2
  <2>2. QED BY <2>1
<1>4. NoneBetween'
  <2> SUFFICES ASSUME NEW k, NEW m, NEW n, Attempt(k)', Closer(m)', Attempt(n)',
                      k < m, m < n
               PROVE  FALSE
    BY DEF NoneBetween
  <2>1. m \in 1..Len(ioq') /\ k \in Nat
    BY <1>2 DEF Closer
  <2>2. k <= Len(ioq')
    BY <2>1
  <2>3. QED BY <2>2
<1>5. OneBehindOpener' /\ ClosedFirst'
  BY DEF OneBehindOpener, ClosedFirst
<1>6. ~AtRest'
  BY DEF AtRest
<1>7. QED BY <1>1, <1>3, <1>4, <1>5, <1>6 DEF AttemptsInOrder

LEMMA ConnectingTurns ==
  ASSUME TypeInv, AttemptsInOrder, Turns, Opener(1), DoConnect,
         NEW handlers \in Seq(Handlers), ioq # <<>>, Queues(handlers), Aborts(handlers),
         connect_state # "connected" \/ NoAttempt,
         read_pending' = read_pending, started', \A n : ~Opener(n)'
  PROVE  AttemptsInOrder' /\ Turns'
<1>1. /\ Moved(1)
      /\ \A n : Attempt(n)' /\ n <= Len(ioq') => Attempt(Was(1, n))
      /\ \A m, n : Attempt(m)' /\ m <= Len(ioq') /\ Attempt(n)' /\ n <= Len(ioq') => m = n
      /\ \A m, n : Attempt(m)' /\ m <= Len(ioq') /\ Closer(n)' => ~Added(1, n) /\ ~(m < n)
  BY ConnectingAttempts
<1>2. AttemptsInOrder'
  BY <1>1, ConnectingInOrder DEF Moved
<1>3. reading' = 0
  BY DEF DoConnect
<1>4. ReadsMoved(1)
  <2>1. \A m, n : Added(1, m) /\ Added(1, n) =>
          /\ ioq'[m].op # "read"
          /\ ioq'[m].op = "read_error" => reading = 1
          /\ ioq'[m].op = "read_error" /\ ioq'[n].op = "read_error" => m = n
    BY AbortsAdd
  <2>2. \A n : ReadEnd(n)' => ioq'[n].op \in {"read", "read_error"}
    BY DEF ReadEnd
  <2>3. \A m, n : Added(1, m) /\ ReadEnd(m)' /\ Added(1, n) /\ ReadEnd(n)' =>
          m = n /\ reading = 1
    BY <2>1, <2>2
  <2>4. QED BY <1>1, <1>3, <2>3 DEF ReadsMoved
<1>5. \A n \in Nat : ~ClosedUntil(n + 1)
  <2> SUFFICES ASSUME NEW n \in Nat, ClosedUntil(n + 1) PROVE FALSE
    OBVIOUS
  <2>1. 1 \in 1..Len(ioq) /\ ioq[1].op = "start"
    BY DEF Opener, ClosedUntil
  <2>2. n + 1 < 1
    BY <2>1 DEF ClosedUntil
  <2>3. QED BY <2>2
<1>6. \A m, n : Attempt(m)' /\ ReadEnd(n)' /\ m < n => read_pending' \/ ClosedUntil(n)'
  BY <1>4, <1>5, LateReadsWait
<1>7. reading' # 1
  BY <1>3
<1>8. QED BY <1>2, <1>4, <1>6, <1>7, ReadsTurn DEF Turns

LEMMA ReconnectTurns ==
  ASSUME TypeInv, OneTimer, AttemptsInOrder, Turns, RunTimer,
         Head(ioq).timer \in DOMAIN timers, Reconnects
  PROVE  AttemptsInOrder' /\ Turns'
<1>1. /\ ioq # <<>> /\ Queues(Aborted) /\ DoConnect
      /\ started' = started /\ started /\ connect_state = "disconnected"
      /\ check_timer_id' = check_timer_id /\ read_pending' = read_pending
  BY DEF RunTimer, Runs, Reconnects
<1>2. Aborted \in Seq(Handlers) /\ Aborts(Aborted)
  BY AbortedIs, SeqWider, CompletionTypes DEF TypeInv
<1>3. /\ Moved(1) /\ 1 \in 1..Len(ioq) /\ Head(ioq) = ioq[1]
      /\ \A n : Added(1, n) => ioq'[n].op # "timer"
  BY <1>1, <1>2, AbortsAdd
<1>4. ioq[1].op = "timer" /\ ioq[1].timer = check_timer_id
  <2>1. Given(0, ioq[1].timer)
    BY <1>3 DEF Given
  <2>2. QED BY <1>1, <1>3, <2>1 DEF OneTimer, OthersStop, RunTimer, Runs
<1>5. Opener(1) /\ Tick(1)
  BY <1>1, <1>3, <1>4 DEF Opener, Tick
<1>6. ASSUME NEW n, Opener(n)' PROVE FALSE
  <2>1. n \in 1..Len(ioq') /\ ioq'[n].op = "timer" /\ ioq'[n].timer = check_timer_id
    BY <1>1, <1>6 DEF Opener
  <2>2. n + 1 \in 1..Len(ioq) /\ ioq'[n] = ioq[n + 1]
    BY <1>3, <2>1, MovedFrom
  <2>3. Tick(n + 1)
    BY <2>1, <2>2 DEF Tick
  <2>4. n + 1 = 1
    BY <1>5, <2>3 DEF OneTimer, OneTick
  <2>5. QED BY <2>1, <2>4
<1>7. QED BY <1>1, <1>2, <1>5, <1>6, ConnectingTurns

LEMMA StartTurns ==
  ASSUME OneThread, TypeInv, TickInv, OneTimer, AttemptsInOrder, Turns, RunStart, ~started
  PROVE  AttemptsInOrder' /\ Turns'
<1>1. PICK handlers \in Seq(Handlers) :
        ioq # <<>> /\ Queues(handlers) /\ Aborts(handlers)
  BY FreshAdds
<1>2. /\ Moved(1) /\ 1 \in 1..Len(ioq) /\ Head(ioq) = ioq[1]
      /\ \A n : Added(1, n) => ioq'[n].op # "timer"
  BY <1>1, AbortsAdd
<1>3. /\ DoConnect /\ started' /\ read_pending' = read_pending
      /\ check_timer_id' = cur_timer_id + 1 /\ ioq[1].op = "start"
  BY <1>2 DEF RunStart, Runs
<1>4. Opener(1)
  BY <1>2, <1>3 DEF Opener
<1>5. connect_state # "connected" \/ NoAttempt
  BY StartFindsNoTimer DEF AttemptsInOrder
<1>6. ASSUME NEW n, Opener(n)' PROVE FALSE
  <2>1. n \in 1..Len(ioq') /\ ioq'[n].op = "timer" /\ ioq'[n].timer = cur_timer_id + 1
    BY <1>3, <1>6 DEF Opener
  <2>2. n + 1 \in 1..Len(ioq) /\ ioq'[n] = ioq[n + 1]
    BY <1>2, <2>1, MovedFrom
  <2>3. ioq'[n].timer \in 1..cur_timer_id
    BY <2>1, <2>2 DEF OneTimer, ExpirationsKnown
  <2>4. QED BY <2>1, <2>3 DEF TypeInv, TimersOK
<1>7. QED BY <1>1, <1>3, <1>4, <1>5, <1>6, ConnectingTurns

-----------------------------------------------------------------------------
(* Every step keeps attempts in order and reads in turn.                   *)

LEMMA NextTurns ==
  ASSUME OneThread
  PROVE  TypeInv /\ TickInv /\ OneTimer /\ AttemptsInOrder /\ Turns /\ [Next]_vars
           => AttemptsInOrder' /\ Turns'
<1> SUFFICES ASSUME TypeInv, TickInv, OneTimer, AttemptsInOrder, Turns, [Next]_vars
             PROVE  AttemptsInOrder' /\ Turns'
  OBVIOUS
<1>1. CASE RunHandler
  <2>1. CASE RunStart
    BY <2>1, OthersTurn, StartTurns
  <2>2. CASE RunTimer
    BY <2>2, OthersTurn, ReconnectTurns
  <2>3. QED BY <1>1, <2>1, <2>2, OthersTurn, StopTurns, ConnectTurns, ReadsTurnOver,
            ReadErrorTurns, WriteErrorTurns DEF RunHandler
<1>2. CASE UNCHANGED vars
  <2>1. UNCHANGED <<ioq, caller, started, connect_state, read_pending,
                    check_timer_id, socket, reading>>
    BY <1>2 DEF vars, clientVars, netVars, queueVars
  <2>2. AtRest' => AtRest
    BY <2>1 DEF AtRest
  <2>3. QED BY <2>1, <2>2, KeepingTurns
<1>3. QED BY <1>1, <1>2, CallsTurn, SecondTurns, NetworkTurns DEF Next

LEMMA InitTurns == Init => OneTimer /\ AttemptsInOrder /\ Turns
<1> SUFFICES ASSUME Init PROVE OneTimer /\ AttemptsInOrder /\ Turns
  OBVIOUS
<1>1. /\ ioq = <<>> /\ Len(ioq) = 0 /\ DOMAIN timers = {} /\ check_timer_id = 0
      /\ reading = 0 /\ read_pending = FALSE /\ socket = "closed"
      /\ connect_state = "disconnected"
  BY DEF Init
<1>2. \A n : ~Tick(n)
  BY <1>1 DEF Tick
<1>3. \A n, t : ~Given(n, t)
  BY <1>1 DEF Given
<1>4. OneTimer
  BY <1>1, <1>2, <1>3 DEF OneTimer, OneTick, ExpirationsKnown, OthersStop
<1>5. \A n : ~Attempt(n) /\ ~Closer(n) /\ ~Opener(n) /\ ~ReadEnd(n)
  BY <1>1 DEF Attempt, Closer, Opener, ReadEnd
<1>6. AttemptsInOrder
  BY <1>1, <1>5 DEF AttemptsInOrder, TwoAttempts, NoneBetween, OneBehindOpener,
     ClosedFirst, OneAttempt, NoAttempt
<1>7. reading \in {0, 1} /\ reading # 1
  BY <1>1
<1>8. Turns
  BY <1>1, <1>5, <1>7 DEF Turns
<1>9. QED BY <1>4, <1>6, <1>8

LEMMA TurnsAreReads == TypeInv /\ Turns => ReadsInTurn
<1> SUFFICES ASSUME TypeInv, Turns PROVE ReadsInTurn
  OBVIOUS
<1>1. \A n \in Queued("read") : ReadEnd(n)
  BY DEF Queued, ReadEnd
<1>2. CASE Queued("read") = {}
  <2>1. Cardinality(Queued("read")) = 0
    BY <1>2, FS_EmptySet
  <2>2. QED BY <2>1 DEF ReadsInTurn, Turns
<1>3. ASSUME NEW n \in Queued("read") PROVE ReadsInTurn
  <2>1. Queued("read") = {n}
    BY <1>1, <1>3 DEF Turns
  <2>2. Cardinality(Queued("read")) = 1
    BY <2>1, FS_Singleton
  <2>3. reading = 0
    BY <1>1, <1>3 DEF Turns
  <2>4. QED BY <2>2, <2>3 DEF ReadsInTurn
<1>4. QED BY <1>2, <1>3

\* "all reads use the same buffer" (reliable_tcp_client.hpp:113): with one
\* calling thread a read is never begun while another is outstanding or its
\* bytes wait to be committed.  read_pending_ is cleared by do_close() with the
\* read still to complete; that a reconnect does not come in between rests on
\* the order of the handlers, which TwoAttempts .. Turns state: however long
\* the io thread lags, and however often start() and stop() are called.
THEOREM ClientReadsInTurn ==
  ASSUME OneThread PROVE Spec => []ReadsInTurn
<1>1. Init => TypeInv /\ TickInv /\ OneTimer /\ AttemptsInOrder /\ Turns
  BY InitTypes, InitTick, InitTurns
<1>2. TypeInv /\ [Next]_vars => TypeInv'
  BY NextTypes
<1>3. TypeInv /\ TickInv /\ [Next]_vars => TickInv'
  BY NextTick
<1>4. TypeInv /\ TickInv /\ OneTimer /\ [Next]_vars => OneTimer'
  BY NextTimer
<1>5. TypeInv /\ TickInv /\ OneTimer /\ AttemptsInOrder /\ Turns /\ [Next]_vars
        => AttemptsInOrder' /\ Turns'
  BY NextTurns
<1>6. TypeInv /\ Turns => ReadsInTurn
  BY TurnsAreReads
<1>7. QED BY <1>1, <1>2, <1>3, <1>4, <1>5, <1>6, PTL DEF Spec

-----------------------------------------------------------------------------
(* A client that stopped is quiet, if no handler waits for as long as the  *)
(* reconnect interval: by the time of the next attempt the queue was       *)
(* empty, and nothing is left of the last one.                             *)

\* The queue was not empty since the last attempt began.
Recent == last_connect <= lag

\* Of several connections one is left; and none after stop_impl has run.
OneConnection ==
    /\ OneAttempt
    /\ connect_state = "connected" => NoAttempt
    /\ reading > 0 => connect_state = "connected"
    /\ connect_state = "disconnected" => socket \in {"closed", "down"}
    /\ \A n : connect_state = "disconnected" /\ Attempt(n) =>
         socket = "closed" /\ (started => Recent)
    /\ \A n : connect_state = "connecting" /\ Closer(n) => Recent
    /\ \A n \in 1..Len(ioq) : ioq[n].op = "connect" /\ ~ioq[n].ok =>
         socket \in {"closed", "down"}
    /\ AtRest =>
         /\ connect_state = "disconnected"
         /\ \A m, n : Attempt(m) /\ n \in 1..Len(ioq) /\ ioq[n].op = "start" => m < n

\* Steps that leave the connection as it is.
LEMMA CalmConnection ==
  ASSUME NEW s, Settling(s), TypeInv, OneConnection,
         connect_state' = connect_state, started' => started, AtRest' => AtRest,
         socket \in {"closed", "down"} => socket' \in {"closed", "down"},
         socket = "closed" => socket' = "closed",
         reading' > 0 => reading > 0 \/ connect_state = "connected",
         ioq # <<>> /\ Recent => ioq' = <<>> \/ Recent',
         \A n : Added(s, n) /\ Closer(n)' => connect_state = "connected",
         \A n : Added(s, n) /\ ioq'[n].op = "connect" /\ ~ioq'[n].ok =>
           socket' \in {"closed", "down"}
  PROVE  OneConnection'
<1>0. Moved(s) /\ s \in {0, 1} /\ Len(ioq) \in Nat /\ Len(ioq') \in Nat
  BY DEF Settling, Moved
<1>1. OneAttempt' /\ (connect_state' = "connected" => NoAttempt')
  BY SettlingAttempts DEF OneConnection
<1>2. reading' > 0 => connect_state' = "connected"
  BY DEF OneConnection
<1>3. connect_state' = "disconnected" => socket' \in {"closed", "down"}
  BY DEF OneConnection
\* An attempt of a client that is disconnected is in the queue.
<1>4. ASSUME connect_state = "disconnected", NEW n, Attempt(n)'
      PROVE  /\ socket = "closed" /\ (started => Recent)
             /\ ioq # <<>> /\ ioq' # <<>>
             /\ n \in Nat /\ n <= Len(ioq) - s /\ Attempt(n + s)
  <2>1. Attempt(Was(s, n)) /\ n \in Nat \ {0}
    BY <1>0, <1>4, AttemptPlaces DEF Settling
  <2>2. socket = "closed" /\ (started => Recent)
    BY <1>4, <2>1 DEF OneConnection
  <2>3. Was(s, n) \in 1..Len(ioq)
    BY <2>1, <2>2 DEF Attempt
  <2>4. n <= Len(ioq) - s /\ Was(s, n) = n + s
    BY <1>0, <2>1, <2>3 DEF Was
  <2>5. ioq # <<>> /\ ioq' # <<>>
    <3>1. Len(ioq) # 0 /\ Len(ioq') # 0
      BY <1>0, <2>1, <2>4 DEF Moved
    <3>2. QED BY <3>1
  <2>6. QED BY <2>1, <2>2, <2>4, <2>5
<1>5. ASSUME connect_state' = "disconnected", NEW n, Attempt(n)'
      PROVE  socket' = "closed" /\ (started' => Recent')
  <2>1. socket = "closed" /\ (started => Recent) /\ ioq # <<>> /\ ioq' # <<>>
    BY <1>4, <1>5
  <2>2. QED BY <2>1
<1>6. ASSUME connect_state' = "connecting", NEW n, Closer(n)' PROVE Recent'
  <2>1. ~Added(s, n)
    BY <1>6
  <2>2. Closer(n + s)
    BY <1>0, <1>6, <2>1, CloserWas
  <2>3. Recent
    BY <1>6, <2>2 DEF OneConnection
  <2>4. ioq # <<>> /\ ioq' # <<>>
    <3>1. Len(ioq) # 0 /\ Len(ioq') # 0
      BY <1>0, <1>6, <2>2 DEF Closer
    <3>2. QED BY <3>1
  <2>5. QED BY <2>3, <2>4
<1>7. ASSUME NEW n \in 1..Len(ioq'), ioq'[n].op = "connect", ~ioq'[n].ok
      PROVE  socket' \in {"closed", "down"}
  <2>1. CASE Added(s, n)
    BY <1>7, <2>1
  <2>2. CASE ~Added(s, n)
    <3>1. n + s \in 1..Len(ioq) /\ ioq'[n] = ioq[n + s]
      BY <1>0, <2>2, MovedFrom
    <3>2. QED BY <1>7, <3>1 DEF OneConnection
  <2>3. QED BY <2>1, <2>2
<1>8. ASSUME AtRest'
      PROVE  /\ connect_state' = "disconnected"
             /\ \A m, n : Attempt(m)' /\ n \in 1..Len(ioq') /\ ioq'[n].op = "start"
                            => m < n
  <2>1. connect_state = "disconnected"
    BY <1>8 DEF OneConnection
  <2>2. ASSUME NEW m, NEW n, Attempt(m)', n \in 1..Len(ioq'), ioq'[n].op = "start"
        PROVE  m < n
    <3>1. m \in Nat /\ m <= Len(ioq) - s /\ Attempt(m + s)
      BY <1>4, <2>1, <2>2
    <3>2. CASE Added(s, n)
      BY <1>0, <2>2, <3>1, <3>2 DEF Added
    <3>3. CASE ~Added(s, n)
      <4>1. n + s \in 1..Len(ioq) /\ ioq[n + s].op = "start"
        BY <1>0, <2>2, <3>3, MovedFrom
      <4>2. m + s < n + s
        BY <1>8, <3>1, <4>1 DEF OneConnection
      <4>3. QED BY <1>0, <2>2, <3>1, <4>2
    <3>4. QED BY <3>2, <3>3
  <2>3. QED BY <2>1, <2>2
<1>9. QED BY <1>1, <1>2, <1>3, <1>5, <1>6, <1>7, <1>8 DEF OneConnection

\* What a handler does not wait for, as it runs.
LEMMA QueuesRecent ==
  ASSUME NEW handlers, Queues(handlers), last_connect' = last_connect, Recent
  PROVE  ioq' = <<>> \/ Recent'
  BY DEF Queues, Recent

LEMMA ArrivesConnection ==
  ASSUME TypeInv, Turns, OneConnection, NEW h, Arrives(h),
         UNCHANGED <<connect_state, last_connect, lag, started>>, AtRest' => AtRest
  PROVE  OneConnection'
<1>1. \A n : Added(0, n) => ioq'[n] = h
  BY PostingMoves DEF Arrives
<1>2. /\ Settling(0)
      /\ \A n : Added(0, n) /\ Closer(n)' => reading = 1
  BY ArrivesSettles
<1>3. \A n : Added(0, n) /\ Closer(n)' => connect_state = "connected"
  BY <1>2 DEF OneConnection
<1>4. \A n : Added(0, n) /\ ioq'[n].op = "connect" /\ ~ioq'[n].ok =>
        socket' \in {"closed", "down"}
  BY <1>1 DEF Arrives, NetOps
<1>5. reading' > 0 => reading > 0
  BY DEF Arrives, TypeInv, NetOK
<1>6. /\ socket \in {"closed", "down"} => socket' \in {"closed", "down"}
      /\ socket = "closed" => socket' = "closed"
  BY DEF Arrives
<1>7. Recent => Recent'
  BY DEF Recent
<1>8. QED BY <1>2, <1>3, <1>4, <1>5, <1>6, <1>7, CalmConnection

LEMMA KeepingConnection ==
  ASSUME TypeInv, OneConnection, ioq' = ioq,
         UNCHANGED <<connect_state, last_connect, lag, reading>>,
         socket' = socket \/ (socket = "up" /\ socket' = "down"),
         started' => started, AtRest' => AtRest
  PROVE  OneConnection'
<1>1. Moved(0) /\ \A n : ~Added(0, n)
  BY UnchangedMoves
<1>2. Settling(0)
  BY <1>1, AddingSettles
<1>3. Recent => Recent'
  BY DEF Recent
<1>4. QED BY <1>1, <1>2, <1>3, CalmConnection

\* A second counts for the handlers as it does for the reconnect interval.
LEMMA SecondConnection ==
  ASSUME TypeInv, OneConnection, Second, MaxLag < ReconnectInterval
  PROVE  OneConnection'
<1>1. Moved(0) /\ \A n : Added(0, n) => ioq'[n].op = "timer"
  BY SecondMoves
<1>2. UNCHANGED <<connect_state, started, socket, reading, caller>>
  BY DEF Second, netVars
<1>3. Settling(0)
  BY <1>1, <1>2, AddingSettles DEF Closer
<1>4. AtRest' => AtRest
  BY <1>1, <1>2, StillAtRest
<1>5. \A n : Added(0, n) => ~Closer(n)' /\ ioq'[n].op # "connect"
  BY <1>1 DEF Closer
<1>6. ASSUME ioq # <<>>, Recent PROVE Recent'
  <2>1. ~AnyLag
    BY ClientAssumption DEF AnyLag
  <2>2. lag' = lag + 1 /\ last_connect' = Capped(last_connect, ReconnectInterval)
    BY <1>6, <2>1 DEF Second
  <2>3. /\ lag \in Nat /\ last_connect \in Nat /\ ReconnectInterval \in Nat
        /\ last_connect <= ReconnectInterval
    BY ClientAssumption DEF TypeInv, QueueOK, FieldsOK
  <2>4. last_connect' <= last_connect + 1
    BY <2>2, <2>3 DEF Capped
  <2>5. QED BY <1>6, <2>2, <2>3, <2>4 DEF Recent, Capped
<1>7. QED BY <1>2, <1>3, <1>4, <1>5, <1>6, CalmConnection

LEMMA CallsConnection ==
  ASSUME OneThread, TypeInv, TickInv, Turns, OneConnection, CallAPI
  PROVE  OneConnection'
<1>1. /\ UNCHANGED <<connect_state, last_connect, lag, socket, reading>>
      /\ AtRest' => AtRest
      /\ \/ ioq' = ioq /\ started /\ ~started'
         \/ /\ started' = started
            /\ \E h : /\ Posting(h)
                      /\ h.op \in {"start", "stop", "send", "cancel",
                                   "subscribe", "unsubscribe"}
  BY CallShape
<1>2. ASSUME NEW h, Posting(h),
             h.op \in {"start", "stop", "send", "cancel", "subscribe", "unsubscribe"}
      PROVE  Arrives(h)
  BY <1>1, <1>2 DEF Arrives, NetOps
<1>3. QED BY <1>1, <1>2, KeepingConnection, ArrivesConnection

LEMMA NetworkConnection ==
  ASSUME TypeInv, Turns, OneConnection, Network
  PROVE  OneConnection'
<1>1. /\ UNCHANGED <<connect_state, last_connect, lag, started>>
      /\ \/ ioq' = ioq /\ reading' = reading /\ socket = "up" /\ socket' = "down"
         \/ \E h : Arrives(h)
      /\ AtRest' => AtRest
  BY NetworkShape
<1>2. QED BY <1>1, KeepingConnection, ArrivesConnection

\* Handlers that write at most, or read on.
LEMMA WritingConnection ==
  ASSUME TypeInv, OneConnection, ioq # <<>>, Queues(<<>>) \/ Queues(WriteErrors),
         UNCHANGED <<connect_state, last_connect, socket, started>>, AtRest' => AtRest,
         reading' > 0 => reading > 0 \/ connect_state = "connected"
  PROVE  OneConnection'
<1>1. Settling(1)
  BY WritesSettle
<1>2. \A n : Added(1, n) => ioq'[n].op = "write_error" /\ connect_state = "connected"
  BY WritesAdd
<1>3. Recent => ioq' = <<>> \/ Recent'
  BY QueuesRecent
<1>4. \A n : Added(1, n) => ioq'[n].op # "connect"
  BY <1>2
<1>5. QED BY <1>1, <1>2, <1>3, <1>4, CalmConnection

LEMMA OthersConnection ==
  ASSUME TypeInv, OneConnection,
         \/ RunSend \/ RunCancel \/ RunSubscription \/ RunTimerStart \/ RunTimerStop
         \/ RunTimer /\ ~(Head(ioq).timer \in DOMAIN timers /\ Reconnects)
         \/ RunStart /\ started
         \/ RunReadResponse \/ RunReadPush
         \/ (RunReadError \/ RunWriteError) /\ ~Closes
  PROVE  OneConnection'
<1>1. /\ ioq # <<>> /\ (Queues(<<>>) \/ Queues(WriteErrors))
      /\ UNCHANGED <<connect_state, last_connect, socket, started>>
  BY DEF RunSend, RunCancel, RunSubscription, RunTimerStart, RunTimerStop, RunTimer,
     RunStart, RunReadResponse, RunReadPush, RunReadError, RunWriteError,
     AbortedByClose, DoClose, Runs, clientVars, netVars
<1>2. reading' > 0 => reading > 0 \/ connect_state = "connected"
  BY DEF RunSend, RunCancel, RunSubscription, RunTimerStart, RunTimerStop, RunTimer,
     RunStart, RunReadResponse, RunReadPush, RunReadError, RunWriteError,
     DoReadPacket, DoClose, netVars
<1>3. Moved(1) /\ Head(ioq) = ioq[1]
  BY <1>1, WritesAdd
<1>4. AtRest' => AtRest
  <2>1. CASE RunStart
    BY <2>1 DEF RunStart, AtRest
  <2>2. CASE ~RunStart
    <3>1. caller' = caller /\ ioq[1].op # "stop"
      BY <1>3, <2>2 DEF RunSend, RunCancel, RunSubscription, RunTimerStart,
         RunTimerStop, RunTimer, RunReadResponse, RunReadPush, RunReadError,
         RunWriteError, Runs
    <3>2. QED BY <1>1, <1>3, <3>1, StillAtRest
  <2>3. QED BY <2>1, <2>2
<1>5. QED BY <1>1, <1>2, <1>4, WritingConnection

LEMMA ConnectConnection ==
  ASSUME TypeInv, OneConnection, RunConnect
  PROVE  OneConnection'
<1>1. /\ ioq # <<>> /\ Queues(<<>>) /\ Runs("connect")
      /\ UNCHANGED <<socket, started, caller>>
  BY DEF RunConnect, Runs
<1>2. Settling(1)
  BY <1>1, WritesSettle
<1>3. Moved(1) /\ 1 \in 1..Len(ioq) /\ Head(ioq) = ioq[1] /\ ioq[1].op = "connect"
  BY <1>1, WritesAdd DEF Runs
<1>4. Attempt(1) /\ Len(ioq) \in Nat
  BY <1>3 DEF Attempt, Moved
<1>5. connect_state # "connected" /\ reading = 0
  <2>1. connect_state # "connected"
    BY <1>4 DEF OneConnection, NoAttempt
  <2>2. reading \in Nat /\ ~(reading > 0)
    BY <2>1 DEF OneConnection, TypeInv, NetOK
  <2>3. QED BY <2>1, <2>2
<1>6. \A n : ~Attempt(n)'
  <2> SUFFICES ASSUME NEW n, Attempt(n)' PROVE FALSE
    OBVIOUS
  <2>1. n \in Nat \ {0} /\ Attempt(Was(1, n))
    BY <1>2, <1>3, AttemptPlaces DEF Settling
  <2>2. Was(1, n) = 1
    BY <1>4, <2>1 DEF OneConnection, OneAttempt
  <2>3. QED BY <1>3, <1>4, <2>1, <2>2 DEF Was
<1>7. OneAttempt' /\ NoAttempt'
  BY <1>6 DEF OneAttempt, NoAttempt
<1>8. \A n \in 1..Len(ioq') : ioq'[n].op # "connect"
  BY <1>6 DEF Attempt
<1>9. AtRest' => AtRest
  BY <1>1, <1>3, StillAtRest
<1>10. AtRest => socket = "closed"
  BY <1>4 DEF OneConnection
<1>11. CASE Head(ioq).ok /\ socket # "closed"
  <2>1. connect_state' = "connected"
    BY <1>11 DEF RunConnect
  <2>2. ~AtRest'
    BY <1>9, <1>10, <1>11
  <2>3. QED BY <1>7, <1>8, <2>1, <2>2 DEF OneConnection
<1>12. CASE ~(Head(ioq).ok /\ socket # "closed")
  <2>1. connect_state' = "disconnected" /\ reading' = 0
    BY <1>5, <1>12 DEF RunConnect, AfterFailedConnect
  <2>2. socket' \in {"closed", "down"}
    BY <1>1, <1>3, <1>12 DEF OneConnection
  <2>3. ~(reading' > 0)
    BY <2>1
  <2>4. QED BY <1>6, <1>7, <1>8, <2>1, <2>2, <2>3 DEF OneConnection
<1>13. QED BY <1>11, <1>12

\* Closed, the client has an attempt to wait for only if it was connecting.
LEMMA ClosingConnection ==
  ASSUME OneConnection, Settling(1), connect_state' = "disconnected",
         socket' = "closed", reading' = 0,
         \A n : Attempt(n)' => (started' => Recent'),
         AtRest' => \A n \in 1..Len(ioq') : ioq'[n].op # "start"
  PROVE  OneConnection'
<1>1. OneAttempt'
  BY SettlingAttempts DEF OneConnection
<1>2. ~(reading' > 0)
  OBVIOUS
<1>3. QED BY <1>1, <1>2 DEF OneConnection

LEMMA ErrorConnection ==
  ASSUME TypeInv, AttemptsInOrder, Turns, OneConnection, RunReadError \/ RunWriteError,
         Closes
  PROVE  OneConnection'
<1>1. /\ ioq # <<>> /\ Queues(AbortedByClose) /\ DoClose
      /\ UNCHANGED <<started, caller, last_connect>>
  BY DEF RunReadError, RunWriteError, Runs
<1>2. connect_state' = "disconnected" /\ socket' = "closed" /\ reading' = 0
  BY <1>1 DEF DoClose
<1>3. Settling(1) /\ Closer(1) /\ Head(ioq) = ioq[1]
  BY ErrorCloses
<1>4. ioq[1].op # "stop" /\ Moved(1)
  BY <1>3 DEF RunReadError, RunWriteError, Runs, Settling
<1>5. AtRest' => AtRest
  BY <1>1, <1>4, StillAtRest
<1>6. ~AtRest'
  BY <1>5 DEF OneConnection, Closes
<1>7. ASSUME NEW n, Attempt(n)' PROVE Recent'
  <2>1. ioq' # <<>>
    <3>1. n \in 1..Len(ioq')
      BY <1>2, <1>7 DEF Attempt
    <3>2. QED BY <3>1
  <2>2. connect_state # "connected"
    BY <1>3, <1>7, SettlingAttempts DEF OneConnection, NoAttempt
  <2>3. connect_state = "connecting"
    BY <2>2 DEF Closes, TypeInv, FieldsOK
  <2>4. Recent
    BY <1>3, <2>3 DEF OneConnection
  <2>5. QED BY <1>1, <2>1, <2>4, QueuesRecent
<1>8. QED BY <1>2, <1>3, <1>6, <1>7, ClosingConnection

LEMMA StopConnection ==
  ASSUME OneThread, TypeInv, TickInv, Turns, OneConnection, RunStop
  PROVE  OneConnection'
<1>1. /\ Settling(1) /\ ~started' /\ DoClose
      /\ \A n \in 1..Len(ioq') : ioq'[n].op # "start"
      /\ connect_state = "disconnected" =>
           \A n : Added(1, n) => ioq'[n].op = "timer_stop"
  BY StopSettles
<1>2. CASE Closes
  <2>1. connect_state' = "disconnected" /\ socket' = "closed" /\ reading' = 0
    BY <1>1, <1>2 DEF DoClose
  <2>2. QED BY <1>1, <2>1, ClosingConnection
<1>3. CASE ~Closes
  <2>1. /\ connect_state = "disconnected" /\ connect_state' = "disconnected"
        /\ UNCHANGED <<socket, reading>>
    BY <1>1, <1>3 DEF DoClose, Closes
  <2>2. Moved(1) /\ OneAttempt'
    BY <1>1, SettlingAttempts DEF OneConnection, Settling
  <2>3. \A n : Attempt(n)' => socket' = "closed"
    BY <1>1, <2>1 DEF Settling, OneConnection
  <2>4. socket' \in {"closed", "down"} /\ ~(reading' > 0)
    BY <2>1 DEF OneConnection
  <2>5. QED BY <1>1, <2>1, <2>2, <2>3, <2>4 DEF OneConnection
<1>4. QED BY <1>2, <1>3

\* An attempt begins when none is left.
LEMMA BeginsConnection ==
  ASSUME TypeInv, Turns, NEW handlers \in Seq(Handlers), ioq # <<>>, Queues(handlers),
         Aborts(handlers), NoAttempt, DoConnect, started'
  PROVE  OneConnection'
<1>1. /\ Moved(1)
      /\ \A n : Added(1, n) /\ ioq'[n].op = "connect" => socket = "opening"
  BY AbortsAdd
<1>2. connect_state' = "connecting" /\ last_connect' = 0 /\ reading' = 0
  BY DEF DoConnect
<1>3. Len(ioq) + 1 \notin 1..Len(ioq) => socket # "opening"
  BY DEF NoAttempt, Attempt
<1>4. \A n \in 1..Len(ioq') : ioq'[n].op # "connect"
  <2> SUFFICES ASSUME NEW n \in 1..Len(ioq'), ioq'[n].op = "connect" PROVE FALSE
    OBVIOUS
  <2>1. Added(1, n)
    <3>1. SUFFICES ASSUME ~Added(1, n) PROVE FALSE
      OBVIOUS
    <3>2. n + 1 \in 1..Len(ioq) /\ ioq[n + 1].op = "connect"
      BY <1>1, <3>1, MovedFrom
    <3>3. QED BY <3>2 DEF NoAttempt, Attempt
  <2>2. QED BY <1>1, <1>3, <2>1 DEF Moved
<1>5. OneAttempt'
  BY <1>4 DEF OneAttempt, Attempt
<1>6. Recent'
  <2>1. lag' \in Nat
    BY DEF Queues, TypeInv, QueueOK
  <2>2. QED BY <1>2, <2>1 DEF Recent
<1>7. ~AtRest' /\ ~(reading' > 0)
  BY <1>2 DEF AtRest
<1>8. QED BY <1>2, <1>4, <1>5, <1>6, <1>7 DEF OneConnection

LEMMA ReconnectConnection ==
  ASSUME TypeInv, Turns, OneConnection, RunTimer, MaxLag < ReconnectInterval,
         Head(ioq).timer \in DOMAIN timers, Reconnects
  PROVE  OneConnection'
<1>1. /\ ioq # <<>> /\ Queues(Aborted) /\ DoConnect /\ started' = started
  BY DEF RunTimer, Runs
<1>2. Aborted \in Seq(Handlers) /\ Aborts(Aborted)
  BY AbortedIs, SeqWider, CompletionTypes DEF TypeInv
<1>3. started /\ connect_state = "disconnected" /\ last_connect >= ReconnectInterval
  BY DEF Reconnects
<1>4. ~Recent
  BY <1>3, ClientAssumption DEF Recent, TypeInv, QueueOK, FieldsOK
<1>5. NoAttempt
  BY <1>3, <1>4 DEF OneConnection, NoAttempt
<1>6. QED BY <1>1, <1>2, <1>3, <1>5, BeginsConnection

LEMMA StartConnection ==
  ASSUME OneThread, TypeInv, TickInv, OneTimer, Turns, OneConnection, RunStart, ~started
  PROVE  OneConnection'
<1>1. PICK handlers \in Seq(Handlers) :
        ioq # <<>> /\ Queues(handlers) /\ Aborts(handlers)
  BY FreshAdds
<1>2. DoConnect /\ started'
  BY DEF RunStart
<1>3. 1 \in 1..Len(ioq) /\ ioq[1].op = "start"
  BY NextHandler DEF RunStart, TypeInv
<1>4. NoAttempt
  <2> SUFFICES ASSUME NEW n, Attempt(n) PROVE FALSE
    BY DEF NoAttempt
  <2>1. AtRest
    BY StartFindsNoTimer
  <2>2. n < 1
    BY <1>3, <2>1 DEF OneConnection
  <2>3. n \in Nat \ {0}
    BY DEF Attempt, TypeInv, QueueOK
  <2>4. QED BY <2>2, <2>3
<1>5. QED BY <1>1, <1>2, <1>4, BeginsConnection

LEMMA NextConnection ==
  ASSUME OneThread, MaxLag < ReconnectInterval
  PROVE  TypeInv /\ TickInv /\ OneTimer /\ AttemptsInOrder /\ Turns /\ OneConnection
         /\ [Next]_vars => OneConnection'
<1> SUFFICES ASSUME TypeInv, TickInv, OneTimer, AttemptsInOrder, Turns, OneConnection,
                    [Next]_vars
             PROVE  OneConnection'
  OBVIOUS
<1>1. CASE RunHandler
  <2>1. CASE RunStart
    BY <2>1, OthersConnection, StartConnection
  <2>2. CASE RunTimer
    BY <2>2, OthersConnection, ReconnectConnection
  <2>3. CASE RunReadError \/ RunWriteError
    BY <2>3, OthersConnection, ErrorConnection
  <2>4. QED BY <1>1, <2>1, <2>2, <2>3, OthersConnection, StopConnection,
            ConnectConnection DEF RunHandler
<1>2. CASE UNCHANGED vars
  <2>1. UNCHANGED <<ioq, lag, caller, started, connect_state, last_connect,
                    socket, reading>>
    BY <1>2 DEF vars, clientVars, netVars, queueVars
  <2>2. AtRest' => AtRest
    BY <2>1 DEF AtRest
  <2>3. QED BY <2>1, <2>2, KeepingConnection
<1>3. QED BY <1>1, <1>2, CallsConnection, SecondConnection, NetworkConnection DEF Next

LEMMA InitConnection == Init => OneConnection
<1> SUFFICES ASSUME Init PROVE OneConnection
  OBVIOUS
<1>1. /\ ioq = <<>> /\ Len(ioq) = 0 /\ reading = 0 /\ socket = "closed"
      /\ connect_state = "disconnected"
  BY DEF Init
<1>2. \A n : ~Attempt(n) /\ ~Closer(n)
  BY <1>1 DEF Attempt, Closer
<1>3. ~(reading > 0)
  BY <1>1
<1>4. QED BY <1>1, <1>2, <1>3 DEF OneConnection, OneAttempt

LEMMA RestIsQuiet == TypeInv /\ TickInv /\ OneTimer /\ OneConnection => StoppedIsQuiet
<1> SUFFICES ASSUME TypeInv, TickInv, OneTimer, OneConnection, Idle, ~started
             PROVE  /\ connect_state = "disconnected"
                    /\ socket \in {"closed", "down"}
                    /\ \A t \in DOMAIN timers :
                         \E n \in Queued("timer_stop") : ioq[n].timer = t
  BY DEF StoppedIsQuiet
<1>1. AtRest
  <2>1. ASSUME NEW n \in 1..Len(ioq) PROVE ioq[n].op # "stop"
    <3>1. SUFFICES ASSUME ioq[n].op = "stop" PROVE FALSE
      OBVIOUS
    <3>2. ioq[n].thread \in Threads
      BY <3>1, HandlerParts DEF TypeInv, QueueOK
    <3>3. caller[ioq[n].thread] = "waiting"
      BY <3>1 DEF TickInv, CallsInTurn
    <3>4. QED BY <3>2, <3>3 DEF Idle
  <2>2. QED BY <2>1 DEF AtRest, Idle
<1>2. connect_state = "disconnected" /\ socket \in {"closed", "down"}
  BY <1>1 DEF OneConnection
<1>3. ASSUME NEW t \in DOMAIN timers
      PROVE  \E n \in Queued("timer_stop") : ioq[n].timer = t
  <2>1. t # check_timer_id
    BY <1>1, <1>3 DEF OneTimer, TypeInv, TimersOK
  <2>2. Given(0, t)
    BY <1>3 DEF Given
  <2>3. PICK m : Stopping(m, t)
    BY <2>1, <2>2 DEF OneTimer, OthersStop
  <2>4. QED BY <2>3 DEF Stopping, Queued
<1>4. QED BY <1>2, <1>3

(* Once stop() has returned, the client is not connected, no attempt is    *)
(* under way, and every timer is about to be stopped, if one thread makes  *)
(* the calls and the io thread lags for less than the reconnect interval.  *)
(* With a longer lag a client may reconnect while an attempt that it gave  *)
(* up is still to complete, and its failure hides the second from stop().  *)
THEOREM ClientStopsQuietly ==
  ASSUME OneThread, MaxLag < ReconnectInterval PROVE Spec => []StoppedIsQuiet
<1>1. Init => TypeInv /\ TickInv /\ OneTimer /\ AttemptsInOrder /\ Turns /\ OneConnection
  BY InitTypes, InitTick, InitTurns, InitConnection
<1>2. TypeInv /\ [Next]_vars => TypeInv'
  BY NextTypes
<1>3. TypeInv /\ TickInv /\ [Next]_vars => TickInv'
  BY NextTick
<1>4. TypeInv /\ TickInv /\ OneTimer /\ [Next]_vars => OneTimer'
  BY NextTimer
<1>5. TypeInv /\ TickInv /\ OneTimer /\ AttemptsInOrder /\ Turns /\ [Next]_vars
        => AttemptsInOrder' /\ Turns'
  BY NextTurns
<1>6. TypeInv /\ TickInv /\ OneTimer /\ AttemptsInOrder /\ Turns /\ OneConnection
        /\ [Next]_vars => OneConnection'
  BY NextConnection
<1>7. TypeInv /\ TickInv /\ OneTimer /\ OneConnection => StoppedIsQuiet
  BY RestIsQuiet
<1>8. QED BY <1>1, <1>2, <1>3, <1>4, <1>5, <1>6, <1>7, PTL DEF Spec
=============================================================================
