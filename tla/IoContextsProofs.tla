-------------------------- MODULE IoContextsProofs --------------------------
(***************************************************************************)
(* Proofs about IoContexts.tla, for every number of timers, every length   *)
(* of the queues and every interval.                                       *)
(***************************************************************************)
EXTENDS IoContexts, OrderedIdsProofs, TLAPS

(* Who may call what.  The worker answers itself and sets the values that  *)
(* main and the test thread wait for; the test thread runs the tasks of    *)
(* the timers, which call the worker.                                      *)
TimerTasks == {Requesting, Publishing, <<>>}

WorkerCalls ==
    [op : {"sync"}, context : {worker}, task : {<<>>}]
      \union [op : {"set_value"}, thread : {main, test}]
TestCalls ==
    [op : {"sync"}, context : {worker}, task : {<<>>}]
      \union [op : {"async"}, context : {worker}, task : {Responding}]
      \union [op : {"reschedule"}, timer : Nat]

WorkerHandlers == [op : {"task"}, calls : Seq(WorkerCalls)]
TestHandlers ==
    [op : {"timer_start"}, timer : Nat, task : TimerTasks, interval : Nat]
      \union [op : {"timer_stop", "expired"}, timer : Nat]

Entries == [task : TimerTasks, interval : Nat, left : Nat, armed : BOOLEAN]

\* The calls from the k-th on.
From(list, k) == SubSeq(list, k, Len(list))

Unstopped == ~stopped[worker] /\ ~stopped[test]

\* What main still has to call, and what that says of the others.
SettingUp(k) ==
    /\ calls[main] = From(Setup, k)
    /\ Unstopped
    /\ cur_timer_id = IF k <= 5 THEN 0 ELSE 1

UsingTimer ==
    /\ Unstopped
    /\ \/ calls[main] = <<>>
       \/ cur_timer_id < MaxTimers
            /\ \E interval \in Nat : calls[main] = <<StartTimer(<<>>, interval)>>
       \/ \E i \in 1..cur_timer_id : calls[main] = <<StopTimer(i)>>

ShuttingDown(k) ==
    /\ calls[main] = From(Shutdown, k)
    /\ stopped[test] <=> k > 1
    /\ k > 2 => ended[test]
    /\ stopped[worker] <=> k > 3
    /\ k > 4 => ended[worker]

MainOK ==
    \/ \E k \in 1..6 : SettingUp(k)
    \/ UsingTimer
    \/ \E k \in 1..5 : ShuttingDown(k)

ThreadsOK ==
    /\ DOMAIN calls = Threads
    /\ stopped \in [Contexts -> BOOLEAN]
    /\ waiting \in [Threads -> BOOLEAN]
    /\ ended \in [Contexts -> BOOLEAN]
    /\ calls[worker] \in Seq(WorkerCalls) /\ ~waiting[worker]
    /\ calls[test] \in Seq(TestCalls)
    /\ \A c \in Contexts : ended[c] => stopped[c] /\ Len(calls[c]) = 0 /\ ~waiting[c]

QueuesOK ==
    /\ DOMAIN queue = Contexts
    /\ queue[worker] \in Seq(WorkerHandlers)
    /\ queue[test] \in Seq(TestHandlers)
    /\ \A n \in 1..Len(queue[test]) : queue[test][n].timer \in 1..cur_timer_id

TimersOK ==
    /\ cur_timer_id \in 0..MaxTimers
    /\ DOMAIN timers \subseteq 1..cur_timer_id
    /\ \A i \in DOMAIN timers : timers[i] \in Entries /\ timers[i].left <= timers[i].interval
    /\ fired \subseteq 1..cur_timer_id
    /\ silenced \subseteq 1..cur_timer_id

TypeInv == MainOK /\ ThreadsOK /\ QueuesOK /\ TimersOK

-----------------------------------------------------------------------------
(* Lists of calls.                                                         *)

LEMMA Names ==
  /\ main # worker /\ worker # test /\ test # main
  /\ Threads = {main, worker, test} /\ Contexts = {worker, test}
  /\ MaxTimers \in Nat \ {0, 1}
  BY ContextsAssumption DEF Threads, Contexts

MainCalls ==
    [op : {"sync", "async"}, context : {worker}, task : {<<>>}]
      \union [op : {"start_timer"}, task : TimerTasks, interval : Nat]
      \union [op : {"stop_timer"}, timer : Nat]
      \union [op : {"stop", "join"}, context : {worker, test}]

AllCalls == WorkerCalls \union TestCalls \union MainCalls

LEMMA FromParts ==
  ASSUME NEW S, NEW list \in Seq(S), NEW k \in 1..Len(list)
  PROVE  /\ From(list, k) # <<>> /\ From(list, k) \in Seq(S)
         /\ Head(From(list, k)) = list[k] /\ Tail(From(list, k)) = From(list, k + 1)
<1> DEFINE l == Len(list)
           f == From(list, k)
<1>1. l \in Nat /\ list \in [1..l -> S] /\ k \in 1..l
  OBVIOUS
<1>2. f = [n \in 1..(l - k + 1) |-> list[k + n - 1]]
  BY <1>1 DEF From
<1>3. f \in Seq(S) /\ Len(f) = l - k + 1
  <2>1. l - k + 1 \in Nat
    BY <1>1
  <2>2. f \in [1..(l - k + 1) -> S]
    BY <1>1, <1>2
  <2>3. QED BY <2>1, <2>2
<1>4. f # <<>> /\ f[1] = list[k]
  <2>1. l - k + 1 \in Nat \ {0} /\ 1 \in 1..(l - k + 1) /\ k + 1 - 1 = k
    BY <1>1
  <2>2. f[1] = list[k]
    BY <1>2, <2>1
  <2>3. Len(f) # 0
    BY <1>3, <2>1
  <2>4. QED BY <2>2, <2>3
<1>5. Tail(f) = From(list, k + 1)
  <2>1. Tail(f) \in Seq(S) /\ Len(Tail(f)) = l - k
    BY <1>1, <1>3, <1>4
  <2>2. Tail(f) = [n \in 1..(l - k) |-> Tail(f)[n]]
    <3>1. \A q \in Seq(S) : q = [n \in 1..Len(q) |-> q[n]]
      OBVIOUS
    <3>2. QED BY <2>1, <3>1
  <2>3. \A n \in 1..(l - k) : Tail(f)[n] = f[n + 1]
    BY <1>1, <1>3, <1>4
  <2>4. \A n \in 1..(l - k) : f[n + 1] = list[k + n]
    BY <1>1, <1>2
  <2>5. From(list, k + 1) = [n \in 1..(l - (k + 1) + 1) |-> list[(k + 1) + n - 1]]
    BY <1>1 DEF From
  <2>6. l - (k + 1) + 1 = l - k /\ \A n \in 1..(l - k) : (k + 1) + n - 1 = k + n
    BY <1>1
  <2>7. QED BY <2>2, <2>3, <2>4, <2>5, <2>6
<1>6. Head(f) = list[k]
  BY <1>3, <1>4
<1>7. QED BY <1>3, <1>4, <1>5, <1>6

LEMMA FromEnd ==
  ASSUME NEW S, NEW list \in Seq(S), NEW k, k = Len(list) + 1
  PROVE  From(list, k) = <<>> /\ From(list, 1) = list
<1>1. Len(list) \in Nat
  OBVIOUS
<1>2. From(list, k) = <<>>
  BY <1>1 DEF From
<1>3. From(list, 1) = [n \in 1..(Len(list) - 1 + 1) |-> list[1 + n - 1]]
  BY <1>1 DEF From
<1>4. list = [n \in 1..Len(list) |-> list[n]]
  OBVIOUS
<1>5. Len(list) - 1 + 1 = Len(list) /\ \A n \in 1..Len(list) : 1 + n - 1 = n
  BY <1>1
<1>6. QED BY <1>2, <1>3, <1>4, <1>5

LEMMA SetupParts ==
  /\ Setup \in Seq(MainCalls) /\ Len(Setup) = 6
  /\ \A k \in 1..3 : Setup[k] = Sync(worker, <<>>)
  /\ Setup[4] = Async(worker, <<>>)
  /\ Setup[5] = StartTimer(Requesting, 1) /\ Setup[6] = StartTimer(Publishing, 1)
<1>1. /\ Sync(worker, <<>>) \in MainCalls /\ Async(worker, <<>>) \in MainCalls
      /\ StartTimer(Requesting, 1) \in MainCalls
      /\ StartTimer(Publishing, 1) \in MainCalls
  BY DEF MainCalls, TimerTasks, Sync, Async, StartTimer
<1>2. QED BY <1>1 DEF Setup

LEMMA ShutdownParts ==
  /\ Shutdown \in Seq(MainCalls) /\ Len(Shutdown) = 4
  /\ Shutdown[1] = Stop(test) /\ Shutdown[2] = Join(test)
  /\ Shutdown[3] = Stop(worker) /\ Shutdown[4] = Join(worker)
<1>1. /\ Stop(test) \in MainCalls /\ Join(test) \in MainCalls
      /\ Stop(worker) \in MainCalls /\ Join(worker) \in MainCalls
  BY DEF MainCalls, Stop, Join
<1>2. QED BY <1>1 DEF Shutdown

\* What main has left to call.
LEMMA MainHas ==
  ASSUME MainOK
  PROVE  calls[main] \in Seq(MainCalls)
<1>1. ASSUME NEW k \in 1..6, SettingUp(k) PROVE calls[main] \in Seq(MainCalls)
  <2>1. k \in 1..Len(Setup) /\ Setup \in Seq(MainCalls)
    BY SetupParts
  <2>2. QED BY <1>1, <2>1, FromParts DEF SettingUp
<1>2. CASE UsingTimer
  <2>1. <<>> \in Seq(MainCalls)
    OBVIOUS
  <2>2. ASSUME NEW interval \in Nat
        PROVE  <<StartTimer(<<>>, interval)>> \in Seq(MainCalls)
    <3>1. StartTimer(<<>>, interval) \in MainCalls
      BY DEF MainCalls, StartTimer, TimerTasks
    <3>2. QED BY <3>1
  <2>3. ASSUME NEW i \in 1..cur_timer_id PROVE <<StopTimer(i)>> \in Seq(MainCalls)
    <3>1. StopTimer(i) \in MainCalls
      BY DEF MainCalls, StopTimer
    <3>2. QED BY <3>1
  <2>4. QED BY <1>2, <2>1, <2>2, <2>3 DEF UsingTimer
<1>3. ASSUME NEW k \in 1..5, ShuttingDown(k) PROVE calls[main] \in Seq(MainCalls)
  <2>1. CASE k = 5
    <3>1. From(Shutdown, 5) = <<>>
      <4>1. Shutdown \in Seq(MainCalls) /\ 5 = Len(Shutdown) + 1
        BY ShutdownParts
      <4>2. QED BY <4>1, FromEnd
    <3>2. <<>> \in Seq(MainCalls)
      OBVIOUS
    <3>3. QED BY <1>3, <2>1, <3>1, <3>2 DEF ShuttingDown
  <2>2. CASE k \in 1..4
    <3>1. k \in 1..Len(Shutdown) /\ Shutdown \in Seq(MainCalls)
      BY <2>2, ShutdownParts
    <3>2. QED BY <1>3, <3>1, FromParts DEF ShuttingDown
  <2>3. QED BY <2>1, <2>2
<1>4. QED BY <1>1, <1>2, <1>3 DEF MainOK

\* A thread's next call, and what it has left after it.
LEMMA NextCall ==
  ASSUME TypeInv, NEW t \in Threads, NEW op, Calls(t, op)
  PROVE  /\ ~waiting[t] /\ calls[t] # <<>> /\ Call(t).op = op
         /\ Call(t) = calls[t][1]
         /\ Len(calls[t]) \in Nat \ {0}
         /\ Call(t) \in AllCalls /\ Tail(calls[t]) \in Seq(AllCalls)
         /\ t = worker => Call(t) \in WorkerCalls /\ Tail(calls[t]) \in Seq(WorkerCalls)
         /\ t = test => Call(t) \in TestCalls /\ Tail(calls[t]) \in Seq(TestCalls)
         /\ t = main => Call(t) \in MainCalls
<1>1. calls[t] # <<>> /\ ~waiting[t] /\ Call(t).op = op
  BY DEF Calls, Call
<1>2. ASSUME NEW S, calls[t] \in Seq(S)
      PROVE  /\ Call(t) \in S /\ Tail(calls[t]) \in Seq(S)
             /\ Call(t) = calls[t][1] /\ Len(calls[t]) \in Nat \ {0}
  BY <1>1, <1>2 DEF Call
<1>3. t = worker => calls[t] \in Seq(WorkerCalls)
  BY DEF TypeInv, ThreadsOK
<1>4. t = test => calls[t] \in Seq(TestCalls)
  BY DEF TypeInv, ThreadsOK
<1>5. t = main => calls[t] \in Seq(MainCalls)
  BY MainHas DEF TypeInv
<1>6. calls[t] \in Seq(AllCalls)
  <2>1. CASE t = worker
    BY <1>3, <2>1, SeqWider DEF AllCalls
  <2>2. CASE t = test
    BY <1>4, <2>2, SeqWider DEF AllCalls
  <2>3. CASE t = main
    BY <1>5, <2>3, SeqWider DEF AllCalls
  <2>4. QED BY <2>1, <2>2, <2>3, Names
<1>7. QED BY <1>1, <1>2, <1>3, <1>4, <1>5, <1>6

LEMMA Continues ==
  ASSUME TypeInv, NEW t \in Threads, NEW op, Calls(t, op), Continue(t, <<>>)
  PROVE  /\ DOMAIN calls' = Threads
         /\ calls'[t] = Tail(calls[t])
         /\ \A u \in Threads : u # t => calls'[u] = calls[u]
<1>1. <<>> \o Tail(calls[t]) = Tail(calls[t])
  <2>1. Tail(calls[t]) \in Seq(AllCalls)
    BY NextCall
  <2>2. QED BY <2>1
<1>2. calls' = [calls EXCEPT ![t] = Tail(calls[t])]
  BY <1>1 DEF Continue
<1>3. QED BY <1>2 DEF TypeInv, ThreadsOK

-----------------------------------------------------------------------------
(* Main goes from one stage to the next.                                   *)

\* The others change nothing of it.
LEMMA MainKept ==
  ASSUME MainOK, calls'[main] = calls[main], cur_timer_id' = cur_timer_id,
         UNCHANGED stopped, \A c \in Contexts : ended[c] => ended'[c]
  PROVE  MainOK'
<1>1. ASSUME NEW k \in 1..6, SettingUp(k) PROVE SettingUp(k)'
  BY <1>1 DEF SettingUp, Unstopped
<1>2. ASSUME UsingTimer PROVE UsingTimer'
  BY <1>2 DEF UsingTimer, Unstopped
<1>3. ASSUME NEW k \in 1..5, ShuttingDown(k) PROVE ShuttingDown(k)'
  BY <1>3, Names DEF ShuttingDown
<1>4. QED BY <1>1, <1>2, <1>3 DEF MainOK

\* The stage main is in, from its next call.
LEMMA MainStage ==
  ASSUME MainOK, NEW op, Calls(main, op)
  PROVE  \/ \E k \in 1..6 : /\ SettingUp(k) /\ Call(main) = Setup[k]
                            /\ Tail(calls[main]) = From(Setup, k + 1)
         \/ /\ UsingTimer /\ Tail(calls[main]) = <<>>
            /\ \/ cur_timer_id < MaxTimers
                    /\ \E interval \in Nat : Call(main) = StartTimer(<<>>, interval)
               \/ \E i \in 1..cur_timer_id : Call(main) = StopTimer(i)
         \/ \E k \in 1..4 : /\ ShuttingDown(k) /\ Call(main) = Shutdown[k]
                            /\ Tail(calls[main]) = From(Shutdown, k + 1)
<1>1. calls[main] # <<>>
  BY DEF Calls
<1>2. ASSUME NEW k \in 1..6, SettingUp(k)
      PROVE  Call(main) = Setup[k] /\ Tail(calls[main]) = From(Setup, k + 1)
  <2>1. k \in 1..Len(Setup) /\ Setup \in Seq(MainCalls)
    BY SetupParts
  <2>2. QED BY <1>2, <2>1, FromParts DEF SettingUp, Call
<1>3. ASSUME UsingTimer
      PROVE  /\ Tail(calls[main]) = <<>>
             /\ \/ cur_timer_id < MaxTimers
                     /\ \E interval \in Nat : Call(main) = StartTimer(<<>>, interval)
                \/ \E i \in 1..cur_timer_id : Call(main) = StopTimer(i)
  <2>1. \A call : Head(<<call>>) = call /\ Tail(<<call>>) = <<>>
    OBVIOUS
  <2>2. QED BY <1>1, <1>3, <2>1 DEF UsingTimer, Call
<1>4. ASSUME NEW k \in 1..5, ShuttingDown(k)
      PROVE  /\ k \in 1..4
             /\ Call(main) = Shutdown[k] /\ Tail(calls[main]) = From(Shutdown, k + 1)
  <2>1. k # 5
    <3>1. From(Shutdown, 5) = <<>>
      <4>1. Shutdown \in Seq(MainCalls) /\ 5 = Len(Shutdown) + 1
        BY ShutdownParts
      <4>2. QED BY <4>1, FromEnd
    <3>2. QED BY <1>1, <1>4, <3>1 DEF ShuttingDown
  <2>2. k \in 1..4
    BY <2>1
  <2>3. k \in 1..Len(Shutdown) /\ Shutdown \in Seq(MainCalls)
    BY <2>2, ShutdownParts
  <2>4. QED BY <1>4, <2>2, <2>3, FromParts DEF ShuttingDown, Call
<1>5. CASE \E k \in 1..6 : SettingUp(k)
  BY <1>2, <1>5
<1>6. CASE UsingTimer
  BY <1>3, <1>6
<1>7. CASE \E k \in 1..5 : ShuttingDown(k)
  BY <1>4, <1>7
<1>8. QED BY <1>5, <1>6, <1>7 DEF MainOK

\* Which stage main is in, from what it calls next, and what it has left then.
LEMMA MainCalling ==
  ASSUME TypeInv, NEW op, Calls(main, op), Continue(main, <<>>)
  PROVE  /\ op \in {"sync", "async"} =>
              \E k \in 1..4 : SettingUp(k) /\ calls'[main] = From(Setup, k + 1)
         /\ op = "start_timer" =>
              /\ Call(main).task \in TimerTasks /\ Call(main).interval \in Nat
              /\ \/ SettingUp(5) /\ calls'[main] = From(Setup, 6)
                 \/ SettingUp(6) /\ calls'[main] = <<>>
                 \/ UsingTimer /\ cur_timer_id < MaxTimers /\ calls'[main] = <<>>
         /\ op = "stop_timer" =>
              /\ UsingTimer /\ calls'[main] = <<>>
              /\ Call(main).timer \in 1..cur_timer_id
         /\ op = "stop" =>
              \E k \in {1, 3} :
                 /\ ShuttingDown(k) /\ calls'[main] = From(Shutdown, k + 1)
                 /\ Call(main).context = IF k = 1 THEN test ELSE worker
         /\ op = "join" =>
              \E k \in {2, 4} :
                 /\ ShuttingDown(k) /\ calls'[main] = From(Shutdown, k + 1)
                 /\ Call(main).context = IF k = 2 THEN test ELSE worker
         /\ op \notin {"set_value", "reschedule"}
<1>1. /\ Call(main).op = op /\ calls'[main] = Tail(calls[main])
      /\ main \in Threads /\ MainOK
  BY NextCall, Continues, Names DEF TypeInv
<1>2. ASSUME NEW k \in 1..6, SettingUp(k), Call(main) = Setup[k],
             Tail(calls[main]) = From(Setup, k + 1)
      PROVE  /\ op \in {"sync", "async", "start_timer"}
             /\ k \in 1..4 <=> op \in {"sync", "async"}
             /\ k \in {5, 6} => Call(main).task \in TimerTasks /\ Call(main).interval \in Nat
             /\ k = 5 => calls'[main] = From(Setup, 6)
             /\ k = 6 => calls'[main] = <<>>
  <2>1. k \in 1..3 => op = "sync"
    BY <1>1, <1>2, SetupParts DEF Sync
  <2>2. k = 4 => op = "async"
    BY <1>1, <1>2, SetupParts DEF Async
  <2>3. k \in {5, 6} => /\ op = "start_timer"
                        /\ Call(main).task \in TimerTasks /\ Call(main).interval \in Nat
    BY <1>1, <1>2, SetupParts DEF StartTimer, TimerTasks
  <2>4. From(Setup, 7) = <<>>
    <3>1. Setup \in Seq(MainCalls) /\ 7 = Len(Setup) + 1
      BY SetupParts
    <3>2. QED BY <3>1, FromEnd
  <2>5. k = 5 => k + 1 = 6
    OBVIOUS
  <2>6. k = 6 => k + 1 = 7
    OBVIOUS
  <2>7. \/ k \in 1..4 /\ (k \in 1..3 \/ k = 4) /\ k # 5 /\ k # 6
        \/ k \in {5, 6} /\ ~(k \in 1..4)
    OBVIOUS
  <2>8. k \in 1..4 => op \in {"sync", "async"}
    BY <2>1, <2>2, <2>7
  <2>9. QED BY <1>1, <1>2, <2>3, <2>4, <2>5, <2>6, <2>7, <2>8
<1>3. ASSUME NEW k \in 1..4, ShuttingDown(k), Call(main) = Shutdown[k],
             Tail(calls[main]) = From(Shutdown, k + 1)
      PROVE  /\ op \in {"stop", "join"} /\ calls'[main] = From(Shutdown, k + 1)
             /\ k \in {1, 3} => op = "stop"
             /\ k \in {2, 4} => op = "join"
             /\ Call(main).context = IF k \in {1, 2} THEN test ELSE worker
  <2>1. k = 1 \/ k = 2 \/ k = 3 \/ k = 4
    OBVIOUS
  <2>2. k \in {1, 3} => op = "stop"
    BY <1>1, <1>3, ShutdownParts DEF Stop
  <2>3. k \in {2, 4} => op = "join"
    BY <1>1, <1>3, ShutdownParts DEF Join
  <2>4. Call(main).context = IF k \in {1, 2} THEN test ELSE worker
    BY <1>1, <1>3, <2>1, ShutdownParts DEF Stop, Join
  <2>5. QED BY <1>1, <1>3, <2>1, <2>2, <2>3, <2>4
<1>4. CASE \E k \in 1..6 : /\ SettingUp(k) /\ Call(main) = Setup[k]
                           /\ Tail(calls[main]) = From(Setup, k + 1)
  <2>1. PICK k \in 1..6 : /\ SettingUp(k) /\ Call(main) = Setup[k]
                          /\ Tail(calls[main]) = From(Setup, k + 1)
    BY <1>4
  <2>2. k \in 1..4 \/ k = 5 \/ k = 6
    OBVIOUS
  <2>3. QED BY <1>1, <1>2, <2>1, <2>2
<1>5. CASE /\ UsingTimer /\ Tail(calls[main]) = <<>>
           /\ \/ cur_timer_id < MaxTimers
                   /\ \E interval \in Nat : Call(main) = StartTimer(<<>>, interval)
              \/ \E i \in 1..cur_timer_id : Call(main) = StopTimer(i)
  BY <1>1, <1>5 DEF StartTimer, StopTimer, TimerTasks
<1>6. CASE \E k \in 1..4 : /\ ShuttingDown(k) /\ Call(main) = Shutdown[k]
                           /\ Tail(calls[main]) = From(Shutdown, k + 1)
  <2>1. PICK k \in 1..4 : /\ ShuttingDown(k) /\ Call(main) = Shutdown[k]
                          /\ Tail(calls[main]) = From(Shutdown, k + 1)
    BY <1>6
  <2>2. k = 1 \/ k = 2 \/ k = 3 \/ k = 4
    OBVIOUS
  <2>3. CASE k \in {1, 3}
    <3>1. /\ op = "stop" /\ calls'[main] = From(Shutdown, k + 1)
          /\ Call(main).context = IF k = 1 THEN test ELSE worker
      <4>1. /\ op = "stop" /\ calls'[main] = From(Shutdown, k + 1)
            /\ Call(main).context = IF k \in {1, 2} THEN test ELSE worker
        BY <1>3, <2>1, <2>3
      <4>2. k \in {1, 2} <=> k = 1
        BY <2>3
      <4>3. QED BY <4>1, <4>2
    <3>2. QED BY <2>1, <2>3, <3>1
  <2>4. CASE k \in {2, 4}
    <3>1. /\ op = "join" /\ calls'[main] = From(Shutdown, k + 1)
          /\ Call(main).context = IF k = 2 THEN test ELSE worker
      <4>1. /\ op = "join" /\ calls'[main] = From(Shutdown, k + 1)
            /\ Call(main).context = IF k \in {1, 2} THEN test ELSE worker
        BY <1>3, <2>1, <2>4
      <4>2. k \in {1, 2} <=> k = 2
        BY <2>4
      <4>3. QED BY <4>1, <4>2
    <3>2. QED BY <2>1, <2>4, <3>1
  <2>5. QED BY <2>2, <2>3, <2>4
<1>7. QED BY <1>1, <1>4, <1>5, <1>6, MainStage

\* What the calls are of.
LEMMA CallsAre ==
  ASSUME TypeInv, NEW t \in Threads, NEW op, Calls(t, op)
  PROVE  /\ op = "sync" => Call(t).context = worker /\ Call(t).task = <<>>
         /\ op = "async" => /\ Call(t).context = worker /\ t # worker
                            /\ Call(t).task \in {<<>>, Responding}
         /\ op = "set_value" => t = worker /\ Call(t).thread \in {main, test}
         /\ op = "reschedule" => t = test /\ Call(t).timer \in Nat
         /\ op \in {"start_timer", "stop_timer", "stop", "join"} => t = main
<1>1. Call(t).op = op
  BY NextCall
<1>2. CASE t = worker
  <2>1. Call(t) \in WorkerCalls
    BY <1>2, NextCall
  <2>2. QED BY <1>1, <1>2, <2>1, Names DEF WorkerCalls
<1>3. CASE t = test
  <2>1. Call(t) \in TestCalls
    BY <1>3, NextCall
  <2>2. QED BY <1>1, <1>3, <2>1, Names DEF TestCalls
<1>4. CASE t = main
  <2>1. Call(t) \in MainCalls
    BY <1>4, NextCall
  <2>2. QED BY <1>1, <1>4, <2>1, Names DEF MainCalls
<1>5. QED BY <1>2, <1>3, <1>4, Names

-----------------------------------------------------------------------------
(* What the steps have in common.                                          *)

\* A sequence with one more at the end, and without its first.
LEMMA Longer ==
  ASSUME NEW S, NEW q \in Seq(S), NEW e \in S
  PROVE  /\ Append(q, e) \in Seq(S) /\ Len(q) \in Nat
         /\ Len(Append(q, e)) = Len(q) + 1 /\ Append(q, e)[Len(q) + 1] = e
         /\ \A m \in 1..Len(q) : Append(q, e)[m] = q[m]
  OBVIOUS

LEMMA Shorter ==
  ASSUME NEW S, NEW q \in Seq(S), q # <<>>
  PROVE  /\ Tail(q) \in Seq(S) /\ Len(q) \in Nat \ {0} /\ Head(q) = q[1]
         /\ q[1] \in S /\ Len(Tail(q)) = Len(q) - 1
         /\ \A m \in 1..(Len(q) - 1) : Tail(q)[m] = q[m + 1]
  OBVIOUS

\* A handler is posted.
LEMMA PostedKeeps ==
  ASSUME TypeInv, NEW c \in Contexts, NEW h, Posted(c, h),
         c = worker => h \in WorkerHandlers,
         c = test => h \in TestHandlers /\ h.timer \in 1..cur_timer_id',
         cur_timer_id' \in Nat, cur_timer_id <= cur_timer_id'
  PROVE  QueuesOK'
<1>1. /\ DOMAIN queue = Contexts /\ queue[worker] \in Seq(WorkerHandlers)
      /\ queue[test] \in Seq(TestHandlers) /\ cur_timer_id \in Nat
      /\ \A n \in 1..Len(queue[test]) : queue[test][n].timer \in 1..cur_timer_id
  BY DEF TypeInv, QueuesOK, TimersOK
<1>2. /\ DOMAIN queue' = Contexts /\ queue'[c] = Append(queue[c], h)
      /\ \A d \in Contexts : d # c => queue'[d] = queue[d]
  BY <1>1 DEF Posted
<1>3. queue'[worker] \in Seq(WorkerHandlers)
  <2>1. CASE c = worker
    <3>1. Append(queue[worker], h) \in Seq(WorkerHandlers)
      BY <1>1, <2>1, Longer
    <3>2. QED BY <1>2, <2>1, <3>1
  <2>2. QED BY <1>1, <1>2, <2>1, Names
<1>4. queue'[test] \in Seq(TestHandlers)
  <2>1. CASE c = test
    <3>1. Append(queue[test], h) \in Seq(TestHandlers)
      BY <1>1, <2>1, Longer
    <3>2. QED BY <1>2, <2>1, <3>1
  <2>2. QED BY <1>1, <1>2, <2>1, Names
<1>5. ASSUME NEW n \in 1..Len(queue'[test])
      PROVE  queue'[test][n].timer \in 1..cur_timer_id'
  <2>1. CASE c = test
    <3>1. /\ Len(queue'[test]) = Len(queue[test]) + 1
          /\ queue'[test][Len(queue[test]) + 1] = h
          /\ \A m \in 1..Len(queue[test]) : queue'[test][m] = queue[test][m]
      <4>1. h \in TestHandlers
        BY <2>1
      <4>2. QED BY <1>1, <1>2, <2>1, <4>1, Longer
    <3>2. Len(queue[test]) \in Nat
      BY <1>1
    <3>3. n \in 1..Len(queue[test]) \/ n = Len(queue[test]) + 1
      BY <3>1, <3>2
    <3>4. QED BY <1>1, <2>1, <3>1, <3>3
  <2>2. CASE c # test
    BY <1>1, <1>2, <2>2, Names
  <2>3. QED BY <2>1, <2>2
<1>6. QED BY <1>2, <1>3, <1>4, <1>5 DEF QueuesOK

\* The first handler is taken.
LEMMA TakenKeeps ==
  ASSUME TypeInv, NEW c \in Contexts, queue[c] # <<>>, Taken(c),
         cur_timer_id' = cur_timer_id
  PROVE  QueuesOK'
<1>1. /\ DOMAIN queue = Contexts /\ queue[worker] \in Seq(WorkerHandlers)
      /\ queue[test] \in Seq(TestHandlers)
      /\ \A n \in 1..Len(queue[test]) : queue[test][n].timer \in 1..cur_timer_id
  BY DEF TypeInv, QueuesOK
<1>2. /\ DOMAIN queue' = Contexts /\ queue'[c] = Tail(queue[c])
      /\ \A d \in Contexts : d # c => queue'[d] = queue[d]
  BY <1>1 DEF Taken
<1>3. queue'[worker] \in Seq(WorkerHandlers)
  <2>1. CASE c = worker
    <3>1. Tail(queue[worker]) \in Seq(WorkerHandlers)
      BY <1>1, <2>1, Shorter
    <3>2. QED BY <1>2, <2>1, <3>1
  <2>2. QED BY <1>1, <1>2, <2>1, Names
<1>4. queue'[test] \in Seq(TestHandlers)
  <2>1. CASE c = test
    <3>1. Tail(queue[test]) \in Seq(TestHandlers)
      BY <1>1, <2>1, Shorter
    <3>2. QED BY <1>2, <2>1, <3>1
  <2>2. QED BY <1>1, <1>2, <2>1, Names
<1>5. ASSUME NEW n \in 1..Len(queue'[test])
      PROVE  queue'[test][n].timer \in 1..cur_timer_id'
  <2>1. CASE c = test
    <3>1. /\ Len(queue'[test]) = Len(queue[test]) - 1 /\ Len(queue[test]) \in Nat
          /\ \A m \in 1..(Len(queue[test]) - 1) : queue'[test][m] = queue[test][m + 1]
      BY <1>1, <1>2, <2>1, Shorter
    <3>2. n \in 1..(Len(queue[test]) - 1) /\ n + 1 \in 1..Len(queue[test])
      BY <3>1
    <3>3. QED BY <1>1, <3>1, <3>2
  <2>2. CASE c # test
    BY <1>1, <1>2, <2>2, Names
  <2>3. QED BY <2>1, <2>2
<1>6. QED BY <1>2, <1>3, <1>4, <1>5 DEF QueuesOK

\* A thread makes a call.
LEMMA CallKeeps ==
  ASSUME TypeInv, NEW t \in Threads, NEW op, Calls(t, op), Continue(t, <<>>),
         UNCHANGED ended, stopped' \in [Contexts -> BOOLEAN],
         \A c \in Contexts : stopped[c] => stopped'[c],
         waiting' \in [Threads -> BOOLEAN], ~waiting'[worker],
         \A u \in Threads : waiting'[u] => waiting[u] \/ u = t
  PROVE  ThreadsOK'
<1>1. /\ DOMAIN calls' = Threads /\ calls'[t] = Tail(calls[t])
      /\ \A u \in Threads : u # t => calls'[u] = calls[u]
  BY Continues
<1>2. calls'[worker] \in Seq(WorkerCalls)
  <2>1. t = worker => Tail(calls[t]) \in Seq(WorkerCalls)
    BY NextCall
  <2>2. QED BY <1>1, <2>1, Names DEF TypeInv, ThreadsOK
<1>3. calls'[test] \in Seq(TestCalls)
  <2>1. t = test => Tail(calls[t]) \in Seq(TestCalls)
    BY NextCall
  <2>2. QED BY <1>1, <2>1, Names DEF TypeInv, ThreadsOK
<1>4. ASSUME NEW c \in Contexts, ended[c]
      PROVE  stopped'[c] /\ Len(calls'[c]) = 0 /\ ~waiting'[c]
  <2>1. stopped[c] /\ Len(calls[c]) = 0 /\ ~waiting[c]
    BY <1>4 DEF TypeInv, ThreadsOK
  <2>2. c # t
    BY <2>1, NextCall
  <2>3. QED BY <1>1, <2>1, <2>2, Names
<1>5. QED BY <1>1, <1>2, <1>3, <1>4 DEF TypeInv, ThreadsOK

\* Another thread than main makes a call.
LEMMA OtherCallKeeps ==
  ASSUME TypeInv, NEW t \in Threads, t # main, NEW op, Calls(t, op),
         Continue(t, <<>>), UNCHANGED <<stopped, ended, cur_timer_id>>
  PROVE  MainOK'
<1>1. calls'[main] = calls[main]
  BY Continues, Names
<1>2. QED BY <1>1, MainKept DEF TypeInv

\* Main makes one of the first calls.
LEMMA SetupKeeps ==
  ASSUME TypeInv, NEW op \in {"sync", "async"}, Calls(main, op),
         Continue(main, <<>>), UNCHANGED <<stopped, ended, cur_timer_id>>
  PROVE  MainOK'
<1>1. PICK k \in 1..4 : SettingUp(k) /\ calls'[main] = From(Setup, k + 1)
  BY MainCalling
<1>2. k + 1 \in 1..6 /\ (k <= 5 <=> TRUE) /\ (k + 1 <= 5 <=> TRUE)
  OBVIOUS
<1>3. SettingUp(k + 1)'
  BY <1>1, <1>2 DEF SettingUp, Unstopped
<1>4. QED BY <1>2, <1>3 DEF MainOK

-----------------------------------------------------------------------------
(* Every step keeps the types.                                             *)

LEMMA WorkerTasks ==
  /\ Task(<<>>) \in WorkerHandlers /\ Task(Responding) \in WorkerHandlers
  /\ \A t \in {main, test} : Task(Append(<<>>, SetValue(t))) \in WorkerHandlers
<1>1. Sync(worker, <<>>) \in WorkerCalls /\ \A t \in {main, test} : SetValue(t) \in WorkerCalls
  BY DEF WorkerCalls, Sync, SetValue
<1>2. <<>> \in Seq(WorkerCalls)
  OBVIOUS
<1>3. Responding \in Seq(WorkerCalls)
  BY <1>1 DEF Responding
<1>4. \A t \in {main, test} : Append(<<>>, SetValue(t)) \in Seq(WorkerCalls)
  BY <1>1, <1>2
<1>5. \A q \in Seq(WorkerCalls) : Task(q) \in WorkerHandlers
  BY DEF WorkerHandlers, Task
<1>6. QED BY <1>2, <1>3, <1>4, <1>5

LEMMA TimersKept ==
  ASSUME TypeInv, UNCHANGED timerVars
  PROVE  TimersOK' /\ cur_timer_id' = cur_timer_id /\ cur_timer_id' \in Nat
<1>1. cur_timer_id \in Nat
  BY DEF TypeInv, TimersOK, timerVars
<1>2. QED BY <1>1 DEF TypeInv, TimersOK, timerVars, Entries

LEMMA QueuesKept ==
  ASSUME TypeInv, UNCHANGED <<queue, cur_timer_id>>
  PROVE  QueuesOK'
  BY DEF TypeInv, QueuesOK

LEMMA MakeAsyncType ==
  ASSUME TypeInv, NEW t \in Threads, MakeAsync(t)
  PROVE  TypeInv'
<1>1. /\ Calls(t, "async") /\ Continue(t, <<>>)
      /\ Posted(Call(t).context, Task(Call(t).task))
      /\ UNCHANGED <<stopped, waiting, ended, timerVars>>
  BY DEF MakeAsync
<1>2. /\ Call(t).context = worker /\ t # worker /\ Call(t).task \in {<<>>, Responding}
      /\ Task(Call(t).task) \in WorkerHandlers
  BY <1>1, CallsAre, WorkerTasks
<1>3. cur_timer_id' = cur_timer_id /\ TimersOK' /\ cur_timer_id' \in Nat
  BY <1>1, TimersKept
<1>4. QueuesOK'
  BY <1>1, <1>2, <1>3, PostedKeeps, Names
<1>5. ThreadsOK'
  BY <1>1, CallKeeps DEF TypeInv, ThreadsOK
<1>6. MainOK'
  BY <1>1, <1>3, OtherCallKeeps, SetupKeeps
<1>7. QED BY <1>3, <1>4, <1>5, <1>6 DEF TypeInv

\* The two ways a synchronous call is made.
LEMMA SyncCases ==
  ASSUME TypeInv, NEW t \in Threads, MakeSync(t)
  PROVE  /\ Calls(t, "sync") /\ Continue(t, <<>>)
         /\ UNCHANGED <<stopped, ended, timerVars>>
         /\ Call(t).context = worker /\ Call(t).task = <<>>
         /\ \/ t = worker /\ UNCHANGED <<queue, waiting>>
            \/ /\ t \in {main, test}
               /\ Posted(worker, Task(Append(<<>>, SetValue(t))))
               /\ waiting' = [waiting EXCEPT ![t] = TRUE]
<1>1. Calls(t, "sync") /\ UNCHANGED <<stopped, ended, timerVars>>
  BY DEF MakeSync
<1>2. Call(t).context = worker /\ Call(t).task = <<>>
  BY <1>1, CallsAre
<1>3. CASE t = worker
  BY <1>1, <1>2, <1>3 DEF MakeSync, Inline
<1>4. CASE t # worker
  BY <1>1, <1>2, <1>4, Names DEF MakeSync, Inline
<1>5. QED BY <1>3, <1>4

LEMMA MakeSyncType ==
  ASSUME TypeInv, NEW t \in Threads, MakeSync(t)
  PROVE  TypeInv'
<1>1. /\ Calls(t, "sync") /\ Continue(t, <<>>)
      /\ UNCHANGED <<stopped, ended, timerVars>>
      /\ \/ t = worker /\ UNCHANGED <<queue, waiting>>
         \/ /\ t \in {main, test}
            /\ Posted(worker, Task(Append(<<>>, SetValue(t))))
            /\ waiting' = [waiting EXCEPT ![t] = TRUE]
  BY SyncCases
<1>2. cur_timer_id' = cur_timer_id /\ TimersOK' /\ cur_timer_id' \in Nat
  BY <1>1, TimersKept
<1>3. QueuesOK'
  <2>1. CASE UNCHANGED queue
    BY <1>2, <2>1, QueuesKept
  <2>2. CASE t \in {main, test} /\ Posted(worker, Task(Append(<<>>, SetValue(t))))
    <3>1. Task(Append(<<>>, SetValue(t))) \in WorkerHandlers /\ worker \in Contexts
      BY <2>2, WorkerTasks, Names
    <3>2. QED BY <1>2, <2>2, <3>1, PostedKeeps, Names
  <2>3. QED BY <1>1, <2>1, <2>2
<1>4. ThreadsOK'
  <2>1. waiting \in [Threads -> BOOLEAN] /\ ~waiting[worker]
    BY DEF TypeInv, ThreadsOK
  <2>2. /\ waiting' \in [Threads -> BOOLEAN] /\ ~waiting'[worker]
        /\ \A u \in Threads : waiting'[u] => waiting[u] \/ u = t
    BY <1>1, <2>1, Names
  <2>3. QED BY <1>1, <2>2, CallKeeps DEF TypeInv, ThreadsOK
<1>5. MainOK'
  BY <1>1, <1>2, OtherCallKeeps, SetupKeeps
<1>6. QED BY <1>2, <1>3, <1>4, <1>5 DEF TypeInv

LEMMA SetsValueType ==
  ASSUME TypeInv, NEW t \in Threads, SetsValue(t)
  PROVE  TypeInv'
<1>1. /\ Calls(t, "set_value") /\ Continue(t, <<>>)
      /\ waiting' = [waiting EXCEPT ![Call(t).thread] = FALSE]
      /\ UNCHANGED <<queue, stopped, ended, timerVars>>
  BY DEF SetsValue
<1>2. t = worker /\ Call(t).thread \in {main, test}
  BY <1>1, CallsAre
<1>3. cur_timer_id' = cur_timer_id /\ TimersOK' /\ QueuesOK'
  BY <1>1, TimersKept, QueuesKept
<1>4. ThreadsOK'
  <2>1. waiting \in [Threads -> BOOLEAN] /\ ~waiting[worker]
    BY DEF TypeInv, ThreadsOK
  <2>2. /\ waiting' \in [Threads -> BOOLEAN] /\ ~waiting'[worker]
        /\ \A u \in Threads : waiting'[u] => waiting[u]
    BY <1>1, <1>2, <2>1, Names
  <2>3. QED BY <1>1, <2>2, CallKeeps DEF TypeInv, ThreadsOK
<1>5. MainOK'
  BY <1>1, <1>2, <1>3, OtherCallKeeps, Names
<1>6. QED BY <1>3, <1>4, <1>5 DEF TypeInv

LEMMA MakeStartTimerType ==
  ASSUME TypeInv, NEW t \in Threads, MakeStartTimer(t)
  PROVE  TypeInv'
<1> DEFINE h == [op |-> "timer_start", timer |-> cur_timer_id',
                 task |-> Call(t).task, interval |-> Call(t).interval]
<1>1. /\ Calls(t, "start_timer") /\ Continue(t, <<>>)
      /\ cur_timer_id' = cur_timer_id + 1 /\ Posted(test, h)
      /\ UNCHANGED <<stopped, waiting, ended, timers, fired, silenced>>
  BY DEF MakeStartTimer, TimerContext
<1>2. t = main
  BY <1>1, CallsAre
<1>3. /\ Call(main).task \in TimerTasks /\ Call(main).interval \in Nat
      /\ \/ SettingUp(5) /\ calls'[main] = From(Setup, 6)
         \/ SettingUp(6) /\ calls'[main] = <<>>
         \/ UsingTimer /\ cur_timer_id < MaxTimers /\ calls'[main] = <<>>
  BY <1>1, <1>2, MainCalling
<1>4. /\ cur_timer_id \in 0..MaxTimers /\ cur_timer_id < MaxTimers
      /\ cur_timer_id' \in 1..MaxTimers
  <2>1. cur_timer_id \in 0..MaxTimers
    BY DEF TypeInv, TimersOK
  <2>2. cur_timer_id < MaxTimers
    BY <1>3, <2>1, Names DEF SettingUp
  <2>3. QED BY <1>1, <2>1, <2>2, Names
<1>5. TimersOK'
  <2>1. 1..cur_timer_id \subseteq 1..cur_timer_id'
    BY <1>1, <1>4
  <2>2. QED BY <1>1, <1>4, <2>1 DEF TypeInv, TimersOK, Entries
<1>6. QueuesOK'
  <2>1. h \in TestHandlers /\ h.timer \in 1..cur_timer_id'
    BY <1>2, <1>3, <1>4, Names DEF TestHandlers
  <2>2. cur_timer_id' \in Nat /\ cur_timer_id <= cur_timer_id'
    BY <1>1, <1>4, Names
  <2> HIDE DEF h
  <2>3. QED BY <1>1, <2>1, <2>2, PostedKeeps, Names
<1>7. ThreadsOK'
  BY <1>1, CallKeeps DEF TypeInv, ThreadsOK
<1>8. MainOK'
  <2>1. CASE SettingUp(5) /\ calls'[main] = From(Setup, 6)
    <3>1. SettingUp(6)'
      BY <1>1, <2>1 DEF SettingUp, Unstopped
    <3>2. QED BY <3>1 DEF MainOK
  <2>2. CASE calls'[main] = <<>> /\ Unstopped
    <3>1. UsingTimer'
      BY <1>1, <2>2 DEF UsingTimer, Unstopped
    <3>2. QED BY <3>1 DEF MainOK
  <2>3. QED BY <1>3, <2>1, <2>2 DEF SettingUp, UsingTimer
<1>9. QED BY <1>5, <1>6, <1>7, <1>8 DEF TypeInv

LEMMA MakeStopTimerType ==
  ASSUME TypeInv, NEW t \in Threads, MakeStopTimer(t)
  PROVE  TypeInv'
<1> DEFINE h == [op |-> "timer_stop", timer |-> Call(t).timer]
<1>1. /\ Calls(t, "stop_timer") /\ Continue(t, <<>>) /\ Posted(test, h)
      /\ UNCHANGED <<stopped, waiting, ended, timerVars>>
  BY DEF MakeStopTimer, TimerContext
<1>2. t = main
  BY <1>1, CallsAre
<1>3. UsingTimer /\ calls'[main] = <<>> /\ Call(main).timer \in 1..cur_timer_id
  BY <1>1, <1>2, MainCalling
<1>4. cur_timer_id' = cur_timer_id /\ TimersOK' /\ cur_timer_id' \in Nat
  BY <1>1, TimersKept
<1>5. QueuesOK'
  <2>1. h \in TestHandlers /\ h.timer \in 1..cur_timer_id'
    BY <1>2, <1>3, <1>4 DEF TestHandlers
  <2>2. cur_timer_id <= cur_timer_id'
    BY <1>4
  <2> HIDE DEF h
  <2>3. QED BY <1>1, <1>4, <2>1, <2>2, PostedKeeps, Names
<1>6. ThreadsOK'
  BY <1>1, CallKeeps DEF TypeInv, ThreadsOK
<1>7. UsingTimer'
  BY <1>1, <1>3 DEF UsingTimer, Unstopped
<1>8. QED BY <1>4, <1>5, <1>6, <1>7 DEF TypeInv, MainOK

LEMMA MakeStopType ==
  ASSUME TypeInv, NEW t \in Threads, MakeStop(t)
  PROVE  TypeInv'
<1>1. /\ Calls(t, "stop") /\ Continue(t, <<>>)
      /\ stopped' = [stopped EXCEPT ![Call(t).context] = TRUE]
      /\ UNCHANGED <<queue, waiting, ended, timerVars>>
  BY DEF MakeStop
<1>2. t = main
  BY <1>1, CallsAre
<1>3. PICK k \in {1, 3} : /\ ShuttingDown(k) /\ calls'[main] = From(Shutdown, k + 1)
                          /\ Call(main).context = IF k = 1 THEN test ELSE worker
  BY <1>1, <1>2, MainCalling
<1>4. TimersOK' /\ QueuesOK'
  BY <1>1, TimersKept, QueuesKept
<1>5. stopped \in [Contexts -> BOOLEAN]
  BY DEF TypeInv, ThreadsOK
<1>6. ThreadsOK'
  <2>1. /\ stopped' \in [Contexts -> BOOLEAN]
        /\ \A c \in Contexts : stopped[c] => stopped'[c]
    BY <1>1, <1>5
  <2>2. QED BY <1>1, <2>1, CallKeeps DEF TypeInv, ThreadsOK
<1>7. ShuttingDown(k + 1)'
  <2>1. CASE k = 1
    <3>1. calls'[main] = From(Shutdown, 2) /\ stopped'[test] /\ ~stopped'[worker]
      BY <1>1, <1>2, <1>3, <1>5, <2>1, Names DEF ShuttingDown
    <3>2. ShuttingDown(2)'
      BY <3>1 DEF ShuttingDown
    <3>3. QED BY <2>1, <3>2
  <2>2. CASE k = 3
    <3>1. /\ calls'[main] = From(Shutdown, 4) /\ stopped'[test] /\ stopped'[worker]
          /\ ended'[test]
      BY <1>1, <1>2, <1>3, <1>5, <2>2, Names DEF ShuttingDown
    <3>2. ShuttingDown(4)'
      BY <3>1 DEF ShuttingDown
    <3>3. QED BY <2>2, <3>2
  <2>3. QED BY <2>1, <2>2
<1>8. k + 1 \in 1..5
  OBVIOUS
<1>9. QED BY <1>4, <1>6, <1>7, <1>8 DEF TypeInv, MainOK

LEMMA MakeJoinType ==
  ASSUME TypeInv, NEW t \in Threads, MakeJoin(t)
  PROVE  TypeInv'
<1>1. /\ Calls(t, "join") /\ Continue(t, <<>>) /\ ended[Call(t).context]
      /\ UNCHANGED <<queue, stopped, waiting, ended, timerVars>>
  BY DEF MakeJoin
<1>2. t = main
  BY <1>1, CallsAre
<1>3. PICK k \in {2, 4} : /\ ShuttingDown(k) /\ calls'[main] = From(Shutdown, k + 1)
                          /\ Call(main).context = IF k = 2 THEN test ELSE worker
  BY <1>1, <1>2, MainCalling
<1>4. TimersOK' /\ QueuesOK'
  BY <1>1, TimersKept, QueuesKept
<1>5. ThreadsOK'
  BY <1>1, CallKeeps DEF TypeInv, ThreadsOK
<1>6. ShuttingDown(k + 1)'
  <2>1. CASE k = 2
    <3>1. ShuttingDown(3)'
      BY <1>1, <1>2, <1>3, <2>1 DEF ShuttingDown
    <3>2. QED BY <2>1, <3>1
  <2>2. CASE k = 4
    <3>1. ShuttingDown(5)'
      BY <1>1, <1>2, <1>3, <2>2 DEF ShuttingDown
    <3>2. QED BY <2>2, <3>1
  <2>3. QED BY <2>1, <2>2
<1>7. k + 1 \in 1..5
  OBVIOUS
<1>8. QED BY <1>4, <1>5, <1>6, <1>7 DEF TypeInv, MainOK

\* Main waits for the signal.
LEMMA MainIdle ==
  ASSUME TypeInv, calls[main] = <<>>, ~stopped[test]
  PROVE  UsingTimer
<1>1. ASSUME NEW k \in 1..6, SettingUp(k) PROVE FALSE
  <2>1. k \in 1..Len(Setup) /\ Setup \in Seq(MainCalls)
    BY SetupParts
  <2>2. QED BY <1>1, <2>1, FromParts DEF SettingUp
<1>2. ASSUME NEW k \in 1..5, ShuttingDown(k) PROVE FALSE
  <2>1. k = 1
    BY <1>2 DEF ShuttingDown
  <2>2. k \in 1..Len(Shutdown) /\ Shutdown \in Seq(MainCalls)
    BY <2>1, ShutdownParts
  <2>3. QED BY <1>2, <2>2, FromParts DEF ShuttingDown
<1>3. QED BY <1>1, <1>2 DEF TypeInv, MainOK

LEMMA UsesTimerType ==
  ASSUME TypeInv, UsesTimer
  PROVE  TypeInv'
<1>1. /\ calls[main] = <<>> /\ ~stopped[test]
      /\ UNCHANGED <<queue, stopped, waiting, ended, timerVars>>
  BY DEF UsesTimer
<1>2. UsingTimer
  BY <1>1, MainIdle
<1>3. TimersOK' /\ QueuesOK' /\ cur_timer_id' = cur_timer_id
  BY <1>1, TimersKept, QueuesKept
<1>4. /\ DOMAIN calls' = Threads
      /\ \A c \in Contexts : calls'[c] = calls[c]
      /\ \/ cur_timer_id < MaxTimers
              /\ \E interval \in Nat : calls'[main] = <<StartTimer(<<>>, interval)>>
         \/ \E i \in 1..cur_timer_id : calls'[main] = <<StopTimer(i)>>
  <2>1. DOMAIN calls = Threads
    BY DEF TypeInv, ThreadsOK
  <2>2. CASE /\ cur_timer_id < MaxTimers
             /\ \E interval \in 0..MaxInterval :
                  calls' = [calls EXCEPT ![main] = <<StartTimer(<<>>, interval)>>]
    <3>1. PICK interval \in 0..MaxInterval :
            calls' = [calls EXCEPT ![main] = <<StartTimer(<<>>, interval)>>]
      BY <2>2
    <3>2. interval \in Nat
      BY ContextsAssumption
    <3>3. QED BY <2>1, <2>2, <3>1, <3>2, Names
  <2>3. CASE \E i \in 1..cur_timer_id \ silenced :
               calls' = [calls EXCEPT ![main] = <<StopTimer(i)>>]
    BY <2>1, <2>3, Names
  <2>4. QED BY <2>2, <2>3 DEF UsesTimer
<1>5. UsingTimer'
  BY <1>1, <1>2, <1>3, <1>4 DEF UsingTimer, Unstopped
<1>6. ThreadsOK'
  BY <1>1, <1>4, Names DEF TypeInv, ThreadsOK
<1>7. QED BY <1>3, <1>5, <1>6 DEF TypeInv, MainOK

LEMMA SignalType ==
  ASSUME TypeInv, Signal
  PROVE  TypeInv'
<1>1. /\ calls[main] = <<>> /\ ~stopped[test]
      /\ calls' = [calls EXCEPT ![main] = Shutdown]
      /\ UNCHANGED <<queue, stopped, waiting, ended, timerVars>>
  BY DEF Signal
<1>2. Unstopped
  BY <1>1, MainIdle DEF UsingTimer
<1>3. TimersOK' /\ QueuesOK'
  BY <1>1, TimersKept, QueuesKept
<1>4. /\ DOMAIN calls' = Threads /\ calls'[main] = Shutdown
      /\ \A c \in Contexts : calls'[c] = calls[c]
  BY <1>1, Names DEF TypeInv, ThreadsOK
<1>5. ShuttingDown(1)'
  <2>1. From(Shutdown, 1) = Shutdown
    BY ShutdownParts, FromEnd
  <2>2. QED BY <1>1, <1>2, <1>4, <2>1 DEF ShuttingDown, Unstopped
<1>6. ThreadsOK'
  BY <1>1, <1>4, Names DEF TypeInv, ThreadsOK
<1>7. QED BY <1>3, <1>5, <1>6 DEF TypeInv, MainOK

\* The first handler of an io_context.
LEMMA NextHandler ==
  ASSUME TypeInv, NEW c \in Contexts, NEW op, Runs(c, op)
  PROVE  /\ ~ended[c] /\ ~stopped[c] /\ calls[c] = <<>> /\ ~waiting[c]
         /\ queue[c] # <<>> /\ Head(queue[c]).op = op
         /\ Head(queue[c]) = queue[c][1] /\ Len(queue[c]) \in Nat \ {0}
         /\ c = worker => op = "task" /\ Head(queue[c]) \in WorkerHandlers
         /\ c = test => /\ op \in {"timer_start", "timer_stop", "expired"}
                        /\ Head(queue[c]) \in TestHandlers
                        /\ Head(queue[c]).timer \in 1..cur_timer_id
<1>1. /\ ~ended[c] /\ ~stopped[c] /\ calls[c] = <<>> /\ ~waiting[c]
      /\ queue[c] # <<>> /\ Head(queue[c]).op = op
  BY DEF Runs, Idle
<1>2. CASE c = worker
  <2>1. queue[worker] \in Seq(WorkerHandlers)
    BY DEF TypeInv, QueuesOK
  <2>2. /\ Head(queue[c]) = queue[c][1] /\ Len(queue[c]) \in Nat \ {0}
        /\ Head(queue[c]) \in WorkerHandlers
    BY <1>1, <1>2, <2>1, Shorter
  <2>3. op = "task"
    BY <1>1, <2>2 DEF WorkerHandlers
  <2>4. QED BY <1>1, <1>2, <2>2, <2>3, Names
<1>3. CASE c = test
  <2>1. /\ queue[test] \in Seq(TestHandlers)
        /\ \A n \in 1..Len(queue[test]) : queue[test][n].timer \in 1..cur_timer_id
    BY DEF TypeInv, QueuesOK
  <2>2. /\ Head(queue[c]) = queue[c][1] /\ Len(queue[c]) \in Nat \ {0}
        /\ Head(queue[c]) \in TestHandlers
    BY <1>1, <1>3, <2>1, Shorter
  <2>3. op \in {"timer_start", "timer_stop", "expired"}
    BY <1>1, <2>2 DEF TestHandlers
  <2>4. 1 \in 1..Len(queue[c])
    BY <2>2
  <2>5. QED BY <1>1, <1>3, <2>1, <2>2, <2>3, <2>4, Names
<1>4. QED BY <1>2, <1>3, Names

LEMMA RunTaskType ==
  ASSUME TypeInv, NEW c \in Contexts, RunTask(c)
  PROVE  TypeInv'
<1>1. /\ Runs(c, "task") /\ Taken(c)
      /\ calls' = [calls EXCEPT ![c] = Head(queue[c]).calls]
      /\ UNCHANGED <<stopped, waiting, ended, timerVars>>
  BY DEF RunTask
<1>2. c = worker /\ ~ended[c] /\ queue[c] # <<>> /\ Head(queue[c]) \in WorkerHandlers
  BY <1>1, NextHandler, Names
<1>3. TimersOK' /\ cur_timer_id' = cur_timer_id
  BY <1>1, TimersKept
<1>4. QueuesOK'
  BY <1>1, <1>2, <1>3, TakenKeeps
<1>5. /\ DOMAIN calls' = Threads /\ calls'[worker] \in Seq(WorkerCalls)
      /\ \A u \in {main, test} : calls'[u] = calls[u]
  <2>1. Head(queue[c]).calls \in Seq(WorkerCalls)
    BY <1>2 DEF WorkerHandlers
  <2>2. QED BY <1>1, <1>2, <2>1, Names DEF TypeInv, ThreadsOK
<1>6. ThreadsOK'
  BY <1>1, <1>2, <1>5, Names DEF TypeInv, ThreadsOK
<1>7. MainOK'
  BY <1>1, <1>3, <1>5, MainKept DEF TypeInv
<1>8. QED BY <1>3, <1>4, <1>6, <1>7 DEF TypeInv

LEMMA EndType ==
  ASSUME TypeInv, NEW c \in Contexts, End(c)
  PROVE  TypeInv'
<1>1. /\ calls[c] = <<>> /\ ~waiting[c] /\ stopped[c]
      /\ ended' = [ended EXCEPT ![c] = TRUE]
      /\ UNCHANGED <<queue, stopped, calls, waiting, timerVars>>
  BY DEF End, Idle
<1>2. TimersOK' /\ cur_timer_id' = cur_timer_id /\ QueuesOK'
  BY <1>1, TimersKept, QueuesKept
<1>3. /\ ended' \in [Contexts -> BOOLEAN]
      /\ \A d \in Contexts : ended[d] => ended'[d]
      /\ \A d \in Contexts : ended'[d] => ended[d] \/ d = c
  BY <1>1 DEF TypeInv, ThreadsOK
<1>4. MainOK'
  BY <1>1, <1>2, <1>3, MainKept DEF TypeInv
<1>5. Len(calls[c]) = 0
  BY <1>1
<1>6. ThreadsOK'
  BY <1>1, <1>3, <1>5 DEF TypeInv, ThreadsOK
<1>7. QED BY <1>2, <1>4, <1>6 DEF TypeInv

\* A handler of the timer that calls nobody.
LEMMA TimerHandlerKeeps ==
  ASSUME TypeInv, NEW op, Runs(test, op), Taken(test),
         UNCHANGED <<stopped, threadVars, cur_timer_id>>, TimersOK'
  PROVE  TypeInv'
<1>1. UNCHANGED <<calls, waiting, ended>>
  BY DEF threadVars
<1>2. QueuesOK'
  BY NextHandler, TakenKeeps, Names
<1>3. MainOK'
  BY <1>1, MainKept DEF TypeInv
<1>4. ThreadsOK'
  BY <1>1 DEF TypeInv, ThreadsOK
<1>5. QED BY <1>2, <1>3, <1>4 DEF TypeInv

LEMMA RunTimerStartType ==
  ASSUME TypeInv, RunTimerStart
  PROVE  TypeInv'
<1> DEFINE h == Head(queue[test])
<1>1. /\ Runs(test, "timer_start") /\ Taken(test)
      /\ timers' = [i \in DOMAIN timers \union {h.timer} |->
                      IF i = h.timer
                      THEN [task |-> h.task, interval |-> h.interval,
                            left |-> h.interval, armed |-> TRUE]
                      ELSE timers[i]]
      /\ UNCHANGED <<stopped, threadVars, cur_timer_id, fired, silenced>>
  BY DEF RunTimerStart
<1>2. h \in TestHandlers /\ h.timer \in 1..cur_timer_id /\ h.op = "timer_start"
  BY <1>1, NextHandler, Names
<1> HIDE DEF h
<1>3. h.task \in TimerTasks /\ h.interval \in Nat
  BY <1>2 DEF TestHandlers
<1>4. [task |-> h.task, interval |-> h.interval, left |-> h.interval, armed |-> TRUE]
        \in Entries
  BY <1>3 DEF Entries
<1>5. TimersOK'
  <2>1. ASSUME NEW i \in DOMAIN timers'
        PROVE  timers'[i] \in Entries /\ timers'[i].left <= timers'[i].interval
    <3>1. CASE i = h.timer
      BY <1>1, <1>3, <1>4, <3>1
    <3>2. CASE i # h.timer
      BY <1>1, <2>1, <3>2 DEF TypeInv, TimersOK
    <3>3. QED BY <3>1, <3>2
  <2>2. DOMAIN timers' \subseteq 1..cur_timer_id
    BY <1>1, <1>2 DEF TypeInv, TimersOK
  <2>3. QED BY <1>1, <2>1, <2>2 DEF TypeInv, TimersOK
<1>6. QED BY <1>1, <1>5, TimerHandlerKeeps

LEMMA RunTimerStopType ==
  ASSUME TypeInv, RunTimerStop
  PROVE  TypeInv'
<1>1. /\ Runs(test, "timer_stop") /\ Taken(test)
      /\ timers' = Erased(Head(queue[test]).timer)
      /\ silenced' = silenced \union {Head(queue[test]).timer}
      /\ UNCHANGED <<stopped, threadVars, cur_timer_id, fired>>
  BY DEF RunTimerStop
<1>2. Head(queue[test]).timer \in 1..cur_timer_id
  BY <1>1, NextHandler, Names
<1>3. TimersOK'
  BY <1>1, <1>2 DEF TypeInv, TimersOK, Erased
<1>4. QED BY <1>1, <1>3, TimerHandlerKeeps

\* What a timer runs.
LEMMA TimerTaskCalls ==
  ASSUME NEW task \in TimerTasks, NEW i \in Nat
  PROVE  Append(task, Reschedule(i)) \in Seq(TestCalls)
<1>1. /\ Sync(worker, <<>>) \in TestCalls /\ Async(worker, Responding) \in TestCalls
      /\ Reschedule(i) \in TestCalls
  BY DEF TestCalls, Sync, Async, Reschedule
<1>2. <<>> \in Seq(TestCalls)
  OBVIOUS
<1>3. Requesting \in Seq(TestCalls) /\ Publishing \in Seq(TestCalls)
  BY <1>1 DEF Requesting, Publishing
<1>4. task \in Seq(TestCalls)
  BY <1>2, <1>3 DEF TimerTasks
<1>5. QED BY <1>1, <1>4, Longer

LEMMA RunExpiredType ==
  ASSUME TypeInv, RunExpired
  PROVE  TypeInv'
<1> DEFINE i == Head(queue[test]).timer
<1>1. /\ Runs(test, "expired") /\ Taken(test)
      /\ \/ /\ i \in DOMAIN timers
            /\ calls' = [calls EXCEPT ![test] = Append(timers[i].task, Reschedule(i))]
            /\ fired' \in {fired, fired \union {i}}
         \/ UNCHANGED <<calls, fired>>
      /\ UNCHANGED <<stopped, waiting, ended, timers, cur_timer_id, silenced>>
  BY DEF RunExpired
<1>2. i \in 1..cur_timer_id /\ ~ended[test] /\ queue[test] # <<>> /\ test \in Contexts
  BY <1>1, NextHandler, Names
<1> HIDE DEF i
<1>3. i \in Nat
  BY <1>2
<1>4. TimersOK'
  BY <1>1, <1>2 DEF TypeInv, TimersOK
<1>5. QueuesOK'
  BY <1>1, <1>2, TakenKeeps
<1>6. /\ DOMAIN calls' = Threads /\ calls'[test] \in Seq(TestCalls)
      /\ \A u \in {main, worker} : calls'[u] = calls[u]
  <2>1. DOMAIN calls = Threads /\ calls[test] \in Seq(TestCalls)
    BY DEF TypeInv, ThreadsOK
  <2>2. CASE /\ i \in DOMAIN timers
             /\ calls' = [calls EXCEPT ![test] = Append(timers[i].task, Reschedule(i))]
    <3>1. timers[i].task \in TimerTasks
      BY <2>2 DEF TypeInv, TimersOK, Entries
    <3>2. Append(timers[i].task, Reschedule(i)) \in Seq(TestCalls)
      BY <1>3, <3>1, TimerTaskCalls
    <3>3. QED BY <2>1, <2>2, <3>2, Names
  <2>3. QED BY <1>1, <2>1, <2>2
<1>7. ThreadsOK'
  BY <1>1, <1>2, <1>6, Names DEF TypeInv, ThreadsOK
<1>8. MainOK'
  BY <1>1, <1>6, MainKept DEF TypeInv
<1>9. QED BY <1>4, <1>5, <1>7, <1>8 DEF TypeInv

\* A timer is armed again or erased, and the others are kept.
LEMMA RearmedOK ==
  ASSUME TypeInv, NEW i
  PROVE  /\ DOMAIN Rearmed(i) \subseteq DOMAIN timers
         /\ DOMAIN timers \subseteq DOMAIN Rearmed(i) \union {i}
         /\ \A j \in DOMAIN Rearmed(i) : Rearmed(i)[j] \in Entries
              /\ Rearmed(i)[j].left <= Rearmed(i)[j].interval
              /\ Rearmed(i)[j].interval = timers[j].interval
         /\ \A j \in DOMAIN Rearmed(i) \ {i} : Rearmed(i)[j] = timers[j]
         /\ i \in DOMAIN Rearmed(i) =>
              Rearmed(i)[i].armed /\ Rearmed(i)[i].interval # 0
<1>1. \A j \in DOMAIN timers : timers[j] \in Entries /\ timers[j].left <= timers[j].interval
  BY DEF TypeInv, TimersOK
<1>2. CASE timers[i].interval = 0
  BY <1>1, <1>2 DEF Rearmed, Erased
<1>3. CASE timers[i].interval # 0
  <2> DEFINE e == [timers[i] EXCEPT !.left = timers[i].interval, !.armed = TRUE]
  <2>1. i \in DOMAIN timers =>
          /\ e \in Entries /\ e.left = e.interval /\ e.armed
          /\ e.interval = timers[i].interval /\ e.interval \in Nat
    BY <1>1 DEF Entries
  <2>2. Rearmed(i) = [timers EXCEPT ![i] = e]
    BY <1>3 DEF Rearmed
  <2> HIDE DEF e
  <2>3. QED BY <1>1, <1>3, <2>1, <2>2
<1>4. QED BY <1>2, <1>3

LEMMA ReschedulesType ==
  ASSUME TypeInv, Reschedules
  PROVE  TypeInv'
<1>1. /\ Calls(test, "reschedule") /\ Continue(test, <<>>)
      /\ timers' = Rearmed(Call(test).timer)
      /\ UNCHANGED <<queue, stopped, waiting, ended, cur_timer_id, fired, silenced>>
  BY DEF Reschedules
<1>2. TimersOK'
  <2>1. /\ DOMAIN timers' \subseteq DOMAIN timers
        /\ \A j \in DOMAIN timers' : timers'[j] \in Entries
             /\ timers'[j].left <= timers'[j].interval
    BY <1>1, RearmedOK
  <2>2. QED BY <1>1, <2>1 DEF TypeInv, TimersOK
<1>3. QueuesOK'
  BY <1>1, QueuesKept
<1>4. ThreadsOK'
  BY <1>1, CallKeeps, Names DEF TypeInv, ThreadsOK
<1>5. MainOK'
  BY <1>1, OtherCallKeeps, Names
<1>6. QED BY <1>2, <1>3, <1>4, <1>5 DEF TypeInv

LEMMA ExpireType ==
  ASSUME TypeInv, NEW i \in TimerIds, Expire(i)
  PROVE  TypeInv'
<1> DEFINE h == [op |-> "expired", timer |-> i]
<1>1. /\ i \in DOMAIN timers /\ Posted(test, h)
      /\ timers' = [timers EXCEPT ![i] = [timers[i] EXCEPT !.armed = FALSE]]
      /\ UNCHANGED <<stopped, calls, waiting, ended, cur_timer_id, fired, silenced>>
  BY DEF Expire, TimerContext, threadVars
<1>2. TimersOK /\ i \in 1..cur_timer_id /\ cur_timer_id \in Nat
  BY <1>1 DEF TypeInv, TimersOK
<1>3. TimersOK'
  BY <1>1, <1>2 DEF TimersOK, Entries
<1>4. QueuesOK'
  <2>1. h \in TestHandlers /\ h.timer \in 1..cur_timer_id'
    BY <1>1, <1>2 DEF TestHandlers
  <2>2. cur_timer_id' \in Nat /\ cur_timer_id <= cur_timer_id'
    BY <1>1, <1>2
  <2> HIDE DEF h
  <2>3. QED BY <1>1, <2>1, <2>2, PostedKeeps, Names
<1>5. ThreadsOK'
  BY <1>1 DEF TypeInv, ThreadsOK
<1>6. MainOK'
  BY <1>1, MainKept DEF TypeInv
<1>7. QED BY <1>3, <1>4, <1>5, <1>6 DEF TypeInv

LEMMA SecondType ==
  ASSUME TypeInv, Second
  PROVE  TypeInv'
<1>1. /\ timers' = [i \in DOMAIN timers |->
                      [timers[i] EXCEPT !.left = IF @ = 0 THEN 0 ELSE @ - 1]]
      /\ UNCHANGED <<queue, stopped, calls, waiting, ended, cur_timer_id, fired, silenced>>
  BY DEF Second, threadVars
<1>2. ASSUME NEW i \in DOMAIN timers
      PROVE  timers'[i] \in Entries /\ timers'[i].left <= timers'[i].interval
  <2>1. timers[i] \in Entries /\ timers[i].left <= timers[i].interval
    BY DEF TypeInv, TimersOK
  <2>2. QED BY <1>1, <2>1 DEF Entries
<1>3. TimersOK'
  BY <1>1, <1>2 DEF TypeInv, TimersOK
<1>4. QueuesOK'
  BY <1>1, QueuesKept
<1>5. ThreadsOK'
  BY <1>1 DEF TypeInv, ThreadsOK
<1>6. MainOK'
  BY <1>1, MainKept DEF TypeInv
<1>7. QED BY <1>3, <1>4, <1>5, <1>6 DEF TypeInv

LEMMA InitType ==
  ASSUME Init
  PROVE  TypeInv
<1>1. <<>> \in Seq(WorkerCalls) /\ <<>> \in Seq(TestCalls) /\ Len(<<>>) = 0
      /\ <<>> \in Seq(WorkerHandlers) /\ <<>> \in Seq(TestHandlers)
  OBVIOUS
<1>2. /\ calls[main] = Setup /\ calls[worker] = <<>> /\ calls[test] = <<>>
      /\ DOMAIN calls = Threads
      /\ queue[worker] = <<>> /\ queue[test] = <<>> /\ DOMAIN queue = Contexts
  BY Names DEF Init
<1>3. SettingUp(1)
  <2>1. From(Setup, 1) = Setup
    BY SetupParts, FromEnd
  <2>2. QED BY <1>2, <2>1, Names DEF Init, SettingUp, Unstopped
<1>4. ThreadsOK
  BY <1>1, <1>2, Names DEF Init, ThreadsOK
<1>5. QueuesOK
  BY <1>1, <1>2, Names DEF Init, QueuesOK
<1>6. TimersOK
  BY Names DEF Init, TimersOK
<1>7. QED BY <1>3, <1>4, <1>5, <1>6 DEF TypeInv, MainOK

LEMMA NextType ==
  ASSUME TypeInv, [Next]_vars
  PROVE  TypeInv'
<1>1. ASSUME NEW t \in Threads, MakeCall(t) PROVE TypeInv'
  BY <1>1, MakeAsyncType, MakeSyncType, SetsValueType, MakeStartTimerType,
     MakeStopTimerType, MakeStopType, MakeJoinType DEF MakeCall
<1>2. ASSUME NEW c \in Contexts, RunHandler(c) PROVE TypeInv'
  BY <1>2, RunTaskType, EndType, RunTimerStartType, RunTimerStopType,
     RunExpiredType, ReschedulesType DEF RunHandler
<1>3. CASE UNCHANGED vars
  BY <1>3 DEF vars, threadVars, timerVars, TypeInv, MainOK, SettingUp, UsingTimer,
     ShuttingDown, Unstopped, ThreadsOK, QueuesOK, TimersOK
<1>4. QED BY <1>1, <1>2, <1>3, ExpireType, UsesTimerType, SignalType, SecondType
      DEF Next

LEMMA Typed == Spec => []TypeInv
<1>1. Init => TypeInv
  BY InitType
<1>2. TypeInv /\ [Next]_vars => TypeInv'
  BY NextType
<1>3. QED BY <1>1, <1>2, PTL DEF Spec

(* Every io_context runs tasks only, and that of the test thread those of  *)
(* the timer also; a wait never has more left than the interval; and no    *)
(* timer has an id that start_timer did not give.                          *)
THEOREM ContextsTypeOK == Spec => []TypeOK
<1>1. TypeInv => TypeOK
  <2> SUFFICES ASSUME TypeInv PROVE TypeOK
    OBVIOUS
  <2>1. ASSUME NEW c \in Contexts, NEW n \in 1..Len(queue[c])
        PROVE  \/ queue[c][n].op = "task"
               \/ c = test /\ queue[c][n].op \in {"timer_start", "timer_stop", "expired"}
    <3>1. CASE c = worker
      <4>1. queue[c][n] \in WorkerHandlers
        BY <3>1 DEF TypeInv, QueuesOK
      <4>2. QED BY <4>1 DEF WorkerHandlers
    <3>2. CASE c = test
      <4>1. queue[c][n] \in TestHandlers
        BY <3>2 DEF TypeInv, QueuesOK
      <4>2. QED BY <3>2, <4>1 DEF TestHandlers
    <3>3. QED BY <3>1, <3>2, Names
  <2>2. ASSUME NEW i \in DOMAIN timers
        PROVE  timers[i].left \in 0..timers[i].interval /\ timers[i].armed \in BOOLEAN
    BY DEF TypeInv, TimersOK, Entries
  <2>3. QED BY <2>1, <2>2 DEF TypeInv, ThreadsOK, TimersOK, TypeOK
<1>2. QED BY <1>1, Typed, PTL

-----------------------------------------------------------------------------
(* Who waits is owed a set_value by the worker, which has still to run:    *)
(* it is making the calls of that task, or the task is queued and the      *)
(* worker was not stopped.                                                 *)
OwedTo(t) ==
    /\ ~ended[worker]
    /\ \/ Contains(calls[worker], SetValue(t))
       \/ /\ ~stopped[worker]
          /\ \E n \in 1..Len(queue[worker]) :
               Contains(queue[worker][n].calls, SetValue(t))

Owed == \A t \in Threads : waiting[t] => OwedTo(t)

\* What the worker is left alone with stays.
LEMMA OwedKept ==
  ASSUME Owed, \A t \in Threads : waiting'[t] => waiting[t],
         queue'[worker] = queue[worker], calls'[worker] = calls[worker],
         stopped'[worker] = stopped[worker], ended'[worker] = ended[worker]
  PROVE  Owed'
  BY DEF Owed, OwedTo

LEMMA WorkerState ==
  ASSUME TypeInv
  PROVE  /\ queue[worker] \in Seq(WorkerHandlers) /\ calls[worker] \in Seq(WorkerCalls)
         /\ DOMAIN queue = Contexts /\ DOMAIN calls = Threads
         /\ waiting \in [Threads -> BOOLEAN] /\ ~waiting[worker]
         /\ stopped \in [Contexts -> BOOLEAN] /\ ended \in [Contexts -> BOOLEAN]
         /\ ended[worker] => stopped[worker]
         /\ \A c \in Contexts : ended[c] => calls[c] = <<>> /\ ~waiting[c]
<1>1. \A c \in Contexts : ended[c] => Len(calls[c]) = 0
  BY DEF TypeInv, ThreadsOK
<1>2. calls[worker] \in Seq(WorkerCalls) /\ calls[test] \in Seq(TestCalls)
  BY DEF TypeInv, ThreadsOK
<1>3. \A c \in Contexts : Len(calls[c]) = 0 => calls[c] = <<>>
  BY <1>2, Names
<1>4. QED BY <1>1, <1>3, Names DEF TypeInv, ThreadsOK, QueuesOK

\* The worker is stopped after the test thread is joined.
LEMMA WorkerOutlives ==
  ASSUME TypeInv, stopped[worker]
  PROVE  ended[test] /\ stopped[test] /\ \E k \in 4..5 : ShuttingDown(k)
<1>1. ASSUME NEW k \in 1..6, SettingUp(k) PROVE FALSE
  BY <1>1 DEF SettingUp, Unstopped
<1>2. ASSUME UsingTimer PROVE FALSE
  BY <1>2 DEF UsingTimer, Unstopped
<1>3. PICK k \in 1..5 : ShuttingDown(k)
  BY <1>1, <1>2 DEF TypeInv, MainOK
<1>4. k \in 4..5 /\ k > 1 /\ k > 2
  BY <1>3 DEF ShuttingDown
<1>5. QED BY <1>3, <1>4 DEF ShuttingDown

\* More is queued for the worker.
LEMMA OwedPosted ==
  ASSUME TypeInv, Owed, NEW h \in WorkerHandlers, Posted(worker, h),
         calls'[worker] = calls[worker], UNCHANGED <<stopped, ended>>,
         NEW t \in Threads, waiting[t]
  PROVE  OwedTo(t)'
<1>1. /\ queue'[worker] = Append(queue[worker], h)
      /\ queue[worker] \in Seq(WorkerHandlers)
  BY WorkerState, Names DEF Posted
<1>2. /\ Len(queue[worker]) \in Nat /\ Len(queue'[worker]) = Len(queue[worker]) + 1
      /\ \A n \in 1..Len(queue[worker]) : queue'[worker][n] = queue[worker][n]
  BY <1>1, Longer
<1>3. OwedTo(t)
  BY DEF Owed
<1>4. ASSUME NEW n \in 1..Len(queue[worker]),
             Contains(queue[worker][n].calls, SetValue(t))
      PROVE  \E m \in 1..Len(queue'[worker]) :
                Contains(queue'[worker][m].calls, SetValue(t))
  <2>1. n \in 1..Len(queue'[worker]) /\ queue'[worker][n] = queue[worker][n]
    BY <1>2
  <2>2. QED BY <1>4, <2>1
<1>5. QED BY <1>3, <1>4 DEF OwedTo

\* The worker makes a call that gives t no value.
LEMMA OwedContinues ==
  ASSUME TypeInv, Owed, NEW op, Calls(worker, op), Continue(worker, <<>>),
         UNCHANGED <<queue, stopped, ended>>,
         NEW t \in Threads, waiting[t], Call(worker) # SetValue(t)
  PROVE  OwedTo(t)'
<1>1. /\ worker \in Threads /\ calls[worker] # <<>>
      /\ calls'[worker] = Tail(calls[worker]) /\ Call(worker) = calls[worker][1]
  BY Names, NextCall, Continues
<1>2. /\ Len(calls[worker]) \in Nat /\ Len(Tail(calls[worker])) = Len(calls[worker]) - 1
      /\ \A m \in 1..(Len(calls[worker]) - 1) :
           Tail(calls[worker])[m] = calls[worker][m + 1]
  BY <1>1, WorkerState, Shorter
<1>3. ASSUME Contains(calls[worker], SetValue(t))
      PROVE  Contains(calls'[worker], SetValue(t))
  <2>1. PICK n \in 1..Len(calls[worker]) : calls[worker][n] = SetValue(t)
    BY <1>3 DEF Contains
  <2>2. n # 1
    BY <1>1, <2>1
  <2>3. n - 1 \in 1..(Len(calls[worker]) - 1) /\ (n - 1) + 1 = n
    BY <1>2, <2>1, <2>2
  <2>4. n - 1 \in 1..Len(calls'[worker]) /\ calls'[worker][n - 1] = SetValue(t)
    BY <1>1, <1>2, <2>1, <2>3
  <2>5. QED BY <2>4 DEF Contains
<1>4. OwedTo(t)
  BY DEF Owed
<1>5. QED BY <1>3, <1>4 DEF OwedTo

LEMMA MakeAsyncOwed ==
  ASSUME TypeInv, Owed, NEW t \in Threads, MakeAsync(t)
  PROVE  Owed'
<1>1. /\ Calls(t, "async") /\ Continue(t, <<>>)
      /\ Posted(Call(t).context, Task(Call(t).task))
      /\ UNCHANGED <<stopped, waiting, ended, timerVars>>
  BY DEF MakeAsync
<1>2. /\ Call(t).context = worker /\ t # worker /\ Call(t).task \in {<<>>, Responding}
      /\ Task(Call(t).task) \in WorkerHandlers
  BY <1>1, CallsAre, WorkerTasks
<1>3. calls'[worker] = calls[worker]
  BY <1>1, <1>2, Continues, Names
<1>4. QED BY <1>1, <1>2, <1>3, OwedPosted DEF Owed

LEMMA MakeSyncOwed ==
  ASSUME TypeInv, Owed, NEW t \in Threads, MakeSync(t)
  PROVE  Owed'
<1>1. /\ Calls(t, "sync") /\ Continue(t, <<>>)
      /\ UNCHANGED <<stopped, ended, timerVars>>
      /\ \/ t = worker /\ UNCHANGED <<queue, waiting>>
         \/ /\ t \in {main, test}
            /\ Posted(worker, Task(Append(<<>>, SetValue(t))))
            /\ waiting' = [waiting EXCEPT ![t] = TRUE]
  BY SyncCases
<1>2. CASE t = worker /\ UNCHANGED <<queue, waiting>>
  <2>1. \A u \in Threads : Call(worker) # SetValue(u)
    BY <1>1, <1>2, NextCall DEF SetValue
  <2>2. QED BY <1>1, <1>2, <2>1, OwedContinues DEF Owed
<1>3. CASE /\ t \in {main, test}
           /\ Posted(worker, Task(Append(<<>>, SetValue(t))))
           /\ waiting' = [waiting EXCEPT ![t] = TRUE]
  <2> DEFINE h == Task(Append(<<>>, SetValue(t)))
  <2>1. h \in WorkerHandlers
    BY <1>3, WorkerTasks
  <2>2. calls'[worker] = calls[worker]
    BY <1>1, <1>3, Continues, Names
  <2>3. ~stopped[worker] /\ ~ended[worker]
    <3>1. ~stopped[worker]
      <4>1. CASE t = main
        BY <1>1, <4>1, MainCalling DEF SettingUp, Unstopped
      <4>2. CASE t = test
        BY <1>1, <4>2, NextCall, WorkerOutlives, WorkerState, Names
      <4>3. QED BY <1>3, <4>1, <4>2
    <3>2. QED BY <3>1, WorkerState
  <2>4. OwedTo(t)'
    <3>1. /\ queue'[worker] = Append(queue[worker], h)
          /\ queue[worker] \in Seq(WorkerHandlers)
      BY <1>3, WorkerState, Names DEF Posted
    <3> HIDE DEF h
    <3>2. /\ Len(queue[worker]) \in Nat /\ Len(queue'[worker]) = Len(queue[worker]) + 1
          /\ queue'[worker][Len(queue[worker]) + 1] = h
      BY <2>1, <3>1, Longer
    <3>3. Contains(h.calls, SetValue(t))
      <4>1. h.calls = Append(<<>>, SetValue(t))
        BY DEF h, Task
      <4>2. Len(Append(<<>>, SetValue(t))) = 1 /\ Append(<<>>, SetValue(t))[1] = SetValue(t)
        OBVIOUS
      <4>3. QED BY <4>1, <4>2 DEF Contains
    <3>4. Len(queue[worker]) + 1 \in 1..Len(queue'[worker])
      BY <3>2
    <3>5. QED BY <1>1, <2>3, <3>2, <3>3, <3>4 DEF OwedTo
  <2>5. ASSUME NEW u \in Threads, u # t, waiting'[u] PROVE OwedTo(u)'
    <3>1. waiting[u]
      BY <1>3, <2>5, WorkerState
    <3> HIDE DEF h
    <3>2. Posted(worker, h) /\ UNCHANGED <<stopped, ended>>
      BY <1>1, <1>3 DEF h
    <3>3. QED BY <2>1, <2>2, <3>1, <3>2, OwedPosted
  <2>6. QED BY <2>4, <2>5 DEF Owed
<1>4. QED BY <1>1, <1>2, <1>3

LEMMA SetsValueOwed ==
  ASSUME TypeInv, Owed, NEW t \in Threads, SetsValue(t)
  PROVE  Owed'
<1>1. /\ Calls(t, "set_value") /\ Continue(t, <<>>)
      /\ waiting' = [waiting EXCEPT ![Call(t).thread] = FALSE]
      /\ UNCHANGED <<queue, stopped, ended, timerVars>>
  BY DEF SetsValue
<1>2. t = worker /\ Call(t).thread \in {main, test}
  BY <1>1, CallsAre
<1>3. ASSUME NEW u \in Threads, waiting'[u] PROVE OwedTo(u)'
  <2>1. waiting[u] /\ u # Call(t).thread
    BY <1>1, <1>2, <1>3, WorkerState, Names
  <2>2. Call(worker) # SetValue(u)
    BY <1>2, <2>1 DEF SetValue
  <2>3. QED BY <1>1, <1>2, <2>1, <2>2, OwedContinues
<1>4. QED BY <1>3 DEF Owed

\* Nobody waits when main stops the worker.
LEMMA MakeStopOwed ==
  ASSUME TypeInv, Owed, NEW t \in Threads, MakeStop(t)
  PROVE  Owed'
<1>1. /\ Calls(t, "stop") /\ Continue(t, <<>>)
      /\ stopped' = [stopped EXCEPT ![Call(t).context] = TRUE]
      /\ UNCHANGED <<queue, waiting, ended, timerVars>>
  BY DEF MakeStop
<1>2. t = main /\ ~waiting[main]
  BY <1>1, CallsAre, NextCall
<1>3. PICK k \in {1, 3} : /\ ShuttingDown(k) /\ calls'[main] = From(Shutdown, k + 1)
                          /\ Call(main).context = IF k = 1 THEN test ELSE worker
  BY <1>1, <1>2, MainCalling
<1>4. CASE k = 1
  <2>1. stopped'[worker] = stopped[worker] /\ calls'[worker] = calls[worker]
    BY <1>1, <1>2, <1>3, <1>4, WorkerState, Continues, Names
  <2>2. QED BY <1>1, <2>1, OwedKept
<1>5. CASE k = 3
  <2>1. ended[test]
    BY <1>3, <1>5 DEF ShuttingDown
  <2>2. \A u \in Threads : ~waiting[u]
    BY <1>2, <2>1, WorkerState, Names
  <2>3. QED BY <1>1, <2>2 DEF Owed
<1>6. QED BY <1>4, <1>5

\* The calls that leave the worker alone.
LEMMA OtherCallOwed ==
  ASSUME TypeInv, Owed, NEW t \in Threads,
         MakeStartTimer(t) \/ MakeStopTimer(t) \/ MakeJoin(t)
  PROVE  Owed'
<1>1. PICK op \in {"start_timer", "stop_timer", "join"} :
        Calls(t, op) /\ Continue(t, <<>>) /\ UNCHANGED <<stopped, waiting, ended>>
  BY DEF MakeStartTimer, MakeStopTimer, MakeJoin
<1>2. queue'[worker] = queue[worker]
  BY WorkerState, Names DEF MakeStartTimer, MakeStopTimer, MakeJoin, Posted, TimerContext
<1>3. t = main
  BY <1>1, CallsAre
<1>4. calls'[worker] = calls[worker]
  BY <1>1, <1>3, Continues, Names
<1>5. QED BY <1>1, <1>2, <1>4, OwedKept

LEMMA RunTaskOwed ==
  ASSUME TypeInv, Owed, NEW c \in Contexts, RunTask(c)
  PROVE  Owed'
<1>1. /\ Runs(c, "task") /\ Taken(c)
      /\ calls' = [calls EXCEPT ![c] = Head(queue[c]).calls]
      /\ UNCHANGED <<stopped, waiting, ended, timerVars>>
  BY DEF RunTask
<1>2. c = worker /\ queue[worker] # <<>> /\ calls[worker] = <<>>
  BY <1>1, NextHandler, Names
<1>3. /\ queue'[worker] = Tail(queue[worker])
      /\ calls'[worker] = Head(queue[worker]).calls
  BY <1>1, <1>2, WorkerState, Names DEF Taken
<1>4. /\ Len(queue[worker]) \in Nat /\ Head(queue[worker]) = queue[worker][1]
      /\ Len(queue'[worker]) = Len(queue[worker]) - 1
      /\ \A m \in 1..(Len(queue[worker]) - 1) : queue'[worker][m] = queue[worker][m + 1]
  BY <1>2, <1>3, WorkerState, Shorter
<1>5. ASSUME NEW t \in Threads, waiting[t] PROVE OwedTo(t)'
  <2>1. OwedTo(t)
    BY <1>5 DEF Owed
  <2>2. ~Contains(calls[worker], SetValue(t))
    <3>1. Len(calls[worker]) = 0
      BY <1>2
    <3>2. QED BY <3>1 DEF Contains
  <2>3. PICK n \in 1..Len(queue[worker]) : Contains(queue[worker][n].calls, SetValue(t))
    BY <2>1, <2>2 DEF OwedTo
  <2>4. CASE n = 1
    BY <1>1, <1>3, <1>4, <2>1, <2>3, <2>4 DEF OwedTo
  <2>5. CASE n # 1
    <3>1. n - 1 \in 1..(Len(queue[worker]) - 1) /\ (n - 1) + 1 = n
      BY <1>4, <2>5
    <3>2. n - 1 \in 1..Len(queue'[worker]) /\ queue'[worker][n - 1] = queue[worker][n]
      BY <1>4, <3>1
    <3>3. QED BY <1>1, <2>1, <2>2, <2>3, <3>2 DEF OwedTo
  <2>6. QED BY <2>4, <2>5
<1>6. QED BY <1>1, <1>5 DEF Owed

\* A stopped worker ends when it has made the calls of its last task.
LEMMA EndOwed ==
  ASSUME TypeInv, Owed, NEW c \in Contexts, End(c)
  PROVE  Owed'
<1>1. /\ calls[c] = <<>> /\ stopped[c] /\ ended' = [ended EXCEPT ![c] = TRUE]
      /\ UNCHANGED <<queue, stopped, calls, waiting, timerVars>>
  BY DEF End, Idle
<1>2. CASE c = worker
  <2>1. \A t \in Threads : ~Contains(calls[worker], SetValue(t))
    <3>1. Len(calls[worker]) = 0
      BY <1>1, <1>2
    <3>2. QED BY <3>1 DEF Contains
  <2>2. QED BY <1>1, <1>2, <2>1 DEF Owed, OwedTo
<1>3. CASE c # worker
  <2>1. ended'[worker] = ended[worker]
    BY <1>1, <1>3, WorkerState, Names
  <2>2. QED BY <1>1, <2>1, OwedKept
<1>4. QED BY <1>2, <1>3

\* The steps of the test timer, and what main uses, leave the worker alone.
LEMMA OtherStepOwed ==
  ASSUME TypeInv, Owed,
         \/ RunTimerStart \/ RunTimerStop \/ RunExpired \/ Reschedules
         \/ UsesTimer \/ Signal \/ Second \/ \E i \in TimerIds : Expire(i)
         \/ UNCHANGED vars
  PROVE  Owed'
<1>1. UNCHANGED <<stopped, waiting, ended>>
  BY DEF RunTimerStart, RunTimerStop, RunExpired, Reschedules, UsesTimer, Signal,
     Second, Expire, vars, threadVars
<1>2. queue'[worker] = queue[worker]
  BY WorkerState, Names DEF RunTimerStart, RunTimerStop, RunExpired, Reschedules,
     UsesTimer, Signal, Second, Expire, vars, Posted, Taken, TimerContext
<1>3. calls'[worker] = calls[worker]
  BY WorkerState, Names DEF RunTimerStart, RunTimerStop, RunExpired, Reschedules,
     Continue, UsesTimer, Signal, Second, Expire, vars, threadVars
<1>4. QED BY <1>1, <1>2, <1>3, OwedKept

LEMMA NextOwed ==
  ASSUME TypeInv, Owed, [Next]_vars
  PROVE  Owed'
<1>1. ASSUME NEW t \in Threads, MakeCall(t) PROVE Owed'
  BY <1>1, MakeAsyncOwed, MakeSyncOwed, SetsValueOwed, MakeStopOwed, OtherCallOwed
     DEF MakeCall
<1>2. ASSUME NEW c \in Contexts, RunHandler(c) PROVE Owed'
  BY <1>2, RunTaskOwed, EndOwed, OtherStepOwed DEF RunHandler
<1>3. QED BY <1>1, <1>2, OtherStepOwed DEF Next

(* A thread that waits in run_task_in_the_iocontext_sync is not forgotten: *)
(* its task is queued or being run in an io_context whose thread goes on.  *)
(* It rests on the order in which main stops and joins the two threads.    *)
THEOREM ContextsLoseNoCall == Spec => []NoCallIsLost
<1>1. Init => Owed
  BY DEF Init, Owed
<1>2. TypeInv /\ Owed /\ [Next]_vars => Owed'
  BY NextOwed
<1>3. TypeInv /\ Owed => NoCallIsLost
  <2> SUFFICES ASSUME TypeInv, Owed, NEW t \in Threads, waiting[t]
               PROVE  \E c \in Contexts \ {t} :
                        /\ ~ended[c]
                        /\ \/ Contains(calls[c], SetValue(t))
                           \/ /\ ~stopped[c]
                              /\ \E n \in 1..Len(queue[c]) :
                                   /\ queue[c][n].op = "task"
                                   /\ Contains(queue[c][n].calls, SetValue(t))
    BY DEF NoCallIsLost
  <2>1. worker \in Contexts \ {t}
    BY WorkerState, Names
  <2>2. \A n \in 1..Len(queue[worker]) : queue[worker][n].op = "task"
    <3>1. \A n \in 1..Len(queue[worker]) : queue[worker][n] \in WorkerHandlers
      BY WorkerState
    <3>2. QED BY <3>1 DEF WorkerHandlers
  <2>3. QED BY <2>1, <2>2 DEF Owed, OwedTo
<1>4. QED BY <1>1, <1>2, <1>3, Typed, PTL DEF Spec

-----------------------------------------------------------------------------
(* The timer.  An id that start_timer gave is new until its handler runs,  *)
(* which is before that of any stop_timer: the queue is in order.          *)
Fresh(i) == i \notin DOMAIN timers /\ i \notin fired /\ i \notin silenced

StartsFresh ==
    \A n \in 1..Len(queue[test]) :
      queue[test][n].op = "timer_start" => Fresh(queue[test][n].timer)

StartsFirst ==
    \A m, n \in 1..Len(queue[test]) :
      /\ queue[test][m].op \in {"timer_start", "timer_stop"}
      /\ queue[test][n].op = "timer_start"
      /\ queue[test][m].timer = queue[test][n].timer
      => n <= m

\* A task is followed by one reschedule_timer, of a timer that is still there.
TaskEnds ==
    \A n \in 1..Len(calls[test]) :
      calls[test][n].op = "reschedule" => n = Len(calls[test])

TaskHasTimer == \A i \in Nat : InTask(i) => i \in DOMAIN timers

SilencedGone == silenced \intersect DOMAIN timers = {}

FiredInTask ==
    \A i \in fired \intersect DOMAIN timers : InTask(i) /\ timers[i].interval = 0

TimerInv ==
    /\ StartsFresh /\ StartsFirst /\ TaskEnds /\ TaskHasTimer
    /\ SilencedGone /\ FiredInTask /\ TimersGoOn

LEMMA TestState ==
  ASSUME TypeInv
  PROVE  /\ queue[test] \in Seq(TestHandlers) /\ calls[test] \in Seq(TestCalls)
         /\ Len(queue[test]) \in Nat /\ Len(calls[test]) \in Nat
         /\ DOMAIN queue = Contexts /\ DOMAIN calls = Threads
         /\ cur_timer_id \in Nat /\ DOMAIN timers \subseteq 1..cur_timer_id
         /\ fired \subseteq 1..cur_timer_id /\ silenced \subseteq 1..cur_timer_id
         /\ \A n \in 1..Len(queue[test]) : queue[test][n].timer \in 1..cur_timer_id
<1>1. queue[test] \in Seq(TestHandlers) /\ calls[test] \in Seq(TestCalls)
  BY DEF TypeInv, QueuesOK, ThreadsOK
<1>2. Len(queue[test]) \in Nat /\ Len(calls[test]) \in Nat
  BY <1>1
<1>3. QED BY <1>1, <1>2 DEF TypeInv, QueuesOK, ThreadsOK, TimersOK

\* What the test thread is left alone with stays.
LEMMA TimerInvKept ==
  ASSUME TimerInv, queue'[test] = queue[test], calls'[test] = calls[test],
         UNCHANGED <<timers, fired, silenced>>
  PROVE  TimerInv'
<1>1. \A i : InTask(i)' <=> InTask(i)
  BY DEF InTask
<1>2. TimersGoOn'
  BY <1>1 DEF TimerInv, TimersGoOn
<1>3. QED BY <1>1, <1>2 DEF TimerInv, StartsFresh, Fresh, StartsFirst, TaskEnds,
          TaskHasTimer, SilencedGone, FiredInTask

\* The test thread makes a call.
LEMMA TaskGoesOn ==
  ASSUME TypeInv, NEW op, Calls(test, op), Continue(test, <<>>), TaskEnds
  PROVE  /\ TaskEnds'
         /\ \A i : InTask(i)' => InTask(i)
         /\ \A i : InTask(i) /\ Call(test) # Reschedule(i) => InTask(i)'
         /\ op = "reschedule" => \A i : ~InTask(i)'
<1>1. /\ test \in Threads /\ calls[test] # <<>> /\ Call(test).op = op
      /\ calls'[test] = Tail(calls[test]) /\ Call(test) = calls[test][1]
  BY Names, NextCall, Continues
<1>2. /\ Len(calls[test]) \in Nat \ {0} /\ Len(calls'[test]) = Len(calls[test]) - 1
      /\ \A m \in 1..(Len(calls[test]) - 1) : calls'[test][m] = calls[test][m + 1]
  BY <1>1, TestState, Shorter
<1>3. TaskEnds'
  <2>1. ASSUME NEW n \in 1..Len(calls'[test]), calls'[test][n].op = "reschedule"
        PROVE  n = Len(calls'[test])
    <3>1. n \in 1..(Len(calls[test]) - 1) /\ n + 1 \in 1..Len(calls[test])
      BY <1>2
    <3>2. n + 1 = Len(calls[test])
      BY <1>2, <2>1, <3>1 DEF TaskEnds
    <3>3. QED BY <1>2, <3>2
  <2>2. QED BY <2>1 DEF TaskEnds
<1>4. ASSUME NEW i, InTask(i)' PROVE InTask(i)
  <2>1. PICK n \in 1..Len(calls'[test]) : calls'[test][n] = Reschedule(i)
    BY <1>4 DEF InTask, Contains, Reschedule
  <2>2. n \in 1..(Len(calls[test]) - 1) /\ n + 1 \in 1..Len(calls[test])
    BY <1>2
  <2>3. calls[test][n + 1] = Reschedule(i)
    BY <1>2, <2>1, <2>2
  <2>4. QED BY <2>2, <2>3 DEF InTask, Contains
<1>5. ASSUME NEW i, InTask(i), Call(test) # Reschedule(i) PROVE InTask(i)'
  <2>1. PICK n \in 1..Len(calls[test]) : calls[test][n] = Reschedule(i)
    BY <1>5 DEF InTask, Contains
  <2>2. n # 1
    BY <1>1, <1>5, <2>1
  <2>3. n - 1 \in 1..(Len(calls[test]) - 1) /\ (n - 1) + 1 = n
    BY <1>2, <2>2
  <2>4. n - 1 \in 1..Len(calls'[test]) /\ calls'[test][n - 1] = Reschedule(i)
    BY <1>2, <2>1, <2>3
  <2>5. QED BY <2>4 DEF InTask, Contains, Reschedule
<1>6. ASSUME NEW i, op = "reschedule" PROVE ~InTask(i)'
  <2>1. 1 \in 1..Len(calls[test])
    BY <1>2
  <2>2. 1 = Len(calls[test])
    BY <1>1, <1>6, <2>1 DEF TaskEnds
  <2>3. Len(calls'[test]) = 0
    BY <1>2, <2>2
  <2>4. QED BY <2>3 DEF InTask, Contains
<1>7. QED BY <1>3, <1>4, <1>5, <1>6

LEMMA TestCallKeeps ==
  ASSUME TypeInv, TimerInv, NEW op \in {"async", "sync"}, Calls(test, op),
         Continue(test, <<>>), queue'[test] = queue[test],
         UNCHANGED <<timers, fired, silenced>>
  PROVE  TimerInv'
<1>1. Call(test).op = op /\ TaskEnds
  BY NextCall, Names DEF TimerInv
<1>2. /\ TaskEnds'
      /\ \A i : InTask(i)' => InTask(i)
      /\ \A i : InTask(i) /\ Call(test) # Reschedule(i) => InTask(i)'
  BY <1>1, TaskGoesOn
<1>3. \A i : InTask(i)' <=> InTask(i)
  BY <1>1, <1>2 DEF Reschedule
<1>4. TimersGoOn'
  BY <1>3 DEF TimerInv, TimersGoOn
<1>5. QED BY <1>2, <1>3, <1>4 DEF TimerInv, StartsFresh, Fresh, StartsFirst,
          TaskHasTimer, SilencedGone, FiredInTask

\* A handler is posted to the test thread.
LEMMA PostedToTest ==
  ASSUME TypeInv, TimerInv, NEW h \in TestHandlers, Posted(test, h),
         h.op = "timer_start" => h.timer = cur_timer_id + 1
  PROVE  /\ queue'[test] = Append(queue[test], h)
         /\ \A i : Contains(queue[test], [op |-> "expired", timer |-> i]) =>
                     Contains(queue'[test], [op |-> "expired", timer |-> i])
         /\ Contains(queue'[test], h)
         /\ StartsFirst'
         /\ \A n \in 1..Len(queue'[test]) :
              \/ queue'[test][n] = h
              \/ \E m \in 1..Len(queue[test]) : queue'[test][n] = queue[test][m]
<1> DEFINE l == Len(queue[test])
<1>1. /\ queue'[test] = Append(queue[test], h)
      /\ queue[test] \in Seq(TestHandlers) /\ cur_timer_id \in Nat
  BY TestState, Names DEF Posted
<1>2. /\ l \in Nat /\ Len(queue'[test]) = l + 1 /\ queue'[test][l + 1] = h
      /\ \A n \in 1..l : queue'[test][n] = queue[test][n]
  BY <1>1, Longer
<1>3. \A n \in 1..Len(queue'[test]) : n \in 1..l \/ n = l + 1
  BY <1>2
<1>4. \A n \in 1..l : n \in 1..Len(queue'[test]) /\ n < l + 1
  BY <1>2
<1>5. l + 1 \in 1..Len(queue'[test])
  BY <1>2
<1>6. \A n \in 1..l : queue[test][n].timer \in 1..cur_timer_id
  BY TestState
<1> HIDE DEF l
<1>7. ASSUME NEW m \in 1..Len(queue'[test]), NEW n \in 1..Len(queue'[test]),
             queue'[test][m].op \in {"timer_start", "timer_stop"},
             queue'[test][n].op = "timer_start",
             queue'[test][m].timer = queue'[test][n].timer
      PROVE  n <= m
  <2>1. CASE m \in 1..l /\ n \in 1..l
    BY <1>2, <1>7, <2>1 DEF TimerInv, StartsFirst, l
  <2>2. CASE m = l + 1
    BY <1>2, <1>3, <2>2
  <2>3. CASE m \in 1..l /\ n = l + 1
    <3>1. queue'[test][n].timer = cur_timer_id + 1
      BY <1>2, <1>7, <2>3
    <3>2. queue'[test][m].timer \in 1..cur_timer_id
      BY <1>2, <1>6, <2>3
    <3>3. QED BY <1>1, <1>7, <3>1, <3>2
  <2>4. QED BY <1>3, <2>1, <2>2, <2>3
<1>8. StartsFirst'
  BY <1>7 DEF StartsFirst
<1>9. ASSUME NEW i, Contains(queue[test], [op |-> "expired", timer |-> i])
      PROVE  Contains(queue'[test], [op |-> "expired", timer |-> i])
  <2>1. PICK n \in 1..l : queue[test][n] = [op |-> "expired", timer |-> i]
    BY <1>9 DEF Contains, l
  <2>2. QED BY <1>2, <1>4, <2>1 DEF Contains
<1>10. Contains(queue'[test], h)
  BY <1>2, <1>5 DEF Contains
<1>11. \A n \in 1..Len(queue'[test]) :
         \/ queue'[test][n] = h
         \/ \E m \in 1..Len(queue[test]) : queue'[test][n] = queue[test][m]
  BY <1>2, <1>3 DEF l
<1>12. QED BY <1>1, <1>8, <1>9, <1>10, <1>11

\* start_timer and stop_timer.
LEMMA AsksTimer ==
  ASSUME TypeInv, TimerInv, NEW h \in TestHandlers, Posted(test, h),
         h.op \in {"timer_start", "timer_stop"},
         h.op = "timer_start" => h.timer = cur_timer_id + 1,
         calls'[test] = calls[test], UNCHANGED <<timers, fired, silenced>>
  PROVE  TimerInv'
<1>1. \A i : InTask(i)' <=> InTask(i)
  BY DEF InTask
<1>2. /\ StartsFirst'
      /\ \A i : Contains(queue[test], [op |-> "expired", timer |-> i]) =>
                  Contains(queue'[test], [op |-> "expired", timer |-> i])
      /\ \A n \in 1..Len(queue'[test]) :
              \/ queue'[test][n] = h
              \/ \E m \in 1..Len(queue[test]) : queue'[test][n] = queue[test][m]
  BY PostedToTest
<1>3. StartsFresh'
  <2>1. h.op = "timer_start" => Fresh(h.timer)
    <3>1. cur_timer_id + 1 \notin 1..cur_timer_id
      BY TestState
    <3>2. QED BY <3>1, TestState DEF Fresh
  <2>2. \A i : Fresh(i)' <=> Fresh(i)
    BY DEF Fresh
  <2>3. QED BY <1>2, <2>1, <2>2 DEF TimerInv, StartsFresh
<1>4. TimersGoOn'
  BY <1>1, <1>2 DEF TimerInv, TimersGoOn
<1>5. QED BY <1>1, <1>2, <1>3, <1>4 DEF TimerInv, TaskEnds, TaskHasTimer,
          SilencedGone, FiredInTask

LEMMA MakeTimerCallTimer ==
  ASSUME TypeInv, TimerInv, NEW t \in Threads, MakeStartTimer(t) \/ MakeStopTimer(t)
  PROVE  TimerInv'
<1>1. CASE MakeStartTimer(t)
  <2> DEFINE h == [op |-> "timer_start", timer |-> cur_timer_id',
                   task |-> Call(t).task, interval |-> Call(t).interval]
  <2>1. /\ Calls(t, "start_timer") /\ Continue(t, <<>>)
        /\ cur_timer_id' = cur_timer_id + 1 /\ Posted(test, h)
        /\ UNCHANGED <<timers, fired, silenced>>
    BY <1>1 DEF MakeStartTimer, TimerContext
  <2>2. t = main
    BY <2>1, CallsAre
  <2>3. Call(main).task \in TimerTasks /\ Call(main).interval \in Nat
    BY <2>1, <2>2, MainCalling
  <2>4. cur_timer_id + 1 \in Nat
    BY TestState
  <2>5. h \in TestHandlers /\ h.op = "timer_start" /\ h.timer = cur_timer_id + 1
    BY <2>1, <2>2, <2>3, <2>4 DEF TestHandlers
  <2>6. calls'[test] = calls[test]
    BY <2>1, <2>2, Continues, Names
  <2> HIDE DEF h
  <2>7. QED BY <2>1, <2>5, <2>6, AsksTimer
<1>2. CASE MakeStopTimer(t)
  <2> DEFINE h == [op |-> "timer_stop", timer |-> Call(t).timer]
  <2>1. /\ Calls(t, "stop_timer") /\ Continue(t, <<>>) /\ Posted(test, h)
        /\ UNCHANGED <<timers, fired, silenced>>
    BY <1>2 DEF MakeStopTimer, TimerContext, timerVars
  <2>2. t = main
    BY <2>1, CallsAre
  <2>3. Call(main).timer \in 1..cur_timer_id
    BY <2>1, <2>2, MainCalling
  <2>4. h \in TestHandlers /\ h.op = "timer_stop"
    BY <2>2, <2>3, TestState DEF TestHandlers
  <2>5. calls'[test] = calls[test]
    BY <2>1, <2>2, Continues, Names
  <2> HIDE DEF h
  <2>6. QED BY <2>1, <2>4, <2>5, AsksTimer
<1>3. QED BY <1>1, <1>2

LEMMA ExpireTimer ==
  ASSUME TypeInv, TimerInv, NEW i \in TimerIds, Expire(i)
  PROVE  TimerInv'
<1> DEFINE h == [op |-> "expired", timer |-> i]
<1>1. /\ i \in DOMAIN timers /\ Posted(test, h)
      /\ timers' = [timers EXCEPT ![i] = [timers[i] EXCEPT !.armed = FALSE]]
      /\ UNCHANGED <<calls, fired, silenced>>
  BY DEF Expire, TimerContext, threadVars
<1>2. h \in TestHandlers /\ h.op = "expired"
  BY <1>1, TestState DEF TestHandlers
<1>3. /\ StartsFirst'
      /\ \A j : Contains(queue[test], [op |-> "expired", timer |-> j]) =>
                  Contains(queue'[test], [op |-> "expired", timer |-> j])
      /\ Contains(queue'[test], h)
      /\ \A n \in 1..Len(queue'[test]) :
              \/ queue'[test][n] = h
              \/ \E m \in 1..Len(queue[test]) : queue'[test][n] = queue[test][m]
  <2> HIDE DEF h
  <2>1. QED BY <1>1, <1>2, PostedToTest
<1>4. \A j : InTask(j)' <=> InTask(j)
  BY <1>1 DEF InTask
<1>5. /\ DOMAIN timers' = DOMAIN timers
      /\ \A j \in DOMAIN timers : timers'[j].interval = timers[j].interval
      /\ \A j \in DOMAIN timers : j # i => timers'[j].armed = timers[j].armed
  <2>1. timers[i] \in Entries
    BY <1>1 DEF TypeInv, TimersOK
  <2>2. QED BY <1>1, <2>1 DEF Entries
<1>6. StartsFresh'
  <2>1. \A j : Fresh(j)' <=> Fresh(j)
    BY <1>1, <1>5 DEF Fresh
  <2>2. QED BY <1>2, <1>3, <2>1 DEF TimerInv, StartsFresh
<1>7. TimersGoOn'
  BY <1>3, <1>4, <1>5 DEF TimerInv, TimersGoOn
<1>8. QED BY <1>1, <1>3, <1>4, <1>5, <1>6, <1>7 DEF TimerInv, TaskEnds, TaskHasTimer,
          SilencedGone, FiredInTask

\* A handler of the timer runs: it was the first, and no task runs.
LEMMA TakenFromTest ==
  ASSUME TypeInv, TimerInv, NEW op, Runs(test, op), Taken(test),
         NEW h, h = Head(queue[test])
  PROVE  /\ h \in TestHandlers /\ h.op = op /\ h.timer \in 1..cur_timer_id
         /\ \A i : ~InTask(i)
         /\ fired \intersect DOMAIN timers = {}
         /\ StartsFirst'
         /\ op = "timer_start" => Fresh(h.timer)
         /\ \A n \in 1..Len(queue'[test]) : queue'[test][n].op = "timer_start" =>
              /\ Fresh(queue'[test][n].timer)
              /\ op \in {"timer_start", "timer_stop"} => queue'[test][n].timer # h.timer
         /\ \A i : /\ Contains(queue[test], [op |-> "expired", timer |-> i])
                   /\ h # [op |-> "expired", timer |-> i]
                   => Contains(queue'[test], [op |-> "expired", timer |-> i])
<1> DEFINE l == Len(queue[test])
<1>1. /\ queue[test] # <<>> /\ h.op = op /\ h = queue[test][1]
      /\ h \in TestHandlers /\ h.timer \in 1..cur_timer_id /\ calls[test] = <<>>
  BY NextHandler, Names
<1>2. queue'[test] = Tail(queue[test])
  BY TestState, Names DEF Taken
<1>3. /\ l \in Nat \ {0} /\ Len(queue'[test]) = l - 1
      /\ \A n \in 1..(l - 1) : queue'[test][n] = queue[test][n + 1]
  BY <1>1, <1>2, TestState, Shorter
<1>4. /\ 1 \in 1..l
      /\ \A n \in 1..Len(queue'[test]) :
           /\ n \in 1..(l - 1) /\ n \in Nat /\ n + 1 \in 1..l /\ ~(n + 1 <= 1)
           /\ queue'[test][n] = queue[test][n + 1]
      /\ \A n \in 1..l : n # 1 => n - 1 \in 1..Len(queue'[test]) /\ (n - 1) + 1 = n
  BY <1>3
<1> HIDE DEF l
<1>5. \A i : ~InTask(i)
  <2>1. Len(calls[test]) = 0
    BY <1>1
  <2>2. QED BY <2>1 DEF InTask, Contains
<1>6. fired \intersect DOMAIN timers = {}
  BY <1>5 DEF TimerInv, FiredInTask
<1>7. ASSUME NEW m \in 1..Len(queue'[test]), NEW n \in 1..Len(queue'[test]),
             queue'[test][m].op \in {"timer_start", "timer_stop"},
             queue'[test][n].op = "timer_start",
             queue'[test][m].timer = queue'[test][n].timer
      PROVE  n <= m
  <2>1. n + 1 <= m + 1
    BY <1>4, <1>7 DEF TimerInv, StartsFirst, l
  <2>2. QED BY <2>1
<1>8. StartsFirst'
  BY <1>7 DEF StartsFirst
<1>9. op = "timer_start" => Fresh(h.timer)
  BY <1>1, <1>4 DEF TimerInv, StartsFresh, l
<1>10. ASSUME NEW n \in 1..Len(queue'[test]), queue'[test][n].op = "timer_start"
       PROVE  /\ Fresh(queue'[test][n].timer)
              /\ op \in {"timer_start", "timer_stop"} => queue'[test][n].timer # h.timer
  <2>1. n + 1 \in 1..l /\ queue'[test][n] = queue[test][n + 1]
    BY <1>4
  <2>2. Fresh(queue'[test][n].timer)
    BY <1>10, <2>1 DEF TimerInv, StartsFresh, l
  <2>3. ASSUME op \in {"timer_start", "timer_stop"}, queue'[test][n].timer = h.timer
        PROVE  FALSE
    <3>1. n + 1 <= 1
      BY <1>1, <1>4, <1>10, <2>1, <2>3 DEF TimerInv, StartsFirst, l
    <3>2. QED BY <1>4, <3>1
  <2>4. QED BY <2>2, <2>3
<1>11. ASSUME NEW i, Contains(queue[test], [op |-> "expired", timer |-> i]),
              h # [op |-> "expired", timer |-> i]
       PROVE  Contains(queue'[test], [op |-> "expired", timer |-> i])
  <2>1. PICK n \in 1..l : queue[test][n] = [op |-> "expired", timer |-> i]
    BY <1>11 DEF Contains, l
  <2>2. n # 1
    BY <1>1, <1>11, <2>1
  <2>3. n - 1 \in 1..Len(queue'[test]) /\ queue'[test][n - 1] = queue[test][n]
    <3>1. n - 1 \in 1..Len(queue'[test]) /\ (n - 1) + 1 = n
      BY <1>4, <2>2
    <3>2. QED BY <1>4, <3>1
  <2>4. QED BY <2>1, <2>3 DEF Contains
<1>12. QED BY <1>1, <1>5, <1>6, <1>8, <1>9, <1>10, <1>11

LEMMA RunTimerStartTimer ==
  ASSUME TypeInv, TimerInv, RunTimerStart
  PROVE  TimerInv'
<1> DEFINE new(h) == [task |-> h.task, interval |-> h.interval,
                      left |-> h.interval, armed |-> TRUE]
<1>1. PICK h : h = Head(queue[test])
  OBVIOUS
<1>2. /\ Runs(test, "timer_start") /\ Taken(test)
      /\ timers' = [i \in DOMAIN timers \union {h.timer} |->
                      IF i = h.timer THEN new(h) ELSE timers[i]]
      /\ UNCHANGED <<calls, fired, silenced>>
  BY <1>1 DEF RunTimerStart, threadVars
<1>3. /\ h.op = "timer_start" /\ Fresh(h.timer)
      /\ \A i : ~InTask(i)
      /\ fired \intersect DOMAIN timers = {}
      /\ StartsFirst'
      /\ \A n \in 1..Len(queue'[test]) : queue'[test][n].op = "timer_start" =>
           Fresh(queue'[test][n].timer) /\ queue'[test][n].timer # h.timer
      /\ \A i : Contains(queue[test], [op |-> "expired", timer |-> i])
                   /\ h # [op |-> "expired", timer |-> i]
                => Contains(queue'[test], [op |-> "expired", timer |-> i])
  BY <1>1, <1>2, TakenFromTest
<1>4. \A i : ~InTask(i)'
  BY <1>2, <1>3 DEF InTask
<1>5. /\ DOMAIN timers' = DOMAIN timers \union {h.timer}
      /\ \A i \in DOMAIN timers : i # h.timer => timers'[i] = timers[i]
      /\ timers'[h.timer].armed
  BY <1>2
<1>6. StartsFresh'
  BY <1>2, <1>3, <1>5 DEF StartsFresh, Fresh
<1>7. SilencedGone' /\ FiredInTask'
  BY <1>2, <1>3, <1>5 DEF TimerInv, SilencedGone, FiredInTask, Fresh
<1>8. TimersGoOn'
  <2>1. ASSUME NEW i \in DOMAIN timers'
        PROVE  \/ timers'[i].armed
               \/ Contains(queue'[test], [op |-> "expired", timer |-> i])
    <3>1. CASE i = h.timer
      BY <1>5, <3>1
    <3>2. CASE i # h.timer
      <4>1. h # [op |-> "expired", timer |-> i]
        BY <1>3
      <4>2. QED BY <1>3, <1>5, <3>2, <4>1 DEF TimerInv, TimersGoOn
    <3>3. QED BY <3>1, <3>2
  <2>2. QED BY <2>1 DEF TimersGoOn
<1>9. TaskEnds' /\ TaskHasTimer'
  BY <1>2, <1>4 DEF TimerInv, TaskEnds, TaskHasTimer
<1>10. QED BY <1>3, <1>6, <1>7, <1>8, <1>9 DEF TimerInv

LEMMA RunTimerStopTimer ==
  ASSUME TypeInv, TimerInv, RunTimerStop
  PROVE  TimerInv'
<1>1. PICK h : h = Head(queue[test])
  OBVIOUS
<1>2. /\ Runs(test, "timer_stop") /\ Taken(test)
      /\ timers' = Erased(h.timer) /\ silenced' = silenced \union {h.timer}
      /\ UNCHANGED <<calls, fired>>
  BY <1>1 DEF RunTimerStop, threadVars
<1>3. /\ h.op = "timer_stop"
      /\ \A i : ~InTask(i)
      /\ fired \intersect DOMAIN timers = {}
      /\ StartsFirst'
      /\ \A n \in 1..Len(queue'[test]) : queue'[test][n].op = "timer_start" =>
           Fresh(queue'[test][n].timer) /\ queue'[test][n].timer # h.timer
      /\ \A i : Contains(queue[test], [op |-> "expired", timer |-> i])
                   /\ h # [op |-> "expired", timer |-> i]
                => Contains(queue'[test], [op |-> "expired", timer |-> i])
  BY <1>1, <1>2, TakenFromTest
<1>4. \A i : ~InTask(i)'
  BY <1>2, <1>3 DEF InTask
<1>5. /\ DOMAIN timers' = DOMAIN timers \ {h.timer}
      /\ \A i \in DOMAIN timers' : timers'[i] = timers[i]
  BY <1>2 DEF Erased
<1>6. StartsFresh'
  BY <1>2, <1>3, <1>5 DEF StartsFresh, Fresh
<1>7. SilencedGone' /\ FiredInTask'
  BY <1>2, <1>3, <1>5 DEF TimerInv, SilencedGone, FiredInTask
<1>8. TimersGoOn'
  <2>1. ASSUME NEW i \in DOMAIN timers'
        PROVE  \/ timers'[i].armed
               \/ Contains(queue'[test], [op |-> "expired", timer |-> i])
    <3>1. h # [op |-> "expired", timer |-> i]
      BY <1>3
    <3>2. QED BY <1>3, <1>5, <3>1 DEF TimerInv, TimersGoOn
  <2>2. QED BY <2>1 DEF TimersGoOn
<1>9. TaskEnds' /\ TaskHasTimer'
  BY <1>2, <1>4 DEF TimerInv, TaskEnds, TaskHasTimer
<1>10. QED BY <1>3, <1>6, <1>7, <1>8, <1>9 DEF TimerInv

\* The calls of a timer's task, and then reschedule_timer.
LEMMA TaskThenReschedule ==
  ASSUME NEW task \in TimerTasks, NEW i,
         NEW list, list = Append(task, Reschedule(i))
  PROVE  /\ \A j : Contains(list, Reschedule(j)) <=> j = i
         /\ \A n \in 1..Len(list) : list[n].op = "reschedule" => n = Len(list)
<1>1. CASE task = <<>>
  <2>1. Len(list) = 1 /\ list[1] = Reschedule(i)
    BY <1>1
  <2>2. QED BY <2>1 DEF Contains, Reschedule
<1>2. ASSUME NEW call, call.op \in {"sync", "async"}, task = <<call>>
      PROVE  /\ \A j : Contains(list, Reschedule(j)) <=> j = i
             /\ \A n \in 1..Len(list) : list[n].op = "reschedule" => n = Len(list)
  <2>1. Len(list) = 2 /\ list[1] = call /\ list[2] = Reschedule(i)
    BY <1>2
  <2>2. \A n \in 1..Len(list) : n = 1 \/ n = 2
    BY <2>1
  <2>3. 2 \in 1..Len(list)
    BY <2>1
  <2>4. \A n \in 1..Len(list) : list[n].op = "reschedule" => n = Len(list)
    BY <1>2, <2>1, <2>2
  <2>5. \A j : call # Reschedule(j)
    BY <1>2 DEF Reschedule
  <2>6. \A j : Reschedule(j) = Reschedule(i) <=> j = i
    BY DEF Reschedule
  <2>7. QED BY <2>1, <2>2, <2>3, <2>4, <2>5, <2>6 DEF Contains
<1>3. CASE task = Requesting
  <2>1. Async(worker, Responding).op = "async"
    BY DEF Async
  <2>2. QED BY <1>2, <1>3, <2>1 DEF Requesting
<1>4. CASE task = Publishing
  <2>1. Sync(worker, <<>>).op = "sync"
    BY DEF Sync
  <2>2. QED BY <1>2, <1>4, <2>1 DEF Publishing
<1>5. QED BY <1>1, <1>3, <1>4 DEF TimerTasks

LEMMA RunExpiredTimer ==
  ASSUME TypeInv, TimerInv, RunExpired
  PROVE  TimerInv'
<1>1. PICK h : h = Head(queue[test])
  OBVIOUS
<1>2. PICK i : i = h.timer
  OBVIOUS
<1>3. /\ Runs(test, "expired") /\ Taken(test)
      /\ \/ /\ i \in DOMAIN timers
            /\ calls' = [calls EXCEPT ![test] = Append(timers[i].task, Reschedule(i))]
            /\ fired' = IF timers[i].interval = 0 THEN fired \union {i} ELSE fired
         \/ i \notin DOMAIN timers /\ UNCHANGED <<calls, fired>>
      /\ UNCHANGED <<timers, silenced>>
  BY <1>1, <1>2 DEF RunExpired
<1>4. /\ h.op = "expired" /\ h \in TestHandlers
      /\ \A j : ~InTask(j)
      /\ fired \intersect DOMAIN timers = {}
      /\ StartsFirst'
      /\ \A n \in 1..Len(queue'[test]) : queue'[test][n].op = "timer_start" =>
           Fresh(queue'[test][n].timer)
      /\ \A j : Contains(queue[test], [op |-> "expired", timer |-> j])
                   /\ h # [op |-> "expired", timer |-> j]
                => Contains(queue'[test], [op |-> "expired", timer |-> j])
  BY <1>1, <1>3, TakenFromTest
<1>5. /\ \A j : InTask(j)' <=> j = i /\ i \in DOMAIN timers
      /\ TaskEnds'
  <2>1. CASE i \notin DOMAIN timers
    <3>1. calls' = calls
      BY <1>3, <2>1
    <3>2. QED BY <1>4, <2>1, <3>1 DEF InTask, TimerInv, TaskEnds
  <2>2. CASE i \in DOMAIN timers
    <3>1. timers[i].task \in TimerTasks
      BY <2>2 DEF TypeInv, TimersOK, Entries
    <3>2. calls'[test] = Append(timers[i].task, Reschedule(i))
      BY <1>3, <2>2, TestState, Names
    <3>3. /\ \A j : Contains(calls'[test], Reschedule(j)) <=> j = i
          /\ \A n \in 1..Len(calls'[test]) :
               calls'[test][n].op = "reschedule" => n = Len(calls'[test])
      BY <3>1, <3>2, TaskThenReschedule
    <3>4. QED BY <2>2, <3>3 DEF InTask, TaskEnds, Reschedule
  <2>3. QED BY <2>1, <2>2
<1>6. StartsFresh'
  BY <1>3, <1>4 DEF StartsFresh, Fresh
<1>7. TaskHasTimer' /\ SilencedGone' /\ FiredInTask'
  BY <1>3, <1>4, <1>5 DEF TimerInv, TaskHasTimer, SilencedGone, FiredInTask
<1>8. TimersGoOn'
  <2>1. ASSUME NEW j \in DOMAIN timers'
        PROVE  \/ timers'[j].armed \/ InTask(j)'
               \/ Contains(queue'[test], [op |-> "expired", timer |-> j])
    <3>1. CASE j = i
      BY <1>3, <1>5, <2>1, <3>1
    <3>2. CASE j # i
      <4>1. h # [op |-> "expired", timer |-> j]
        BY <1>2, <3>2
      <4>2. QED BY <1>3, <1>4, <2>1, <4>1 DEF TimerInv, TimersGoOn
    <3>3. QED BY <3>1, <3>2
  <2>2. QED BY <2>1 DEF TimersGoOn
<1>9. QED BY <1>4, <1>5, <1>6, <1>7, <1>8 DEF TimerInv

LEMMA ReschedulesTimer ==
  ASSUME TypeInv, TimerInv, Reschedules
  PROVE  TimerInv'
<1>1. PICK i : i = Call(test).timer
  OBVIOUS
<1>2. /\ Calls(test, "reschedule") /\ Continue(test, <<>>) /\ timers' = Rearmed(i)
      /\ UNCHANGED <<queue, fired, silenced>>
  BY <1>1 DEF Reschedules
<1>3. Call(test) \in TestCalls /\ Call(test).op = "reschedule"
      /\ Call(test) = calls[test][1] /\ Len(calls[test]) \in Nat \ {0}
  BY <1>2, NextCall, Names
<1>4. Call(test) = Reschedule(i)
  BY <1>1, <1>3 DEF TestCalls, Reschedule
<1>5. TaskEnds
  BY DEF TimerInv
<1>6. /\ TaskEnds' /\ \A j : ~InTask(j)'
      /\ \A j : InTask(j) => j = i
  <2>1. TaskEnds' /\ \A j : ~InTask(j)'
    BY <1>2, <1>5, TaskGoesOn
  <2>2. \A j : InTask(j) /\ Call(test) # Reschedule(j) => InTask(j)'
    BY <1>2, <1>5, TaskGoesOn
  <2>3. \A j : Reschedule(j) = Reschedule(i) => j = i
    BY DEF Reschedule
  <2>4. QED BY <1>4, <2>1, <2>2, <2>3
<1>7. /\ DOMAIN timers' \subseteq DOMAIN timers
      /\ \A j \in DOMAIN timers' \ {i} : timers'[j] = timers[j]
      /\ i \in DOMAIN timers' => /\ timers'[i].armed
                                 /\ timers'[i].interval = timers[i].interval
                                 /\ timers'[i].interval # 0
  BY <1>2, RearmedOK
<1>8. StartsFresh'
  BY <1>2, <1>7 DEF TimerInv, StartsFresh, Fresh
<1>9. StartsFirst' /\ SilencedGone' /\ TaskHasTimer'
  BY <1>2, <1>6, <1>7 DEF TimerInv, StartsFirst, SilencedGone, TaskHasTimer
<1>10. FiredInTask'
  <2>1. fired' \intersect DOMAIN timers' = {}
    BY <1>2, <1>6, <1>7 DEF TimerInv, FiredInTask
  <2>2. QED BY <2>1 DEF FiredInTask
<1>11. TimersGoOn'
  BY <1>2, <1>6, <1>7 DEF TimerInv, TimersGoOn
<1>12. QED BY <1>6, <1>8, <1>9, <1>10, <1>11 DEF TimerInv

LEMMA SecondTimer ==
  ASSUME TypeInv, TimerInv, Second
  PROVE  TimerInv'
<1>1. /\ timers' = [i \in DOMAIN timers |->
                      [timers[i] EXCEPT !.left = IF @ = 0 THEN 0 ELSE @ - 1]]
      /\ UNCHANGED <<queue, calls, fired, silenced>>
  BY DEF Second, threadVars
<1>2. /\ DOMAIN timers' = DOMAIN timers
      /\ \A i \in DOMAIN timers : /\ timers'[i].interval = timers[i].interval
                                  /\ timers'[i].armed = timers[i].armed
  <2>1. \A i \in DOMAIN timers : timers[i] \in Entries
    BY DEF TypeInv, TimersOK
  <2>2. QED BY <1>1, <2>1 DEF Entries
<1>3. \A i : InTask(i)' <=> InTask(i)
  BY <1>1 DEF InTask
<1>4. TimersGoOn'
  BY <1>1, <1>2, <1>3 DEF TimerInv, TimersGoOn
<1>5. QED BY <1>1, <1>2, <1>3, <1>4 DEF TimerInv, StartsFresh, Fresh, StartsFirst,
          TaskEnds, TaskHasTimer, SilencedGone, FiredInTask

\* The other calls.
LEMMA MakeCallTimer ==
  ASSUME TypeInv, TimerInv, NEW t \in Threads, MakeCall(t)
  PROVE  TimerInv'
<1>1. CASE MakeStartTimer(t) \/ MakeStopTimer(t)
  BY <1>1, MakeTimerCallTimer
<1>2. CASE MakeAsync(t) \/ MakeSync(t) \/ SetsValue(t) \/ MakeStop(t) \/ MakeJoin(t)
  <2>1. PICK op \in {"async", "sync", "set_value", "stop", "join"} :
          Calls(t, op) /\ Continue(t, <<>>)
    BY <1>2, SyncCases DEF MakeAsync, SetsValue, MakeStop, MakeJoin
  <2>2. UNCHANGED <<timers, fired, silenced>>
    BY <1>2 DEF MakeAsync, MakeSync, SetsValue, MakeStop, MakeJoin, timerVars
  <2>3. queue'[test] = queue[test]
    <3>1. CASE MakeAsync(t)
      <4>1. Call(t).context = worker
        BY <3>1, CallsAre DEF MakeAsync
      <4>2. QED BY <3>1, <4>1, TestState, Names DEF MakeAsync, Posted
    <3>2. CASE MakeSync(t)
      BY <3>2, SyncCases, TestState, Names DEF Posted
    <3>3. CASE SetsValue(t) \/ MakeStop(t) \/ MakeJoin(t)
      BY <3>3 DEF SetsValue, MakeStop, MakeJoin
    <3>4. QED BY <1>2, <3>1, <3>2, <3>3
  <2>4. CASE t = test
    <3>1. op \in {"async", "sync"}
      BY <2>1, <2>4, CallsAre, Names
    <3>2. QED BY <2>1, <2>2, <2>3, <2>4, <3>1, TestCallKeeps
  <2>5. CASE t # test
    <3>1. calls'[test] = calls[test]
      BY <2>1, <2>5, Continues, Names
    <3>2. QED BY <2>2, <2>3, <3>1, TimerInvKept
  <2>6. QED BY <2>4, <2>5
<1>3. QED BY <1>1, <1>2 DEF MakeCall

LEMMA OtherStepTimer ==
  ASSUME TypeInv, TimerInv,
         \/ \E c \in Contexts : RunTask(c) \/ End(c)
         \/ UsesTimer \/ Signal \/ UNCHANGED vars
  PROVE  TimerInv'
<1>1. CASE \E c \in Contexts : RunTask(c)
  <2>1. PICK c \in Contexts : RunTask(c)
    BY <1>1
  <2>2. c = worker
    BY <2>1, NextHandler, Names DEF RunTask
  <2>3. queue'[test] = queue[test] /\ calls'[test] = calls[test]
    BY <2>1, <2>2, TestState, Names DEF RunTask, Taken
  <2>4. QED BY <2>1, <2>3, TimerInvKept DEF RunTask, timerVars
<1>2. CASE (\E c \in Contexts : End(c)) \/ UNCHANGED vars
  BY <1>2, TimerInvKept DEF End, vars, threadVars, timerVars
<1>3. CASE UsesTimer \/ Signal
  <2>1. calls'[test] = calls[test]
    BY <1>3, TestState, Names DEF UsesTimer, Signal
  <2>2. QED BY <1>3, <2>1, TimerInvKept DEF UsesTimer, Signal, timerVars
<1>4. QED BY <1>1, <1>2, <1>3

LEMMA NextTimer ==
  ASSUME TypeInv, TimerInv, [Next]_vars
  PROVE  TimerInv'
<1>1. ASSUME NEW c \in Contexts, RunHandler(c) PROVE TimerInv'
  BY <1>1, OtherStepTimer, RunTimerStartTimer, RunTimerStopTimer, RunExpiredTimer,
     ReschedulesTimer DEF RunHandler
<1>2. QED BY <1>1, MakeCallTimer, ExpireTimer, OtherStepTimer, SecondTimer DEF Next

LEMMA InitTimer ==
  ASSUME Init
  PROVE  TimerInv
<1>1. queue[test] = <<>> /\ calls[test] = <<>>
  BY Names DEF Init
<1>2. Len(queue[test]) = 0 /\ Len(calls[test]) = 0
  BY <1>1
<1>3. DOMAIN timers = {} /\ fired = {} /\ silenced = {}
  BY DEF Init
<1>4. QED BY <1>2, <1>3 DEF TimerInv, StartsFresh, StartsFirst, TaskEnds,
          TaskHasTimer, InTask, Contains, SilencedGone, FiredInTask, TimersGoOn

LEMMA TimerInvariant == Spec => []TimerInv
<1>1. Init => TimerInv
  BY InitTimer
<1>2. TypeInv /\ TimerInv /\ [Next]_vars => TimerInv'
  BY NextTimer
<1>3. QED BY <1>1, <1>2, Typed, PTL DEF Spec

(* The task of a timer does not run any more once stop_timer_impl has run, *)
(* although an expiration was queued before that: on_timer does not find   *)
(* the timer, and nothing starts it again.                                 *)
THEOREM ContextsSilenceStopped == Spec => []StoppedTimerIsSilent
<1>1. TypeInv /\ TimerInv => StoppedTimerIsSilent
  <2> SUFFICES ASSUME TypeInv, TimerInv, NEW i \in silenced, InTask(i) PROVE FALSE
    BY DEF StoppedTimerIsSilent
  <2>1. i \in Nat
    BY TestState
  <2>2. QED BY <2>1 DEF TimerInv, TaskHasTimer, SilencedGone
<1>2. QED BY <1>1, Typed, TimerInvariant, PTL

(* A timer with interval 0 runs its task once, and is gone after that.     *)
THEOREM ContextsFireOnce == Spec => []OneShotOnce
<1>1. TimerInv => OneShotOnce
  BY DEF TimerInv, FiredInTask, OneShotOnce
<1>2. QED BY <1>1, TimerInvariant, PTL

(* A timer that nobody stopped is armed, or its expiration is queued, or   *)
(* its task runs, and reschedule_timer is still to come.                   *)
THEOREM ContextsGoOn == Spec => []TimersGoOn
<1>1. TimerInv => TimersGoOn
  BY DEF TimerInv
<1>2. QED BY <1>1, TimerInvariant, PTL
=============================================================================
