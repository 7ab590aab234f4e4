----------------------------- MODULE IoContexts -----------------------------
(***************************************************************************)
(* The threads of examples/main.cpp and what they wait for: an ithread     *)
(* (ithread.cpp) runs the handlers of its io_context; other threads give   *)
(* it tasks (task_runner.hpp), of which the synchronous ones are waited    *)
(* for; and the timer of the test thread (itimer.cpp) runs tasks that call *)
(* into the worker thread.  An ithread and its io_context have one name.   *)
(*                                                                         *)
(* What a thread does is a sequence of calls.  Of the worker's tasks only  *)
(* the calls they make to an io_context are kept.                          *)
(***************************************************************************)
EXTENDS Integers, Sequences, SequencesExt

CONSTANTS
    main, worker, test,  \* the main thread, worker_thread_ and test_thread_
    MaxInterval,         \* the largest interval of a timer
    MaxTimers,           \* bound: timers started, of which main starts two
    MaxQueue             \* bound: time passes, and main uses the timer, while
                         \* fewer handlers wait

ASSUME ContextsAssumption ==
    /\ main # worker /\ worker # test /\ test # main
    /\ MaxInterval \in Nat /\ MaxTimers \in Nat \ {0, 1} /\ MaxQueue \in Nat

VARIABLES
    \* For each io_context its handlers, and whether it was stopped.
    queue, stopped,
    \* For each thread the calls it has still to make, whether it waits for a
    \* future, and whether its function has returned.
    calls, waiting, ended,
    \* The test timer: timers_, and the last id it gave.
    timers, cur_timer_id,
    \* History: the timers with interval 0 whose task has run; the timers whose
    \* stop_timer_impl has run.
    fired, silenced

threadVars == <<calls, waiting, ended>>
timerVars == <<timers, cur_timer_id, fired, silenced>>
vars == <<queue, stopped, threadVars, timerVars>>

-----------------------------------------------------------------------------
Contexts == {worker, test}
Threads == {main} \union Contexts
TimerIds == 1..MaxTimers

\* Calls.
Sync(context, task) == [op |-> "sync", context |-> context, task |-> task]
Async(context, task) == [op |-> "async", context |-> context, task |-> task]
StartTimer(task, interval) ==
    [op |-> "start_timer", task |-> task, interval |-> interval]
StopTimer(timer) == [op |-> "stop_timer", timer |-> timer]
Stop(context) == [op |-> "stop", context |-> context]
Join(context) == [op |-> "join", context |-> context]
SetValue(thread) == [op |-> "set_value", thread |-> thread]
Reschedule(timer) == [op |-> "reschedule", timer |-> timer]

\* A request makes the processor answer it, on the worker's thread.
Responding == <<Sync(worker, <<>>)>>

\* The tasks of main's timers: send_req_async and publish_notification.
Requesting == <<Async(worker, Responding)>>
Publishing == <<Sync(worker, <<>>)>>

Setup ==
    << Sync(worker, <<>>), Sync(worker, <<>>),  \* server: start, register
       Sync(worker, <<>>), Async(worker, <<>>), \* client: start, subscribe
       StartTimer(Requesting, 1), StartTimer(Publishing, 1) >>

\* Mutant: the worker is stopped while the test thread may still call it.
WorkerFirst == <<Stop(worker), Join(worker), Stop(test), Join(test)>>

\* The tasks of the test thread call the worker, and not the other way round.
Shutdown == <<Stop(test), Join(test), Stop(worker), Join(worker)>>

Init ==
    /\ queue = [c \in Contexts |-> <<>>]
    /\ stopped = [c \in Contexts |-> FALSE]
    /\ calls = [t \in Threads |-> IF t = main THEN Setup ELSE <<>>]
    /\ waiting = [t \in Threads |-> FALSE]
    /\ ended = [c \in Contexts |-> FALSE]
    /\ timers = [i \in {} |-> {}]
    /\ cur_timer_id = 0
    /\ fired = {}
    /\ silenced = {}

-----------------------------------------------------------------------------
(* Calls.                                                                  *)

\* The call a thread is about to make.
Calls(t, op) == ~waiting[t] /\ calls[t] # <<>> /\ Head(calls[t]).op = op
Call(t) == Head(calls[t])

\* It is made, and these come before the rest.
Continue(t, first) == calls' = [calls EXCEPT ![t] = first \o Tail(calls[t])]

Posted(c, handler) == queue' = [queue EXCEPT ![c] = Append(queue[c], handler)]

Task(task) == [op |-> "task", calls |-> task]

\* run_task_in_the_iocontext_async
MakeAsync(t) ==
    /\ Calls(t, "async")
    /\ Posted(Call(t).context, Task(Call(t).task))
    /\ Continue(t, <<>>)
    /\ UNCHANGED <<stopped, waiting, ended, timerVars>>

\* Mutant: every synchronous call is posted.
InlineNever(t, c) == FALSE

\* running_in_this_thread
Inline(t, c) == t = c

\* run_task_in_the_iocontext_sync
MakeSync(t) ==
    /\ Calls(t, "sync")
    /\ IF Inline(t, Call(t).context)
       THEN /\ Continue(t, Call(t).task)
            /\ UNCHANGED <<queue, waiting>>
       ELSE /\ Posted(Call(t).context, Task(Append(Call(t).task, SetValue(t))))
            /\ waiting' = [waiting EXCEPT ![t] = TRUE]
            /\ Continue(t, <<>>)
    /\ UNCHANGED <<stopped, ended, timerVars>>

SetsValue(t) ==
    /\ Calls(t, "set_value")
    /\ waiting' = [waiting EXCEPT ![Call(t).thread] = FALSE]
    /\ Continue(t, <<>>)
    /\ UNCHANGED <<queue, stopped, ended, timerVars>>

\* Mutant: the timer is made with the io_context of the worker.
TimerContextWorker == worker

\* test_timer_ is made with that of the test thread.
TimerContext == test

\* start_timer and stop_timer give an id and post to the timer's io_context.
MakeStartTimer(t) ==
    /\ Calls(t, "start_timer")
    /\ cur_timer_id' = cur_timer_id + 1
    /\ Posted(TimerContext, [op |-> "timer_start", timer |-> cur_timer_id',
                     task |-> Call(t).task, interval |-> Call(t).interval])
    /\ Continue(t, <<>>)
    /\ UNCHANGED <<stopped, waiting, ended, timers, fired, silenced>>

MakeStopTimer(t) ==
    /\ Calls(t, "stop_timer")
    /\ Posted(TimerContext, [op |-> "timer_stop", timer |-> Call(t).timer])
    /\ Continue(t, <<>>)
    /\ UNCHANGED <<stopped, waiting, ended, timerVars>>

\* ithread::stop stops the io_context, and joins the thread.
MakeStop(t) ==
    /\ Calls(t, "stop")
    /\ stopped' = [stopped EXCEPT ![Call(t).context] = TRUE]
    /\ Continue(t, <<>>)
    /\ UNCHANGED <<queue, waiting, ended, timerVars>>

MakeJoin(t) ==
    /\ Calls(t, "join")
    /\ ended[Call(t).context]
    /\ Continue(t, <<>>)
    /\ UNCHANGED <<queue, stopped, waiting, ended, timerVars>>

\* Once it is set up, main waits for a signal.  An application may also start
\* timers of its own, with one expiration for instance, and stop timers.
UsesTimer ==
    /\ calls[main] = <<>> /\ ~waiting[main] /\ ~stopped[test]
    /\ Len(queue[test]) < MaxQueue
    /\ \/ /\ cur_timer_id < MaxTimers
          /\ \E interval \in 0..MaxInterval :
               calls' = [calls EXCEPT ![main] = <<StartTimer(<<>>, interval)>>]
       \/ \E i \in 1..cur_timer_id \ silenced :
            calls' = [calls EXCEPT ![main] = <<StopTimer(i)>>]
    /\ UNCHANGED <<queue, stopped, waiting, ended, timerVars>>

Signal ==
    /\ calls[main] = <<>> /\ ~waiting[main] /\ ~stopped[test]
    /\ calls' = [calls EXCEPT ![main] = Shutdown]
    /\ UNCHANGED <<queue, stopped, waiting, ended, timerVars>>

-----------------------------------------------------------------------------
(* io_context::run: one handler after the other, until it is stopped.      *)

Idle(c) == ~ended[c] /\ calls[c] = <<>> /\ ~waiting[c]

Runs(c, op) ==
    /\ Idle(c) /\ ~stopped[c]
    /\ queue[c] # <<>> /\ Head(queue[c]).op = op

Taken(c) == queue' = [queue EXCEPT ![c] = Tail(queue[c])]

RunTask(c) ==
    /\ Runs(c, "task")
    /\ calls' = [calls EXCEPT ![c] = Head(queue[c]).calls]
    /\ Taken(c)
    /\ UNCHANGED <<stopped, waiting, ended, timerVars>>

End(c) ==
    /\ Idle(c) /\ stopped[c]
    /\ ended' = [ended EXCEPT ![c] = TRUE]
    /\ UNCHANGED <<queue, stopped, calls, waiting, timerVars>>

\* start_timer_impl: the delay is ignored, the interval comes first.
RunTimerStart ==
    /\ Runs(test, "timer_start")
    /\ LET h == Head(queue[test]) IN
       timers' = [i \in DOMAIN timers \union {h.timer} |->
                    IF i = h.timer
                    THEN [task |-> h.task, interval |-> h.interval,
                          left |-> h.interval, armed |-> TRUE]
                    ELSE timers[i]]
    /\ Taken(test)
    /\ UNCHANGED <<stopped, threadVars, cur_timer_id, fired, silenced>>

\* Mutant: the wait is cancelled and the entry is kept.
OnlyCancelled(i) ==
    [j \in DOMAIN timers |-> IF j = i THEN [timers[j] EXCEPT !.armed = FALSE]
                                      ELSE timers[j]]

Erased(i) == [j \in DOMAIN timers \ {i} |-> timers[j]]

\* stop_timer_impl: an expiration that is already queued cannot be cancelled,
\* and will not find the timer.
RunTimerStop ==
    /\ Runs(test, "timer_stop")
    /\ timers' = Erased(Head(queue[test]).timer)
    /\ silenced' = silenced \union {Head(queue[test]).timer}
    /\ Taken(test)
    /\ UNCHANGED <<stopped, threadVars, cur_timer_id, fired>>

\* on_timer: the task, and then reschedule_timer.
RunExpired ==
    /\ Runs(test, "expired")
    /\ LET i == Head(queue[test]).timer IN
       IF i \in DOMAIN timers
       THEN /\ calls' = [calls EXCEPT ![test] =
                           Append(timers[i].task, Reschedule(i))]
            /\ fired' = IF timers[i].interval = 0 THEN fired \union {i} ELSE fired
       ELSE UNCHANGED <<calls, fired>>
    /\ Taken(test)
    /\ UNCHANGED <<stopped, waiting, ended, timers, cur_timer_id, silenced>>

\* Mutant: every timer is armed again.
RearmedAlways(i) ==
    [timers EXCEPT ![i] = [timers[i] EXCEPT !.left = timers[i].interval,
                                            !.armed = TRUE]]

\* Mutant: no timer is.
RearmedNever(i) == timers

\* A timer without an interval expires once.
Rearmed(i) ==
    IF timers[i].interval = 0 THEN Erased(i)
    ELSE [timers EXCEPT ![i] = [timers[i] EXCEPT !.left = timers[i].interval,
                                                 !.armed = TRUE]]

Reschedules ==
    /\ Calls(test, "reschedule")
    /\ timers' = Rearmed(Call(test).timer)
    /\ Continue(test, <<>>)
    /\ UNCHANGED <<queue, stopped, waiting, ended, cur_timer_id, fired, silenced>>

-----------------------------------------------------------------------------
\* A wait that is over queues its handler.
Expire(i) ==
    /\ i \in DOMAIN timers /\ timers[i].armed /\ timers[i].left = 0
    /\ timers' = [timers EXCEPT ![i] = [timers[i] EXCEPT !.armed = FALSE]]
    /\ Posted(TimerContext, [op |-> "expired", timer |-> i])
    /\ UNCHANGED <<stopped, threadVars, cur_timer_id, fired, silenced>>

\* Threads may lag behind time by any number of seconds.
Second ==
    /\ \A c \in Contexts : Len(queue[c]) < MaxQueue
    /\ timers' = [i \in DOMAIN timers |->
                    [timers[i] EXCEPT !.left = IF @ = 0 THEN 0 ELSE @ - 1]]
    /\ UNCHANGED <<queue, stopped, threadVars, cur_timer_id, fired, silenced>>

MakeCall(t) ==
    \/ MakeAsync(t) \/ MakeSync(t) \/ SetsValue(t)
    \/ MakeStartTimer(t) \/ MakeStopTimer(t)
    \/ MakeStop(t) \/ MakeJoin(t)

RunHandler(c) ==
    \/ RunTask(c) \/ End(c)
    \/ c = test /\ (\/ RunTimerStart \/ RunTimerStop \/ RunExpired \/ Reschedules)

Next ==
    \/ \E t \in Threads : MakeCall(t)
    \/ \E c \in Contexts : RunHandler(c)
    \/ \E i \in TimerIds : Expire(i)
    \/ UsesTimer \/ Signal \/ Second

Spec == Init /\ [][Next]_vars

(* The operating system runs every thread, time passes, and waits end.     *)
(* Nobody has to use the timer, or to send the signal.                     *)
Fairness ==
    /\ \A t \in Threads : WF_vars(MakeCall(t))
    /\ \A c \in Contexts : WF_vars(RunHandler(c))
    /\ \A i \in TimerIds : WF_vars(Expire(i))
    /\ WF_vars(Second)

FairSpec == Spec /\ Fairness

-----------------------------------------------------------------------------
TypeOK ==
    /\ \A c \in Contexts : \A n \in 1..Len(queue[c]) :
         \/ queue[c][n].op = "task"
         \/ c = test /\ queue[c][n].op \in {"timer_start", "timer_stop", "expired"}
    /\ stopped \in [Contexts -> BOOLEAN]
    /\ waiting \in [Threads -> BOOLEAN]
    /\ ended \in [Contexts -> BOOLEAN]
    /\ DOMAIN timers \subseteq 1..cur_timer_id
    /\ \A i \in DOMAIN timers :
         timers[i].left \in 0..timers[i].interval /\ timers[i].armed \in BOOLEAN
    /\ cur_timer_id \in 0..MaxTimers
    /\ fired \subseteq 1..cur_timer_id
    /\ silenced \subseteq 1..cur_timer_id

(* A thread that waits for a future gets its value: the task is queued, or *)
(* being run, in an io_context whose thread goes on.  It needs the order   *)
(* of main.cpp:110-111, the test thread before the worker it calls.        *)
NoCallIsLost ==
    \A t \in Threads :
      waiting[t] =>
        \E c \in Contexts \ {t} :
          /\ ~ended[c]
          /\ \/ Contains(calls[c], SetValue(t))
             \/ /\ ~stopped[c]
                /\ \E n \in 1..Len(queue[c]) :
                     /\ queue[c][n].op = "task"
                     /\ Contains(queue[c][n].calls, SetValue(t))

(* After the signal the program ends, whatever its threads are doing: both *)
(* ithreads leave run(), and main has joined them.                         *)
ShutdownCompletes ==
    stopped[test] ~> (ended = [c \in Contexts |-> TRUE] /\ calls[main] = <<>>)

(* Every synchronous call returns, also one that a task makes to the       *)
(* io_context it runs on, as the processor of main.cpp:43 does.            *)
CallsReturn == \A t \in Threads : waiting[t] ~> ~waiting[t]

\* Its task runs, or is about to be followed by reschedule_timer.
InTask(i) == Contains(calls[test], Reschedule(i))

(* The task of a timer does not run any more once stop_timer_impl has run, *)
(* although an expiration was queued before that.                          *)
StoppedTimerIsSilent ==
    \A i \in silenced : ~InTask(i)

(* A timer with interval 0 runs its task once, and is gone.                *)
OneShotOnce ==
    \A i \in fired \intersect DOMAIN timers : InTask(i)

(* A timer goes on until it is stopped: it is armed, or its expiration is  *)
(* queued, or its task runs, however long that waits for another thread.   *)
TimersGoOn ==
    \A i \in DOMAIN timers :
      \/ timers[i].armed
      \/ InTask(i)
      \/ Contains(queue[test], [op |-> "expired", timer |-> i])
=============================================================================
