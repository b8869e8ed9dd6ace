------------------------------ MODULE MessageLoop ------------------------------
(***************************************************************************)
(* One message loop of wtf/task_runner: its task queue, its thread, the    *)
(* threads that post to it, the waitable timer that wakes it, and the      *)
(* clock.  A step is one critical section of queue_mutex_, one access to   *)
(* an atomic, or one call to the kernel timer.                             *)
(*                                                                         *)
(* The loop thread's program counter:                                      *)
(*   created  before Run(): its owner may already post, observe, terminate *)
(*   run      past the early return of DoRun, about to set running_        *)
(*   loop     testing running_ in MessageLoopWin::Run                      *)
(*   wait     in WaitForSingleObject                                       *)
(*   flush    entering FlushTasks, about to sample the clock               *)
(*   next     about to call GetNextTaskToRun                               *)
(*   invoke   inside the task that was taken                               *)
(*   notify   the task returned, its observers are to be called            *)
(*   exit     Run() returned, about to set terminated_                     *)
(*   dispose  about to call DisposeTasks                                   *)
(*   done     DoRun returned                                               *)
(*   gone     ~MessageLoopImpl has disposed of the queue                   *)
(*                                                                         *)
(* A task body is any number of PostTask, Terminate and AddTaskObserver    *)
(* calls followed by a return.  Observers are callbacks that only count.   *)
(***************************************************************************)
EXTENDS Integers, Sequences, FiniteSets

CONSTANTS Posters,     \* threads other than the loop's that post tasks
          Observers,   \* keys given to AddTaskObserver
          MaxTime,     \* bound: the last instant of the clock
          MaxTasks,    \* bound: tasks registered in one behaviour
          TimerUnit    \* instants in one unit of the waitable timer (100 ns)

ASSUME MessageLoopAssumption ==
  /\ MaxTime \in Nat
  /\ MaxTasks \in Nat
  /\ TimerUnit \in Nat \ {0}

VARIABLES
  now,                 \* TimePoint::Now()
  delayed_task_queue,  \* the set of pending tasks
  order_,              \* the registration counter
  timer_,              \* due instant of the waitable timer, or Off
  terminated_,
  running_,
  pc,
  draining,            \* FlushTasks was called by DoRun, not by Run
  flushNow,            \* the clock sample FlushTasks works with
  calls,               \* PostTask calls that have passed the terminated_ test, or run
                       \* on a loop that is gone
  ran,                 \* the tasks taken so far, in order
  since,               \* since[o]: tasks completed when o was added, or Off
  heard,               \* heard[o]: notifications o has received
  owed                 \* the tasks that were due when Run() returned

queueVars == <<delayed_task_queue, order_>>
flagVars == <<terminated_, running_>>
flushVars == <<draining, flushNow, ran, owed>>
observerVars == <<since, heard>>
vars == <<now, queueVars, timer_, flagVars, pc, flushVars, calls, observerVars>>

Off == -1
Time == 0..MaxTime
DelayedTask == [order : Nat, time : Time]
Call == [poster : Posters, time : Time]
LoopPC == {"created", "run", "loop", "wait", "flush", "next", "invoke",
           "notify", "exit", "dispose", "done", "gone"}

-----------------------------------------------------------------------------
(* The priority queue: top() is the least task by (target_time_, order_). *)

BeforeIgnoringOrder(a, b) == a.time =< b.time

Before(a, b) == \/ a.time < b.time
                \/ a.time = b.time /\ a.order < b.order

IsTop(t, q) == t \in q /\ \A u \in q : u = t \/ Before(t, u)

(* MessageLoopWin::WakeUp: the instant at which the timer becomes signaled. *)
(* A delay is truncated to whole timer units; a past time is due at once.   *)
WakeUp(t) == IF t > now THEN t - ((t - now) % TimerUnit) ELSE now

RegisterTaskWithoutWakeUp(t) ==
  /\ order_' = order_ + 1
  /\ delayed_task_queue' = delayed_task_queue \cup {[order |-> order_, time |-> t]}
  /\ UNCHANGED timer_

RegisterTask(t) ==
  LET q == delayed_task_queue \cup {[order |-> order_, time |-> t]}
  IN  /\ order_' = order_ + 1
      /\ delayed_task_queue' = q
      /\ \E top \in q : IsTop(top, q) /\ timer_' = WakeUp(top.time)

(* The bound on registrations counts the calls that are going to register. *)
Room == order_ + Cardinality(calls) < MaxTasks

-----------------------------------------------------------------------------
(* PostTask on another thread: target_time and terminated_ are read first, *)
(* RegisterTask takes the lock later.  Any target covers PostTask (now),   *)
(* PostDelayedTask (now plus a delay) and PostTaskForTime (any time).      *)
(* Runners are plain pointers and nothing keeps the loop for them: a call  *)
(* on a loop that is gone reads freed memory, its test may say anything,   *)
(* and what it does from there on is undefined: here, it never ends.       *)

PostTask(p, t) ==
  /\ Room
  /\ \A c \in calls : c.poster # p
  /\ ~terminated_ \/ pc = "gone"
  /\ calls' = calls \cup {[poster |-> p, time |-> t]}
  /\ UNCHANGED <<now, queueVars, timer_, flagVars, pc, flushVars, observerVars>>

PostTaskRegister(c) ==
  /\ pc # "gone"
  /\ RegisterTask(c.time)
  /\ calls' = calls \ {c}
  /\ UNCHANGED <<now, flagVars, pc, flushVars, observerVars>>

-----------------------------------------------------------------------------
(* Code on the loop thread: before Run(), or inside a task. *)

OnLoopThread == pc \in {"created", "invoke"}

LoopPostTask(t) ==
  /\ Room
  /\ OnLoopThread
  /\ ~terminated_
  /\ RegisterTask(t)
  /\ UNCHANGED <<now, flagVars, pc, flushVars, calls, observerVars>>

DoTerminateWithoutTerminate ==
  /\ OnLoopThread
  /\ terminated_' = TRUE
  /\ UNCHANGED <<now, queueVars, timer_, running_, pc, flushVars, calls, observerVars>>

DoTerminate ==
  /\ OnLoopThread
  /\ terminated_' = TRUE
  /\ running_' = FALSE
  /\ timer_' = WakeUp(now)
  /\ UNCHANGED <<now, queueVars, pc, flushVars, calls, observerVars>>

(* The tasks whose observers have been told, or will not be any more. *)
Completed == IF pc \in {"invoke", "notify"} THEN Len(ran) - 1 ELSE Len(ran)

AddTaskObserver(o) ==
  /\ OnLoopThread
  /\ since[o] = Off
  /\ since' = [since EXCEPT ![o] = Completed]
  /\ UNCHANGED <<now, queueVars, timer_, flagVars, pc, flushVars, calls, heard>>

-----------------------------------------------------------------------------
(* The loop thread. *)

DoRun ==
  /\ pc = "created"
  /\ pc' = IF terminated_ THEN "done" ELSE "run"
  /\ UNCHANGED <<now, queueVars, timer_, flagVars, flushVars, calls, observerVars>>

RunStart ==
  /\ pc = "run"
  /\ running_' = TRUE
  /\ pc' = "loop"
  /\ UNCHANGED <<now, queueVars, timer_, terminated_, flushVars, calls, observerVars>>

RunTest ==
  /\ pc = "loop"
  /\ pc' = IF running_ THEN "wait" ELSE "exit"
  /\ UNCHANGED <<now, queueVars, timer_, flagVars, flushVars, calls, observerVars>>

(* The wait consumes the signal of the auto-reset timer. *)
WaitForTimer ==
  /\ pc = "wait"
  /\ timer_ # Off
  /\ timer_ =< now
  /\ timer_' = Off
  /\ pc' = "flush"
  /\ UNCHANGED <<now, queueVars, flagVars, flushVars, calls, observerVars>>

FlushTasks ==
  /\ pc = "flush"
  /\ flushNow' = now
  /\ pc' = "next"
  /\ UNCHANGED <<now, queueVars, timer_, flagVars, draining, ran, owed, calls, observerVars>>

AfterFlush == IF draining THEN "dispose" ELSE "loop"

GetNextTaskToRunNone ==
  /\ pc = "next"
  /\ delayed_task_queue = {}
  /\ pc' = AfterFlush
  /\ UNCHANGED <<now, queueVars, timer_, flagVars, flushVars, calls, observerVars>>

(* The top task is not due yet: the timer is armed for it. *)
GetNextTaskToRunLaterNoWakeUp ==
  /\ pc = "next"
  /\ \E top \in delayed_task_queue :
        IsTop(top, delayed_task_queue) /\ top.time > flushNow
  /\ pc' = AfterFlush
  /\ UNCHANGED <<now, queueVars, timer_, flagVars, flushVars, calls, observerVars>>

GetNextTaskToRunLater ==
  /\ pc = "next"
  /\ \E top \in delayed_task_queue :
        /\ IsTop(top, delayed_task_queue)
        /\ top.time > flushNow
        /\ timer_' = WakeUp(top.time)
  /\ pc' = AfterFlush
  /\ UNCHANGED <<now, queueVars, flagVars, flushVars, calls, observerVars>>

GetNextTaskToRunEarly ==
  /\ pc = "next"
  /\ \E top \in delayed_task_queue :
        /\ IsTop(top, delayed_task_queue)
        /\ timer_' = WakeUp(top.time)
        /\ delayed_task_queue' = delayed_task_queue \ {top}
        /\ ran' = Append(ran, top)
  /\ pc' = "invoke"
  /\ UNCHANGED <<now, order_, flagVars, draining, flushNow, owed, calls, observerVars>>

(* The timer is armed for the top task before that task is popped. *)
GetNextTaskToRun ==
  /\ pc = "next"
  /\ \E top \in delayed_task_queue :
        /\ IsTop(top, delayed_task_queue)
        /\ top.time =< flushNow
        /\ timer_' = WakeUp(top.time)
        /\ delayed_task_queue' = delayed_task_queue \ {top}
        /\ ran' = Append(ran, top)
  /\ pc' = "invoke"
  /\ UNCHANGED <<now, order_, flagVars, draining, flushNow, owed, calls, observerVars>>

TaskReturns ==
  /\ pc = "invoke"
  /\ pc' = "notify"
  /\ UNCHANGED <<now, queueVars, timer_, flagVars, flushVars, calls, observerVars>>

NotifyObserversUnlessDraining ==
  /\ pc = "notify"
  /\ heard' = [o \in Observers |->
                 IF since[o] # Off /\ ~draining THEN heard[o] + 1 ELSE heard[o]]
  /\ pc' = "next"
  /\ UNCHANGED <<now, queueVars, timer_, flagVars, flushVars, calls, since>>

(* GetObserversToNotify, then the calls: one for each observer there is now. *)
NotifyObservers ==
  /\ pc = "notify"
  /\ heard' = [o \in Observers |-> IF since[o] # Off THEN heard[o] + 1 ELSE heard[o]]
  /\ pc' = "next"
  /\ UNCHANGED <<now, queueVars, timer_, flagVars, flushVars, calls, since>>

RunReturnsWithoutFlush ==
  /\ pc = "exit"
  /\ terminated_' = TRUE
  /\ owed' = {t \in delayed_task_queue : t.time =< now}
  /\ pc' = "dispose"
  /\ UNCHANGED <<now, queueVars, timer_, running_, draining, flushNow, ran, calls, observerVars>>

(* DoRun after Run(): terminated_ is set, what has expired is still run. *)
RunReturns ==
  /\ pc = "exit"
  /\ terminated_' = TRUE
  /\ draining' = TRUE
  /\ owed' = {t \in delayed_task_queue : t.time =< now}
  /\ pc' = "flush"
  /\ UNCHANGED <<now, queueVars, timer_, running_, flushNow, ran, calls, observerVars>>

DisposeTasks ==
  /\ pc = "dispose"
  /\ delayed_task_queue' = {}
  /\ pc' = "done"
  /\ UNCHANGED <<now, order_, timer_, flagVars, flushVars, calls, observerVars>>

(* ~MessageLoopImpl, whatever PostTask calls are under way: whether there    *)
(* are any is what LoopOutlivesCalls of module ThreadLifecycle asks.         *)
Dispose ==
  /\ pc = "done"
  /\ delayed_task_queue' = {}
  /\ pc' = "gone"
  /\ UNCHANGED <<now, order_, timer_, flagVars, flushVars, calls, observerVars>>

Tick ==
  /\ now < MaxTime
  /\ now' = now + 1
  /\ UNCHANGED <<queueVars, timer_, flagVars, pc, flushVars, calls, observerVars>>

-----------------------------------------------------------------------------
Init ==
  /\ now = 0
  /\ delayed_task_queue = {}
  /\ order_ = 0
  /\ timer_ = Off
  /\ terminated_ = FALSE
  /\ running_ = FALSE
  /\ pc = "created"
  /\ draining = FALSE
  /\ flushNow = 0
  /\ calls = {}
  /\ ran = <<>>
  /\ since = [o \in Observers |-> Off]
  /\ heard = [o \in Observers |-> 0]
  /\ owed = {}

LoopThread ==
  \/ DoRun
  \/ RunStart
  \/ RunTest
  \/ WaitForTimer
  \/ FlushTasks
  \/ GetNextTaskToRunNone
  \/ GetNextTaskToRunLater
  \/ GetNextTaskToRun
  \/ TaskReturns
  \/ NotifyObservers
  \/ RunReturns
  \/ DisposeTasks
  \/ Dispose

Next ==
  \/ \E p \in Posters, t \in Time : PostTask(p, t)
  \/ \E c \in calls : PostTaskRegister(c)
  \/ \E t \in Time : LoopPostTask(t)
  \/ DoTerminate
  \/ \E o \in Observers : AddTaskObserver(o)
  \/ LoopThread
  \/ Tick

(* The scheduler runs every thread, tasks return, and time passes. *)
Fairness ==
  /\ WF_vars(LoopThread)
  /\ WF_vars(\E c \in calls : PostTaskRegister(c))
  /\ WF_vars(Tick)

Spec == Init /\ [][Next]_vars

FairSpec == Spec /\ Fairness

-----------------------------------------------------------------------------
TypeOK ==
  /\ now \in Time
  /\ delayed_task_queue \in SUBSET DelayedTask
  /\ order_ \in Nat
  /\ timer_ \in Time \cup {Off}
  /\ terminated_ \in BOOLEAN
  /\ running_ \in BOOLEAN
  /\ pc \in LoopPC
  /\ draining \in BOOLEAN
  /\ flushNow \in Time
  /\ calls \in SUBSET Call
  /\ ran \in Seq(DelayedTask)
  /\ since \in [Observers -> Int]
  /\ heard \in [Observers -> Nat]
  /\ owed \in SUBSET DelayedTask

(* Between flushes the timer is armed no later than the earliest pending    *)
(* task needs, so the INFINITE wait in MessageLoopWin::Run cannot miss a    *)
(* task, whichever way RegisterTask and GetNextTaskToRun re-arm the timer.  *)
NoLostWakeUp ==
  pc \in {"created", "run", "loop", "wait"} =>
     \A t \in delayed_task_queue :
        timer_ # Off /\ (timer_ =< now \/ timer_ =< t.time)

(* GetNextTaskToRun compares with a clock sample taken at the start of the  *)
(* flush: no task is ever run before its target time.                       *)
NeverEarly == \A i \in 1..Len(ran) : ran[i].time =< now

(* A task never runs after one that was registered later with the same or a *)
(* later target, and never twice: the order the loop tests assert, whatever *)
(* is registered while a flush is in progress.                              *)
RunsInOrder ==
  \A i, j \in 1..Len(ran) :
     i < j => ~(ran[j].order =< ran[i].order /\ ran[j].time =< ran[i].time)

(* DoRun runs what has expired before DisposeTasks: every task due when     *)
(* Run() returned has run by the time the queue is cleared.                 *)
DueTasksRunBeforeDisposal ==
  pc \in {"dispose", "done", "gone"} => \A t \in owed : \E i \in 1..Len(ran) : ran[i] = t

(* An observer is told once of every task that completes after it is added, *)
(* the task that adds it and those of the final flush included.             *)
ObserversHearEveryTask ==
  \A o \in Observers : since[o] # Off => heard[o] = Completed - since[o]

(* Every registered task is eventually run or destroyed: none stays in the  *)
(* queue of a loop that sleeps or that has terminated.                      *)
EveryTaskSettles ==
  \A n \in 0..(MaxTasks - 1) :
     (\E t \in delayed_task_queue : t.order = n) ~>
        ~(\E t \in delayed_task_queue : t.order = n)

(* Once terminated_ is set, Run() returns and DoRun finishes, although      *)
(* RegisterTask and GetNextTaskToRun keep re-arming the timer that          *)
(* Terminate set.                                                           *)
TerminateEndsLoop == terminated_ ~> pc = "gone"
=============================================================================
