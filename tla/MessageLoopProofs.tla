--------------------------- MODULE MessageLoopProofs ---------------------------
(***************************************************************************)
(* Proofs of the safety properties of MessageLoop for every clock bound,   *)
(* every number of tasks, every set of posters and observers, and every    *)
(* timer resolution.                                                       *)
(***************************************************************************)
EXTENDS MessageLoop, TLAPS

-----------------------------------------------------------------------------
(* The remainder of a delay lies between zero and the delay, so truncating  *)
(* it to timer units moves the due time backwards but never into the past.  *)
LEMMA Truncation ==
  ASSUME NEW d \in Nat, NEW u \in Nat \ {0}
  PROVE  d % u \in Nat /\ d % u =< d
<1>1. d % u \in 0..(u - 1) /\ d \div u \in Int /\ d = u * (d \div u) + (d % u)
  OBVIOUS
<1>2. d \div u >= 0
  OBVIOUS
<1>3. u * (d \div u) >= 0
  BY <1>1, <1>2
<1> QED  BY <1>1, <1>3

(* WakeUp arms the timer for an instant that is now, or later than now and  *)
(* no later than the time asked for.                                        *)
LEMMA WakeUpRange ==
  ASSUME TypeOK, NEW t \in Time
  PROVE  /\ WakeUp(t) \in Time
         /\ WakeUp(t) # Off
         /\ WakeUp(t) =< now \/ WakeUp(t) =< t
<1>1. now \in Nat /\ t \in Nat /\ now =< MaxTime /\ t =< MaxTime
  BY MessageLoopAssumption DEF TypeOK, Time
<1>2. CASE t > now
  <2>1. t - now \in Nat
    BY <1>1, <1>2
  <2>2. (t - now) % TimerUnit \in Nat /\ (t - now) % TimerUnit =< t - now
    BY <2>1, Truncation, MessageLoopAssumption
  <2>3. WakeUp(t) = t - ((t - now) % TimerUnit)
    BY <1>2 DEF WakeUp
  <2> QED  BY <1>1, <2>2, <2>3, MessageLoopAssumption DEF Time, Off
<1>3. CASE ~(t > now)
  BY <1>1, <1>3, MessageLoopAssumption DEF WakeUp, Time, Off
<1> QED  BY <1>2, <1>3

(* The top of the queue has the least target time.                          *)
LEMMA TopIsEarliest ==
  ASSUME NEW q \in SUBSET DelayedTask, NEW top \in q, IsTop(top, q), NEW u \in q
  PROVE  top.time =< u.time
<1>1. top.time \in Int /\ u.time \in Int
  BY MessageLoopAssumption DEF DelayedTask, Time
<1> QED  BY <1>1 DEF IsTop, Before

(* The tasks RegisterTask puts in the queue, and how it arms the timer.     *)
LEMMA RegisterTaskEffect ==
  ASSUME TypeOK, NEW t \in Time, RegisterTask(t)
  PROVE  /\ order_' \in Nat /\ order_' = order_ + 1
         /\ delayed_task_queue' \in SUBSET DelayedTask
         /\ delayed_task_queue' = delayed_task_queue \cup {[order |-> order_, time |-> t]}
         /\ timer_' \in Time /\ timer_' # Off
         /\ \A u \in delayed_task_queue' : timer_' =< now \/ timer_' =< u.time
<1> DEFINE q == delayed_task_queue \cup {[order |-> order_, time |-> t]}
<1>1. q \in SUBSET DelayedTask
  BY DEF TypeOK, DelayedTask
<1>2. delayed_task_queue' = q /\ order_' = order_ + 1
  BY DEF RegisterTask
<1>3. PICK top \in q : IsTop(top, q) /\ timer_' = WakeUp(top.time)
  BY DEF RegisterTask
<1>4. top.time \in Time
  BY <1>1, <1>3 DEF DelayedTask
<1>5. timer_' \in Time /\ timer_' # Off /\ (timer_' =< now \/ timer_' =< top.time)
  BY <1>3, <1>4, WakeUpRange
<1>6. ASSUME NEW u \in q PROVE timer_' =< now \/ timer_' =< u.time
  <2>1. top.time =< u.time
    BY <1>1, <1>3, TopIsEarliest
  <2>2. u.time \in Time
    BY <1>1 DEF DelayedTask
  <2> QED  BY <1>4, <1>5, <2>1, <2>2, MessageLoopAssumption DEF Time
<1> QED  BY <1>1, <1>2, <1>5, <1>6 DEF TypeOK

-----------------------------------------------------------------------------
(* Type correctness: every step of the loop, its posters and the clock      *)
(* keeps the state well formed; in particular WakeUp never arms the timer   *)
(* beyond the last target time.                                             *)
THEOREM TypeCorrect == Spec => []TypeOK
<1>1. Init => TypeOK
  <2> SUFFICES ASSUME Init PROVE TypeOK
    OBVIOUS
  <2>1. 0 \in Time /\ Off \in Int
    BY MessageLoopAssumption DEF Time, Off
  <2>2. ran \in Seq(DelayedTask)
    BY DEF Init
  <2>3. since \in [Observers -> Int] /\ heard \in [Observers -> Nat]
    BY <2>1 DEF Init
  <2> QED  BY <2>1, <2>2, <2>3 DEF Init, TypeOK, LoopPC
<1>2. TypeOK /\ [Next]_vars => TypeOK'
  <2> SUFFICES ASSUME TypeOK, [Next]_vars PROVE TypeOK'
    OBVIOUS
  <2> USE DEF queueVars, flagVars, flushVars, observerVars
  <2>1. ASSUME NEW p \in Posters, NEW t \in Time, PostTask(p, t) PROVE TypeOK'
    BY <2>1 DEF PostTask, TypeOK, Call
  <2>2. ASSUME NEW c \in calls, PostTaskRegister(c) PROVE TypeOK'
    <3>1. c.time \in Time
      BY DEF TypeOK, Call
    <3>2. RegisterTask(c.time)
      BY <2>2 DEF PostTaskRegister
    <3> QED  BY <2>2, <3>1, <3>2, RegisterTaskEffect DEF PostTaskRegister, TypeOK
  <2>3. ASSUME NEW t \in Time, LoopPostTask(t) PROVE TypeOK'
    <3>1. RegisterTask(t)
      BY <2>3 DEF LoopPostTask
    <3> QED  BY <2>3, <3>1, RegisterTaskEffect DEF LoopPostTask, TypeOK
  <2>4. CASE DoTerminate
    <3>1. WakeUp(now) \in Time
      BY WakeUpRange DEF TypeOK
    <3> QED  BY <2>4, <3>1 DEF DoTerminate, TypeOK
  <2>5. ASSUME NEW o \in Observers, AddTaskObserver(o) PROVE TypeOK'
    <3>1. Completed \in Int
      BY DEF Completed, TypeOK
    <3> QED  BY <2>5, <3>1 DEF AddTaskObserver, TypeOK
  <2>6. CASE DoRun \/ RunStart \/ RunTest \/ TaskReturns
    BY <2>6 DEF DoRun, RunStart, RunTest, TaskReturns, TypeOK, LoopPC
  <2>7. CASE WaitForTimer \/ FlushTasks \/ RunReturns
    BY <2>7 DEF WaitForTimer, FlushTasks, RunReturns, TypeOK, LoopPC
  <2>8. CASE GetNextTaskToRunNone \/ DisposeTasks \/ Dispose
    BY <2>8 DEF GetNextTaskToRunNone, DisposeTasks, Dispose, AfterFlush, TypeOK, LoopPC
  <2>9. CASE GetNextTaskToRunLater
    <3>1. PICK top \in delayed_task_queue : timer_' = WakeUp(top.time)
      BY <2>9 DEF GetNextTaskToRunLater
    <3>2. top.time \in Time
      BY DEF TypeOK, DelayedTask
    <3>3. timer_' \in Time
      BY <3>1, <3>2, WakeUpRange
    <3> QED  BY <2>9, <3>3 DEF GetNextTaskToRunLater, AfterFlush, TypeOK, LoopPC
  <2>10. CASE GetNextTaskToRun
    <3>1. PICK top \in delayed_task_queue : /\ timer_' = WakeUp(top.time)
                                            /\ delayed_task_queue' = delayed_task_queue \ {top}
                                            /\ ran' = Append(ran, top)
      BY <2>10 DEF GetNextTaskToRun
    <3>2. top \in DelayedTask /\ top.time \in Time
      BY DEF TypeOK, DelayedTask
    <3>3. timer_' \in Time
      BY <3>1, <3>2, WakeUpRange
    <3>4. ran' \in Seq(DelayedTask)
      BY <3>1, <3>2 DEF TypeOK
    <3> QED  BY <2>10, <3>1, <3>3, <3>4 DEF GetNextTaskToRun, TypeOK, LoopPC
  <2>11. CASE NotifyObservers
    BY <2>11 DEF NotifyObservers, TypeOK, LoopPC
  <2>12. CASE Tick
    BY <2>12, MessageLoopAssumption DEF Tick, TypeOK, Time
  <2>13. CASE UNCHANGED vars
    BY <2>13 DEF vars, TypeOK
  <2> QED
    BY <2>1, <2>2, <2>3, <2>4, <2>5, <2>6, <2>7, <2>8, <2>9, <2>10, <2>11, <2>12, <2>13
    DEF Next, LoopThread
<1> QED  BY <1>1, <1>2, PTL DEF Spec

-----------------------------------------------------------------------------
(* No wake-up is lost: whenever the loop is between flushes, the timer is   *)
(* armed early enough for every pending task.  Given the types, the         *)
(* property is inductive: the only steps that add a task or re-enter the    *)
(* loop re-arm the timer for the top of the queue in the same critical      *)
(* section.                                                                 *)
THEOREM WakeUpNeverLost == Spec => []NoLostWakeUp
<1>1. Init => NoLostWakeUp
  BY DEF Init, NoLostWakeUp
<1>2. TypeOK /\ NoLostWakeUp /\ [Next]_vars => NoLostWakeUp'
  <2> SUFFICES ASSUME TypeOK, NoLostWakeUp, [Next]_vars PROVE NoLostWakeUp'
    OBVIOUS
  <2> USE DEF queueVars, flagVars, flushVars, observerVars
  <2>1. ASSUME NEW t \in Time, RegisterTask(t), now' = now PROVE NoLostWakeUp'
    BY <2>1, RegisterTaskEffect DEF NoLostWakeUp
  <2>2. ASSUME NEW c \in calls, PostTaskRegister(c) PROVE NoLostWakeUp'
    <3>1. c.time \in Time
      BY DEF TypeOK, Call
    <3> QED  BY <2>1, <2>2, <3>1 DEF PostTaskRegister
  <2>3. ASSUME NEW t \in Time, LoopPostTask(t) PROVE NoLostWakeUp'
    BY <2>1, <2>3 DEF LoopPostTask
  <2>4. CASE DoTerminate
    BY <2>4, MessageLoopAssumption DEF DoTerminate, WakeUp, NoLostWakeUp, TypeOK, Time, Off
  <2>5. CASE DoRun \/ RunStart \/ RunTest
    BY <2>5 DEF DoRun, RunStart, RunTest, NoLostWakeUp
  <2>6. CASE WaitForTimer \/ FlushTasks \/ GetNextTaskToRun \/ TaskReturns
             \/ NotifyObservers \/ RunReturns \/ DisposeTasks \/ Dispose
    BY <2>6 DEF WaitForTimer, FlushTasks, GetNextTaskToRun, TaskReturns, NotifyObservers,
                RunReturns, DisposeTasks, Dispose, NoLostWakeUp
  <2>7. CASE GetNextTaskToRunNone
    BY <2>7 DEF GetNextTaskToRunNone, NoLostWakeUp
  <2>8. CASE GetNextTaskToRunLater
    <3>1. PICK top \in delayed_task_queue :
                 IsTop(top, delayed_task_queue) /\ timer_' = WakeUp(top.time)
      BY <2>8 DEF GetNextTaskToRunLater
    <3>2. delayed_task_queue \in SUBSET DelayedTask /\ top.time \in Time
      BY DEF TypeOK, DelayedTask
    <3>3. timer_' \in Time /\ timer_' # Off /\ (timer_' =< now \/ timer_' =< top.time)
      BY <3>1, <3>2, WakeUpRange
    <3>4. ASSUME NEW u \in delayed_task_queue PROVE timer_' =< now \/ timer_' =< u.time
      <4>1. top.time =< u.time /\ u.time \in Time
        BY <3>1, <3>2, TopIsEarliest DEF DelayedTask
      <4> QED  BY <3>2, <3>3, <4>1, MessageLoopAssumption DEF Time
    <3> QED  BY <2>8, <3>3, <3>4 DEF GetNextTaskToRunLater, NoLostWakeUp
  <2>9. CASE Tick
    BY <2>9, MessageLoopAssumption DEF Tick, NoLostWakeUp, TypeOK, Time, Off, DelayedTask
  <2>10. ASSUME NEW p \in Posters, NEW t \in Time, PostTask(p, t) PROVE NoLostWakeUp'
    BY <2>10 DEF PostTask, NoLostWakeUp
  <2>11. ASSUME NEW o \in Observers, AddTaskObserver(o) PROVE NoLostWakeUp'
    BY <2>11 DEF AddTaskObserver, NoLostWakeUp
  <2>12. CASE UNCHANGED vars
    BY <2>12 DEF vars, NoLostWakeUp
  <2> QED
    BY <2>2, <2>3, <2>4, <2>5, <2>6, <2>7, <2>8, <2>9, <2>10, <2>11, <2>12
    DEF Next, LoopThread
<1> QED  BY <1>1, <1>2, TypeCorrect, PTL DEF Spec

-----------------------------------------------------------------------------
(* RunsInOrder alone is not inductive: it says nothing of the tasks still   *)
(* queued.  Two facts close it: order_ is above every order given out, and  *)
(* no queued task should have run before one that has.                      *)
OrderInv ==
  /\ \A t \in delayed_task_queue : t.order < order_
  /\ \A i \in 1..Len(ran) : ran[i].order < order_
  /\ \A i \in 1..Len(ran) : \A t \in delayed_task_queue :
        t.order =< ran[i].order => t.time > ran[i].time
  /\ RunsInOrder

(* Tasks run in the order of (target time, registration), each at most      *)
(* once, for every interleaving of RegisterTask with the flush.             *)
THEOREM TasksRunInOrder == Spec => []RunsInOrder
<1>1. Init => OrderInv
  BY DEF Init, OrderInv, RunsInOrder
<1>2. TypeOK /\ OrderInv /\ [Next]_vars => OrderInv'
  <2> SUFFICES ASSUME TypeOK, OrderInv, [Next]_vars PROVE OrderInv'
    OBVIOUS
  <2> USE DEF queueVars, flagVars, flushVars, observerVars
  <2>0. /\ order_ \in Nat
        /\ \A t \in delayed_task_queue : t.order \in Nat /\ t.time \in Nat
        /\ \A i \in 1..Len(ran) : ran[i].order \in Nat /\ ran[i].time \in Nat
    <3>1. \A t \in DelayedTask : t.order \in Nat /\ t.time \in Nat
      BY MessageLoopAssumption DEF DelayedTask, Time
    <3>2. \A i \in 1..Len(ran) : ran[i] \in DelayedTask
      BY DEF TypeOK
    <3> QED  BY <3>1, <3>2 DEF TypeOK
  <2>1. ASSUME NEW t \in Time, RegisterTask(t), ran' = ran PROVE OrderInv'
    <3> DEFINE new == [order |-> order_, time |-> t]
    <3>1. /\ delayed_task_queue' = delayed_task_queue \cup {new}
          /\ order_' = order_ + 1
      BY <2>1, RegisterTaskEffect
    <3>2. \A u \in delayed_task_queue' : u.order < order_'
      BY <2>0, <3>1 DEF OrderInv
    <3>3. \A i \in 1..Len(ran) : ran[i].order < order_'
      BY <2>0, <3>1 DEF OrderInv
    <3>4. \A i \in 1..Len(ran) : \A u \in delayed_task_queue' :
             u.order =< ran[i].order => u.time > ran[i].time
      BY <2>0, <3>1 DEF OrderInv
    <3> QED  BY <2>1, <3>2, <3>3, <3>4 DEF OrderInv, RunsInOrder
  <2>2. ASSUME NEW c \in calls, PostTaskRegister(c) PROVE OrderInv'
    <3>1. c.time \in Time
      BY DEF TypeOK, Call
    <3> QED  BY <2>1, <2>2, <3>1 DEF PostTaskRegister
  <2>3. ASSUME NEW t \in Time, LoopPostTask(t) PROVE OrderInv'
    BY <2>1, <2>3 DEF LoopPostTask
  <2>4. CASE GetNextTaskToRun
    <3>1. PICK top \in delayed_task_queue :
                 /\ IsTop(top, delayed_task_queue)
                 /\ delayed_task_queue' = delayed_task_queue \ {top}
                 /\ ran' = Append(ran, top)
      BY <2>4 DEF GetNextTaskToRun
    <3>2. order_' = order_
      BY <2>4 DEF GetNextTaskToRun
    <3>3. /\ ran \in Seq(DelayedTask) /\ Len(ran) \in Nat
          /\ Len(ran') = Len(ran) + 1
          /\ ran'[Len(ran) + 1] = top
          /\ \A i \in 1..Len(ran) : ran'[i] = ran[i]
      BY <3>1 DEF TypeOK
    <3>4. \A i \in 1..Len(ran') : i \in 1..Len(ran) \/ (i = Len(ran) + 1 /\ ran'[i] = top)
      BY <3>3
    <3>5. \A i \in 1..Len(ran') : ran'[i].order < order_'
      BY <3>2, <3>3, <3>4 DEF OrderInv
    <3>6. \A t \in delayed_task_queue \ {top} : t.order =< top.order => t.time > top.time
      BY <2>0, <3>1 DEF IsTop, Before
    <3>7. \A i \in 1..Len(ran') : \A t \in delayed_task_queue' :
             t.order =< ran'[i].order => t.time > ran'[i].time
      BY <3>1, <3>3, <3>4, <3>6 DEF OrderInv
    <3>8. \A i \in 1..Len(ran) : ~(top.order =< ran[i].order /\ top.time =< ran[i].time)
      BY <2>0, <3>1 DEF OrderInv
    <3>9. RunsInOrder'
      <4> SUFFICES ASSUME NEW i \in 1..Len(ran'), NEW j \in 1..Len(ran'), i < j
                   PROVE  ~(ran'[j].order =< ran'[i].order /\ ran'[j].time =< ran'[i].time)
        BY DEF RunsInOrder
      <4>1. i \in 1..Len(ran) /\ ran'[i] = ran[i]
        BY <3>3
      <4>2. CASE j \in 1..Len(ran)
        BY <3>3, <4>1, <4>2 DEF OrderInv, RunsInOrder
      <4>3. CASE ran'[j] = top
        BY <3>8, <4>1, <4>3
      <4> QED  BY <3>4, <4>2, <4>3
    <3> QED  BY <3>1, <3>2, <3>5, <3>7, <3>9 DEF OrderInv
  <2>5. CASE DisposeTasks \/ Dispose
    BY <2>5 DEF DisposeTasks, Dispose, OrderInv, RunsInOrder
  <2>6. CASE DoTerminate \/ DoRun \/ RunStart \/ RunTest \/ WaitForTimer \/ FlushTasks
             \/ GetNextTaskToRunNone \/ GetNextTaskToRunLater \/ TaskReturns
             \/ NotifyObservers \/ RunReturns \/ Tick
    BY <2>6 DEF DoTerminate, DoRun, RunStart, RunTest, WaitForTimer, FlushTasks,
                GetNextTaskToRunNone, GetNextTaskToRunLater, TaskReturns,
                NotifyObservers, RunReturns, Tick, OrderInv, RunsInOrder
  <2>7. ASSUME NEW p \in Posters, NEW t \in Time, PostTask(p, t) PROVE OrderInv'
    BY <2>7 DEF PostTask, OrderInv, RunsInOrder
  <2>8. ASSUME NEW o \in Observers, AddTaskObserver(o) PROVE OrderInv'
    BY <2>8 DEF AddTaskObserver, OrderInv, RunsInOrder
  <2>9. CASE UNCHANGED vars
    BY <2>9 DEF vars, OrderInv, RunsInOrder
  <2> QED
    BY <2>2, <2>3, <2>4, <2>5, <2>6, <2>7, <2>8, <2>9 DEF Next, LoopThread
<1>3. OrderInv => RunsInOrder
  BY DEF OrderInv
<1> QED  BY <1>1, <1>2, <1>3, TypeCorrect, PTL DEF Spec

-----------------------------------------------------------------------------
(* What a flush compares targets with is a past reading of the clock.       *)
EarlyInv == flushNow =< now /\ NeverEarly

(* No task runs before its target time.                                     *)
THEOREM TasksNeverEarly == Spec => []NeverEarly
<1>1. Init => EarlyInv
  BY DEF Init, EarlyInv, NeverEarly
<1>2. TypeOK /\ EarlyInv /\ [Next]_vars => EarlyInv'
  <2> SUFFICES ASSUME TypeOK, EarlyInv, [Next]_vars PROVE EarlyInv'
    OBVIOUS
  <2> USE DEF queueVars, flagVars, flushVars, observerVars
  <2>0. /\ now \in Nat /\ flushNow \in Nat
        /\ \A t \in delayed_task_queue : t.time \in Nat
        /\ \A i \in 1..Len(ran) : ran[i].time \in Nat
    <3>1. \A t \in DelayedTask : t.time \in Nat
      BY MessageLoopAssumption DEF DelayedTask, Time
    <3>2. \A i \in 1..Len(ran) : ran[i] \in DelayedTask
      BY DEF TypeOK
    <3> QED  BY <3>1, <3>2, MessageLoopAssumption DEF TypeOK, Time
  <2>1. CASE GetNextTaskToRun
    <3>1. PICK top \in delayed_task_queue : top.time =< flushNow /\ ran' = Append(ran, top)
      BY <2>1 DEF GetNextTaskToRun
    <3>2. \A i \in 1..Len(ran') : (i \in 1..Len(ran) /\ ran'[i] = ran[i]) \/ ran'[i] = top
      BY <3>1 DEF TypeOK
    <3> QED  BY <2>0, <2>1, <3>1, <3>2 DEF GetNextTaskToRun, EarlyInv, NeverEarly
  <2>2. CASE FlushTasks \/ Tick
    BY <2>0, <2>2 DEF FlushTasks, Tick, EarlyInv, NeverEarly
  <2>3. CASE UNCHANGED <<now, flushNow, ran>>
    BY <2>3 DEF EarlyInv, NeverEarly
  <2>4. CASE DoTerminate \/ DoRun \/ RunStart \/ RunTest \/ WaitForTimer
             \/ GetNextTaskToRunNone \/ GetNextTaskToRunLater \/ TaskReturns
             \/ NotifyObservers \/ RunReturns \/ DisposeTasks \/ Dispose
    BY <2>3, <2>4 DEF DoTerminate, DoRun, RunStart, RunTest, WaitForTimer,
                      GetNextTaskToRunNone, GetNextTaskToRunLater, TaskReturns,
                      NotifyObservers, RunReturns, DisposeTasks, Dispose
  <2> QED
    BY <2>1, <2>2, <2>3, <2>4
    DEF Next, LoopThread, PostTask, PostTaskRegister, LoopPostTask, AddTaskObserver, vars
<1>3. EarlyInv => NeverEarly
  BY DEF EarlyInv
<1> QED  BY <1>1, <1>2, <1>3, TypeCorrect, PTL DEF Spec

-----------------------------------------------------------------------------
(* Why the final flush settles what Run() left: an owed task is queued or   *)
(* has run, and while the final flush goes on it is due at its sample.      *)
HasRun(t) == \E i \in 1..Len(ran) : ran[i] = t

OwedInv ==
  /\ ~draining => owed = {}
  /\ draining => pc \in {"flush", "next", "invoke", "notify", "dispose", "done", "gone"}
  /\ pc \in {"flush", "next", "invoke", "notify"} =>
        \A t \in owed : t \in delayed_task_queue \/ HasRun(t)
  /\ pc = "flush" => \A t \in owed : t.time =< now
  /\ pc \in {"next", "invoke", "notify"} => \A t \in owed : t.time =< flushNow
  /\ DueTasksRunBeforeDisposal

(* Every task that was due when Run() returned has run before DisposeTasks. *)
THEOREM DueTasksRun == Spec => []DueTasksRunBeforeDisposal
<1>1. Init => OwedInv
  BY DEF Init, OwedInv, DueTasksRunBeforeDisposal
<1>2. TypeOK /\ OwedInv /\ [Next]_vars => OwedInv'
  <2> SUFFICES ASSUME TypeOK, OwedInv, [Next]_vars PROVE OwedInv'
    OBVIOUS
  <2> USE DEF queueVars, flagVars, flushVars, observerVars
  <2>0. /\ now \in Nat /\ flushNow \in Nat /\ draining \in BOOLEAN
        /\ \A t \in delayed_task_queue : t.time \in Nat
        /\ \A t \in owed : t.time \in Nat
    <3>1. \A t \in DelayedTask : t.time \in Nat
      BY MessageLoopAssumption DEF DelayedTask, Time
    <3> QED  BY <3>1, MessageLoopAssumption DEF TypeOK, Time
  <2>1. ASSUME NEW t \in Time, RegisterTask(t), UNCHANGED <<now, pc, flushVars>>
        PROVE  OwedInv'
    <3>1. delayed_task_queue \subseteq delayed_task_queue'
      BY <2>1, RegisterTaskEffect
    <3> QED  BY <2>1, <3>1 DEF OwedInv, DueTasksRunBeforeDisposal, HasRun
  <2>2. ASSUME NEW c \in calls, PostTaskRegister(c) PROVE OwedInv'
    <3>1. c.time \in Time
      BY DEF TypeOK, Call
    <3> QED  BY <2>1, <2>2, <3>1 DEF PostTaskRegister
  <2>3. ASSUME NEW t \in Time, LoopPostTask(t) PROVE OwedInv'
    BY <2>1, <2>3 DEF LoopPostTask
  <2>4. CASE DoRun \/ RunStart \/ RunTest \/ WaitForTimer
    BY <2>4 DEF DoRun, RunStart, RunTest, WaitForTimer, OwedInv, DueTasksRunBeforeDisposal
  <2>5. CASE FlushTasks
    BY <2>5 DEF FlushTasks, OwedInv, DueTasksRunBeforeDisposal, HasRun
  <2>6. CASE GetNextTaskToRunNone
    BY <2>6 DEF GetNextTaskToRunNone, AfterFlush, OwedInv, DueTasksRunBeforeDisposal, HasRun
  <2>7. CASE GetNextTaskToRunLater
    <3>1. PICK top \in delayed_task_queue :
                 IsTop(top, delayed_task_queue) /\ top.time > flushNow
      BY <2>7 DEF GetNextTaskToRunLater
    <3>2. ASSUME NEW t \in owed PROVE HasRun(t)
      <4>1. t.time =< flushNow
        BY <2>7 DEF GetNextTaskToRunLater, OwedInv
      <4>2. t \notin delayed_task_queue
        <5> SUFFICES ASSUME t \in delayed_task_queue PROVE FALSE
          OBVIOUS
        <5>1. top.time =< t.time
          BY <3>1, TopIsEarliest DEF TypeOK
        <5> QED  BY <2>0, <3>1, <4>1, <5>1
      <4> QED  BY <2>7, <4>2 DEF GetNextTaskToRunLater, OwedInv
    <3> QED  BY <2>7, <3>2 DEF GetNextTaskToRunLater, AfterFlush, OwedInv,
                               DueTasksRunBeforeDisposal, HasRun
  <2>8. CASE GetNextTaskToRun
    <3>1. PICK top \in delayed_task_queue : /\ delayed_task_queue' = delayed_task_queue \ {top}
                                            /\ ran' = Append(ran, top)
      BY <2>8 DEF GetNextTaskToRun
    <3>2. /\ Len(ran) \in Nat /\ Len(ran') = Len(ran) + 1
          /\ ran'[Len(ran) + 1] = top
          /\ \A i \in 1..Len(ran) : ran'[i] = ran[i]
      BY <3>1 DEF TypeOK
    <3>3. \A t : (HasRun(t) \/ t = top) => HasRun(t)'
      BY <3>2 DEF HasRun
    <3>4. \A t \in owed : t \in delayed_task_queue' \/ HasRun(t)'
      BY <2>8, <3>1, <3>3 DEF GetNextTaskToRun, OwedInv
    <3> QED  BY <2>8, <3>4 DEF GetNextTaskToRun, OwedInv, DueTasksRunBeforeDisposal
  <2>9. CASE TaskReturns \/ NotifyObservers
    BY <2>9 DEF TaskReturns, NotifyObservers, OwedInv, DueTasksRunBeforeDisposal, HasRun
  <2>10. CASE RunReturns
    BY <2>10 DEF RunReturns, OwedInv, DueTasksRunBeforeDisposal, HasRun
  <2>11. CASE DisposeTasks \/ Dispose
    BY <2>11 DEF DisposeTasks, Dispose, OwedInv, DueTasksRunBeforeDisposal
  <2>12. CASE Tick
    BY <2>0, <2>12 DEF Tick, OwedInv, DueTasksRunBeforeDisposal, HasRun
  <2>13. CASE UNCHANGED <<now, delayed_task_queue, pc, flushVars>>
    BY <2>13 DEF OwedInv, DueTasksRunBeforeDisposal, HasRun
  <2> QED
    BY <2>2, <2>3, <2>4, <2>5, <2>6, <2>7, <2>8, <2>9, <2>10, <2>11, <2>12, <2>13
    DEF Next, LoopThread, PostTask, AddTaskObserver, DoTerminate, vars
<1>3. OwedInv => DueTasksRunBeforeDisposal
  BY DEF OwedInv
<1> QED  BY <1>1, <1>2, <1>3, TypeCorrect, PTL DEF Spec

-----------------------------------------------------------------------------
(* Inside a task, and until its observers are told, ran ends with it; an    *)
(* observer that was not added has heard nothing.                           *)
ObserverInv ==
  /\ pc \in {"invoke", "notify"} => Len(ran) > 0
  /\ \A o \in Observers : since[o] = Off => heard[o] = 0
  /\ ObserversHearEveryTask

(* Observers are told once of every task completed since they were added.   *)
THEOREM ObserversHear == Spec => []ObserversHearEveryTask
<1>1. Init => ObserverInv
  BY DEF Init, ObserverInv, ObserversHearEveryTask
<1>2. TypeOK /\ ObserverInv /\ [Next]_vars => ObserverInv'
  <2> SUFFICES ASSUME TypeOK, ObserverInv, [Next]_vars PROVE ObserverInv'
    OBVIOUS
  <2> USE DEF queueVars, flagVars, flushVars, observerVars
  <2>0. /\ Len(ran) \in Nat
        /\ \A o \in Observers : since[o] \in Int /\ heard[o] \in Nat
    BY DEF TypeOK
  <2>1. ASSUME NEW o \in Observers, AddTaskObserver(o) PROVE ObserverInv'
    <3>1. Completed \in Nat /\ Completed # Off
      BY <2>0 DEF Completed, ObserverInv, Off
    <3>2. /\ since' = [since EXCEPT ![o] = Completed] /\ since[o] = Off
          /\ UNCHANGED <<pc, ran, heard>>
      BY <2>1 DEF AddTaskObserver
    <3>3. Completed' = Completed
      BY <3>2 DEF Completed
    <3>4. since'[o] = Completed /\ \A x \in Observers : x # o => since'[x] = since[x]
      BY <3>2 DEF TypeOK
    <3> QED  BY <2>0, <3>1, <3>2, <3>3, <3>4 DEF ObserverInv, ObserversHearEveryTask
  <2>2. CASE GetNextTaskToRun
    <3>1. Len(ran') = Len(ran) + 1
      BY <2>2 DEF GetNextTaskToRun, TypeOK
    <3>2. Completed' = Completed
      BY <2>0, <2>2, <3>1 DEF GetNextTaskToRun, Completed
    <3> QED  BY <2>0, <2>2, <3>1, <3>2
             DEF GetNextTaskToRun, ObserverInv, ObserversHearEveryTask
  <2>3. CASE NotifyObservers
    <3>1. Completed' = Completed + 1
      BY <2>0, <2>3 DEF NotifyObservers, Completed
    <3>2. Completed \in Int
      BY <2>0 DEF Completed
    <3>3. \A o \in Observers : heard'[o] = IF since[o] # Off THEN heard[o] + 1 ELSE heard[o]
      BY <2>3 DEF NotifyObservers
    <3> QED  BY <2>0, <2>3, <3>1, <3>2, <3>3
             DEF NotifyObservers, ObserverInv, ObserversHearEveryTask
  <2>4. CASE TaskReturns
    BY <2>4 DEF TaskReturns, ObserverInv, ObserversHearEveryTask, Completed
  <2>5. CASE DoRun \/ RunStart \/ RunTest \/ WaitForTimer \/ FlushTasks
             \/ GetNextTaskToRunNone \/ GetNextTaskToRunLater
             \/ RunReturns \/ DisposeTasks \/ Dispose
    BY <2>5 DEF DoRun, RunStart, RunTest, WaitForTimer, FlushTasks, GetNextTaskToRunNone,
                GetNextTaskToRunLater, RunReturns, DisposeTasks, Dispose, AfterFlush,
                ObserverInv, ObserversHearEveryTask, Completed
  <2>6. CASE UNCHANGED <<pc, ran, since, heard>>
    BY <2>6 DEF ObserverInv, ObserversHearEveryTask, Completed
  <2> QED
    BY <2>1, <2>2, <2>3, <2>4, <2>5, <2>6
    DEF Next, LoopThread, PostTask, PostTaskRegister, LoopPostTask, DoTerminate, Tick, vars
<1>3. ObserverInv => ObserversHearEveryTask
  BY DEF ObserverInv
<1> QED  BY <1>1, <1>2, <1>3, TypeCorrect, PTL DEF Spec
=============================================================================
