--------------------------- MODULE ThreadLifecycle ---------------------------
(***************************************************************************)
(* wtf::Thread: a thread with a message loop, from its constructor to its  *)
(* Join.  The module composes the loop (MessageLoop) with the event that   *)
(* the constructor waits on (WaitableEvent); the tasks of the loop other   *)
(* than the one Join posts are arbitrary.  In Spec they leave it to Join   *)
(* to terminate the loop; in SelfTerminatingSpec they may do so.           *)
(*                                                                         *)
(* ownerPc, the thread that owns the object:                               *)
(*   ctor       in the constructor, waiting on the latch                   *)
(*   ready      outside the object's methods                               *)
(*   posting    in Join, joined_ set, before PostTask                      *)
(*   registering  in that PostTask, past the terminated_ test              *)
(*   joining    in thread_->join()                                         *)
(*   destroyed  past ~Thread                                               *)
(* threadPc, the new thread: start (before the loop exists), publish       *)
(* (before runner is assigned), signal (before latch.Signal), loop (in     *)
(* Run, or destroying its loop) and ended.                                 *)
(***************************************************************************)
EXTENDS Integers, Sequences, FiniteSets

CONSTANTS Owner,            \* the thread that owns the Thread object
          Users,            \* other threads that post through GetTaskRunner
          MaxTime, MaxTasks, TimerUnit

ASSUME ThreadLifecycleAssumption ==
  /\ Owner \notin Users
  /\ MaxTime \in Nat /\ MaxTasks \in Nat /\ TimerUnit \in Nat \ {0}

VARIABLES
  now, delayed_task_queue, order_, timer_, terminated_, running_, pc, draining, flushNow,
  calls, ran, since, heard, owed

VARIABLES signaled_, parked, awake, timedOut, raised, received, cleared

VARIABLES
  ownerPc, threadPc,
  runner,          \* whether the constructor's local holds the loop's runner
  task_runner_,    \* whether the member does
  joined_,
  terminateTask    \* the task posted by Join, once registered

loopVars == <<now, delayed_task_queue, order_, timer_, terminated_, running_, pc, draining,
              flushNow, calls, ran, since, heard, owed>>
latchVars == <<signaled_, parked, awake, timedOut, raised, received, cleared>>
ownerVars == <<ownerPc, task_runner_, joined_, terminateTask>>
vars == <<loopVars, latchVars, ownerVars, threadPc, runner>>

Loop == INSTANCE MessageLoop WITH Posters <- {Owner} \cup Users, Observers <- {}
latch == INSTANCE WaitableEvent
  WITH Waiters <- {Owner}, TimedWaiters <- {}, Resetters <- {}, MaxSignals <- 1

NoTask == [order |-> -1, time |-> 0]

(* One registration is kept for the task that Join posts. *)
Spare == order_ + Cardinality(calls) < MaxTasks - 1

-----------------------------------------------------------------------------
(* The owner. *)

LatchWaits ==
  /\ ownerPc = "ctor"
  /\ \/ latch!WaitParks(Owner)
     \/ Owner \in awake /\ latch!ResumeParks(Owner)
  /\ UNCHANGED <<loopVars, ownerVars, threadPc, runner>>

LatchWakesSpuriously ==
  /\ Owner \in parked
  /\ latch!WakeSpuriously(Owner)
  /\ UNCHANGED <<loopVars, ownerVars, threadPc, runner>>

(* latch.Wait() returns and the constructor copies runner. *)
ConstructorReturns ==
  /\ ownerPc = "ctor"
  /\ \/ latch!WaitReturns(Owner)
     \/ Owner \in awake /\ latch!ResumeReceives(Owner)
  /\ task_runner_' = runner
  /\ ownerPc' = "ready"
  /\ UNCHANGED <<loopVars, joined_, terminateTask, threadPc, runner>>

JoinWithoutFlag ==
  /\ ownerPc = "ready"
  /\ joined_' = TRUE
  /\ ownerPc' = "posting"
  /\ UNCHANGED <<loopVars, latchVars, task_runner_, terminateTask, threadPc, runner>>

(* Nothing is asked about users who are inside PostTask. *)
Join ==
  /\ ownerPc = "ready"
  /\ ~joined_
  /\ joined_' = TRUE
  /\ ownerPc' = "posting"
  /\ UNCHANGED <<loopVars, latchVars, task_runner_, terminateTask, threadPc, runner>>

JoinPosts ==
  /\ ownerPc = "posting"
  /\ Loop!PostTask(Owner, now)
  /\ ownerPc' = "registering"
  /\ UNCHANGED <<latchVars, task_runner_, joined_, terminateTask, threadPc, runner>>

(* PostTask finds the loop terminated and destroys the task. *)
JoinRefused ==
  /\ ownerPc = "posting"
  /\ terminated_ /\ pc # "gone"
  /\ ownerPc' = "joining"
  /\ UNCHANGED <<loopVars, latchVars, task_runner_, joined_, terminateTask, threadPc, runner>>

JoinRegisters ==
  /\ ownerPc = "registering"
  /\ \E c \in calls :
        /\ c.poster = Owner
        /\ Loop!PostTaskRegister(c)
        /\ terminateTask' = [order |-> order_, time |-> c.time]
  /\ ownerPc' = "joining"
  /\ UNCHANGED <<latchVars, task_runner_, joined_, threadPc, runner>>

JoinReturns ==
  /\ ownerPc = "joining"
  /\ threadPc = "ended"
  /\ ownerPc' = "ready"
  /\ UNCHANGED <<loopVars, latchVars, task_runner_, joined_, terminateTask, threadPc, runner>>

(* ~Thread after a Join: the second Join returns at once. *)
Destroy ==
  /\ ownerPc = "ready"
  /\ joined_
  /\ ownerPc' = "destroyed"
  /\ UNCHANGED <<loopVars, latchVars, task_runner_, joined_, terminateTask, threadPc, runner>>

(* Users post whenever they like once GetTaskRunner has a runner to give:    *)
(* before, during and after Join, and with a runner they kept.               *)
UserPostTask(p, t) ==
  /\ Spare
  /\ task_runner_
  /\ Loop!PostTask(p, t)
  /\ UNCHANGED <<latchVars, ownerVars, threadPc, runner>>

UserRegisters(c) ==
  /\ c.poster # Owner
  /\ Loop!PostTaskRegister(c)
  /\ UNCHANGED <<latchVars, ownerVars, threadPc, runner>>

-----------------------------------------------------------------------------
(* The new thread. *)

ThreadStarts ==
  /\ threadPc = "start"
  /\ threadPc' = "publish"
  /\ UNCHANGED <<loopVars, latchVars, ownerVars, runner>>

SignalBeforePublish ==
  /\ threadPc = "publish"
  /\ latch!Signal
  /\ threadPc' = "signal"
  /\ UNCHANGED <<loopVars, ownerVars, runner>>

PublishRunner ==
  /\ threadPc = "publish"
  /\ runner' = TRUE
  /\ threadPc' = "signal"
  /\ UNCHANGED <<loopVars, latchVars, ownerVars>>

LatchSignal ==
  /\ threadPc = "signal"
  /\ latch!Signal
  /\ threadPc' = "loop"
  /\ UNCHANGED <<loopVars, ownerVars, runner>>

(* The task being run, and whether it is the one Join posted. *)
InTerminateTask == pc = "invoke" /\ ran[Len(ran)] = terminateTask

LoopRuns ==
  /\ threadPc = "loop"
  /\ \/ Loop!DoRun \/ Loop!RunStart \/ Loop!RunTest \/ Loop!WaitForTimer \/ Loop!FlushTasks
     \/ Loop!GetNextTaskToRunNone \/ Loop!GetNextTaskToRunLater \/ Loop!GetNextTaskToRun
     \/ Loop!NotifyObservers \/ Loop!RunReturns \/ Loop!DisposeTasks
     \/ (InTerminateTask => terminated_) /\ Loop!TaskReturns
  /\ UNCHANGED <<latchVars, ownerVars, threadPc, runner>>

TerminateTaskOnlyFlags ==
  /\ InTerminateTask
  /\ ~terminated_
  /\ Loop!DoTerminateWithoutTerminate
  /\ UNCHANGED <<latchVars, ownerVars, threadPc, runner>>

(* The body of Join's task. *)
TerminateTask ==
  /\ InTerminateTask
  /\ ~terminated_
  /\ Loop!DoTerminate
  /\ UNCHANGED <<latchVars, ownerVars, threadPc, runner>>

(* Any other task. *)
TaskBody ==
  /\ pc = "invoke" /\ ~InTerminateTask
  /\ \E t \in Loop!Time : Spare /\ Loop!LoopPostTask(t)
  /\ UNCHANGED <<latchVars, ownerVars, threadPc, runner>>

(* A task that calls MessageLoop::Terminate itself. *)
TaskTerminatesLoop ==
  /\ pc = "invoke" /\ ~InTerminateTask
  /\ Loop!DoTerminate
  /\ UNCHANGED <<latchVars, ownerVars, threadPc, runner>>

(* The thread ends, and with it the loop in tls_message_loop. *)
ThreadEnds ==
  /\ threadPc = "loop"
  /\ Loop!Dispose
  /\ threadPc' = "ended"
  /\ UNCHANGED <<latchVars, ownerVars, runner>>

Tick ==
  /\ Loop!Tick
  /\ UNCHANGED <<latchVars, ownerVars, threadPc, runner>>

-----------------------------------------------------------------------------
Init ==
  /\ Loop!Init
  /\ latch!Init
  /\ ownerPc = "ctor"
  /\ threadPc = "start"
  /\ runner = FALSE
  /\ task_runner_ = FALSE
  /\ joined_ = FALSE
  /\ terminateTask = NoTask

OwnerStep ==
  \/ LatchWaits \/ ConstructorReturns \/ Join \/ JoinPosts \/ JoinRegisters \/ JoinReturns
  \/ Destroy

ThreadStep ==
  \/ ThreadStarts \/ PublishRunner \/ LatchSignal \/ LoopRuns \/ TerminateTask \/ ThreadEnds

Next ==
  \/ OwnerStep
  \/ LatchWakesSpuriously
  \/ \E p \in Users, t \in Loop!Time : UserPostTask(p, t)
  \/ \E c \in calls : UserRegisters(c)
  \/ ThreadStep
  \/ TaskBody
  \/ Tick

(* Every thread runs, its tasks return, and time passes. *)
Fairness ==
  /\ WF_vars(OwnerStep)
  /\ WF_vars(ThreadStep)
  /\ WF_vars(\E c \in calls : UserRegisters(c))
  /\ WF_vars(Tick)

Spec == Init /\ [][Next]_vars /\ Fairness

SelfTerminatingSpec == Init /\ [][Next \/ TaskTerminatesLoop \/ JoinRefused]_vars

-----------------------------------------------------------------------------
(* The new thread refers to latch and runner, locals of the constructor: it *)
(* is done with both when the constructor returns, and the runner it set is *)
(* the one the constructor copies.                                          *)
ConstructorOutlivesLocals ==
  ownerPc # "ctor" => threadPc \in {"loop", "ended"} /\ task_runner_

(* task_runner_ points into the loop that the new thread destroys.  When      *)
(* Join's PostTask runs, the loop is there, as long as the tasks leave it to  *)
(* Join to terminate it.                                                      *)
JoinFindsLoop == pc = "gone" => ownerPc \notin {"posting", "registering"}

(* The same for every caller.  PostTask on a terminated loop is expected to   *)
(* work, it "should destruct |task| synchronously within this function"       *)
(* (message_loop_impl.cpp:104-105): so the loop outlives the calls on it.     *)
LoopOutlivesCalls == (pc = "gone" => calls = {}) /\ JoinFindsLoop

(* Join lets what is due finish: of the tasks that were registered before     *)
(* Join's own, DisposeTasks destroys only those meant for a later time.       *)
JoinDrainsDueTasks ==
  pc = "dispose" =>
    \A t \in delayed_task_queue : t.order < terminateTask.order => t.time > terminateTask.time

(* Join returns: the task it posts wakes the loop and ends it. *)
JoinCompletes == ownerPc = "posting" ~> ownerPc = "destroyed"
=============================================================================
