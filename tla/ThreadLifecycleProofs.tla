------------------------ MODULE ThreadLifecycleProofs ------------------------
(***************************************************************************)
(* Proofs about wtf::Thread, for any set of users of its task runner: the  *)
(* constructor's locals outlive the new thread's use of them, Join finds   *)
(* the loop it posts to and lets what is due finish, and the loop and the  *)
(* latch inside a Thread keep what MessageLoopProofs and                   *)
(* WaitableEventProofs prove of them.                                      *)
(***************************************************************************)
EXTENDS ThreadLifecycle, SequenceTheorems, TLAPS

-----------------------------------------------------------------------------
(* What the latch tells: once it was signaled the new thread is past both    *)
(* its uses of the constructor's locals.                                    *)
LatchInv ==
  /\ threadPc \in {"start", "publish", "signal", "loop", "ended"}
  /\ threadPc \in {"signal", "loop", "ended"} => runner
  /\ signaled_ => threadPc \in {"loop", "ended"}
  /\ ConstructorOutlivesLocals

(* The steps of the latch, by what they do to its flag. *)
LEMMA LatchSteps ==
  ASSUME NEW t
  PROVE  /\ latch!WaitParks(t) => signaled_' = signaled_
         /\ latch!ResumeParks(t) => signaled_' = signaled_
         /\ latch!WakeSpuriously(t) => signaled_' = signaled_
         /\ latch!WaitReturns(t) => signaled_ /\ signaled_' = FALSE
         /\ latch!ResumeReceives(t) => signaled_ /\ signaled_' = FALSE
BY DEF latch!WaitParks, latch!ResumeParks, latch!WakeSpuriously, latch!WaitReturns,
   latch!ResumeReceives, latch!Receive

(* The steps that concern neither the latch nor the constructor. *)
LEMMA LatchKept ==
  ASSUME LatchInv, UNCHANGED <<signaled_, threadPc, runner, task_runner_>>,
         ownerPc' = "ctor" \/ ownerPc # "ctor"
  PROVE  LatchInv'
BY DEF LatchInv, ConstructorOutlivesLocals

(* Every step keeps it. *)
LEMMA LatchInductive == ASSUME LatchInv, [Next]_vars PROVE LatchInv'
<1>1. CASE UNCHANGED vars
  BY <1>1, LatchKept DEF vars, latchVars, ownerVars
<1>2. CASE OwnerStep
  <2>1. CASE LatchWaits
    BY <2>1, LatchKept, LatchSteps DEF LatchWaits, ownerVars
  <2>2. CASE ConstructorReturns
    <3>1. /\ signaled_ /\ signaled_' = FALSE /\ task_runner_' = runner /\ ownerPc' = "ready"
          /\ UNCHANGED <<threadPc, runner>>
      BY <2>2, LatchSteps DEF ConstructorReturns
    <3> QED  BY <3>1 DEF LatchInv, ConstructorOutlivesLocals
  <2>3. CASE Join \/ JoinPosts \/ JoinRegisters \/ JoinReturns \/ Destroy
    BY <2>3, LatchKept DEF Join, JoinPosts, JoinRegisters, JoinReturns, Destroy, latchVars
  <2> QED  BY <1>2, <2>1, <2>2, <2>3 DEF OwnerStep
<1>3. CASE LatchWakesSpuriously
  BY <1>3, LatchKept, LatchSteps DEF LatchWakesSpuriously, ownerVars
<1>4. CASE \/ \E p \in Users, t \in Loop!Time : UserPostTask(p, t)
           \/ \E c \in calls : UserRegisters(c)
           \/ TaskBody \/ Tick
  BY <1>4, LatchKept DEF UserPostTask, UserRegisters, TaskBody, Tick, latchVars, ownerVars
<1>5. CASE ThreadStep
  <2>1. CASE ThreadStarts \/ PublishRunner
    BY <2>1 DEF ThreadStarts, PublishRunner, LatchInv, ConstructorOutlivesLocals, latchVars, ownerVars
  <2>2. CASE LatchSignal
    BY <2>2 DEF LatchSignal, LatchInv, ConstructorOutlivesLocals, ownerVars
  <2>3. CASE LoopRuns \/ TerminateTask
    BY <2>3, LatchKept DEF LoopRuns, TerminateTask, latchVars, ownerVars
  <2>4. CASE ThreadEnds
    BY <2>4 DEF ThreadEnds, LatchInv, ConstructorOutlivesLocals, latchVars, ownerVars
  <2> QED  BY <1>5, <2>1, <2>2, <2>3, <2>4 DEF ThreadStep
<1> QED  BY <1>1, <1>2, <1>3, <1>4, <1>5 DEF Next

(* The constructor of Thread returns, and its latch and runner go out of     *)
(* scope, only when the new thread has used both; the runner it copies is    *)
(* the one the new thread assigned.  Spurious wake-ups do not matter.        *)
THEOREM LocalsOutlived == Spec => []ConstructorOutlivesLocals
<1>1. Init => LatchInv
  BY DEF Init, latch!Init, LatchInv, ConstructorOutlivesLocals
<1>2. LatchInv /\ [Next]_vars => LatchInv'
  BY LatchInductive
<1>3. LatchInv => ConstructorOutlivesLocals
  BY DEF LatchInv
<1> QED  BY <1>1, <1>2, <1>3, PTL DEF Spec

-----------------------------------------------------------------------------
(* The tasks of the loop are numbered from zero, so the one that is running  *)
(* is not mistaken for Join's before Join has registered it.                *)
Task == [order : Nat, time : Loop!Time]

TasksInv ==
  /\ order_ \in Nat /\ delayed_task_queue \subseteq Task /\ ran \in Seq(Task)
  /\ calls \subseteq [poster : {Owner} \cup Users, time : Loop!Time]
  /\ now \in Loop!Time
  /\ pc = "invoke" => ran # <<>>

(* Run is left, and the queue disposed of, only by a loop that was terminated. *)
FlagsInv ==
  /\ draining \in BOOLEAN /\ terminated_ \in BOOLEAN /\ running_ \in BOOLEAN
  /\ pc \in {"loop", "wait", "flush", "next", "invoke", "notify"} => running_ \/ terminated_
  /\ pc \in {"exit", "dispose", "done", "gone"} => terminated_
  /\ draining => terminated_

(* Only Join's task terminates the loop, and Join registers it before it     *)
(* goes on.                                                                 *)
JoinInv ==
  /\ ownerPc \in {"ctor", "ready", "posting", "registering", "joining", "destroyed"}
  /\ ownerPc \in {"posting", "registering", "joining", "destroyed"} => joined_
  /\ terminateTask # NoTask => joined_ /\ ownerPc \in {"joining", "ready", "destroyed"}
  /\ terminated_ => joined_ /\ ownerPc \in {"joining", "ready", "destroyed"}

ThreadInv == TasksInv /\ FlagsInv /\ JoinInv

(* ThreadInv depends on these variables only. *)
LEMMA ThreadKept ==
  ASSUME ThreadInv,
         UNCHANGED <<now, order_, delayed_task_queue, ran, calls, pc, draining, terminated_,
                     running_, ownerPc, joined_, terminateTask>>
  PROVE  ThreadInv'
BY DEF ThreadInv, TasksInv, FlagsInv, JoinInv

(* A task is registered: the clock, the flags and the loop's place stay.    *)
LEMMA RegisterKeeps ==
  ASSUME TasksInv, NEW t \in Loop!Time, Loop!RegisterTask(t),
         UNCHANGED <<now, ran, pc>>, calls' \subseteq calls
  PROVE  TasksInv' /\ [order |-> order_, time |-> t] \in Task
<1>1. /\ order_' = order_ + 1
      /\ delayed_task_queue' = delayed_task_queue \cup {[order |-> order_, time |-> t]}
  BY DEF Loop!RegisterTask
<1>2. [order |-> order_, time |-> t] \in Task
  BY DEF TasksInv, Task
<1>3. order_' \in Nat
  BY <1>1 DEF TasksInv
<1> QED  BY <1>1, <1>2, <1>3 DEF TasksInv

(* The steps of the owner. *)
LEMMA OwnerKeeps == ASSUME ThreadInv, OwnerStep PROVE ThreadInv'
<1>1. CASE LatchWaits
  BY <1>1, ThreadKept DEF LatchWaits, loopVars, ownerVars
<1>2. CASE ConstructorReturns \/ Join \/ JoinReturns \/ Destroy
  <2>1. UNCHANGED <<now, order_, delayed_task_queue, ran, calls, pc, draining, terminated_,
                    running_, terminateTask>>
    BY <1>2 DEF ConstructorReturns, Join, JoinReturns, Destroy, loopVars
  <2>2. TasksInv' /\ FlagsInv'
    BY <2>1 DEF ThreadInv, TasksInv, FlagsInv
  <2>3. JoinInv'
    <3>1. CASE ConstructorReturns
      BY <2>1, <3>1 DEF ConstructorReturns, ThreadInv, JoinInv
    <3>2. CASE Join
      BY <2>1, <3>2 DEF Join, ThreadInv, JoinInv
    <3>3. CASE JoinReturns
      BY <2>1, <3>3 DEF JoinReturns, ThreadInv, JoinInv
    <3>4. CASE Destroy
      BY <2>1, <3>4 DEF Destroy, ThreadInv, JoinInv
    <3> QED  BY <1>2, <3>1, <3>2, <3>3, <3>4
  <2> QED  BY <2>2, <2>3 DEF ThreadInv
<1>3. CASE JoinPosts
  <2>1. /\ calls' = calls \cup {[poster |-> Owner, time |-> now]}
        /\ ownerPc = "posting" /\ ownerPc' = "registering"
        /\ UNCHANGED <<now, order_, delayed_task_queue, ran, pc, draining, terminated_, running_,
                       joined_, terminateTask>>
    BY <1>3 DEF JoinPosts, Loop!PostTask, Loop!queueVars, Loop!flagVars, Loop!flushVars
  <2>2. TasksInv'
    BY <2>1 DEF ThreadInv, TasksInv
  <2>3. FlagsInv'
    BY <2>1 DEF ThreadInv, FlagsInv
  <2>4. JoinInv'
    BY <2>1 DEF ThreadInv, JoinInv
  <2> QED  BY <2>2, <2>3, <2>4 DEF ThreadInv
<1>4. CASE JoinRegisters
  <2>1. PICK c \in calls : /\ c.poster = Owner /\ Loop!PostTaskRegister(c)
                           /\ terminateTask' = [order |-> order_, time |-> c.time]
    BY <1>4 DEF JoinRegisters
  <2>2. /\ Loop!RegisterTask(c.time) /\ calls' = calls \ {c} /\ c.time \in Loop!Time
        /\ UNCHANGED <<now, ran, pc, draining, terminated_, running_, joined_>>
        /\ ownerPc = "registering" /\ ownerPc' = "joining"
    BY <1>4, <2>1 DEF JoinRegisters, Loop!PostTaskRegister, Loop!flagVars, Loop!flushVars,
       ThreadInv, TasksInv
  <2>3. TasksInv'
    BY <2>2, RegisterKeeps DEF ThreadInv
  <2>4. FlagsInv'
    BY <2>2 DEF ThreadInv, FlagsInv
  <2>5. JoinInv'
    BY <2>2 DEF ThreadInv, JoinInv
  <2> QED  BY <2>3, <2>4, <2>5 DEF ThreadInv
<1> QED  BY <1>1, <1>2, <1>3, <1>4 DEF OwnerStep

(* The calls of PostTask by the users. *)
LEMMA UserKeeps ==
  ASSUME ThreadInv,
         \/ \E p \in Users, t \in Loop!Time : UserPostTask(p, t)
         \/ \E c \in calls : UserRegisters(c)
  PROVE  ThreadInv'
<1>1. ASSUME NEW p \in Users, NEW t \in Loop!Time, UserPostTask(p, t) PROVE ThreadInv'
  <2>1. /\ calls' = calls \cup {[poster |-> p, time |-> t]}
        /\ UNCHANGED <<now, order_, delayed_task_queue, ran, pc, draining, terminated_, running_,
                       ownerPc, joined_, terminateTask>>
    BY <1>1 DEF UserPostTask, Loop!PostTask, Loop!queueVars, Loop!flagVars, Loop!flushVars, ownerVars
  <2>2. TasksInv'
    BY <2>1 DEF ThreadInv, TasksInv
  <2>3. FlagsInv' /\ JoinInv'
    BY <2>1 DEF ThreadInv, FlagsInv, JoinInv
  <2> QED  BY <2>2, <2>3 DEF ThreadInv
<1>2. ASSUME NEW c \in calls, UserRegisters(c) PROVE ThreadInv'
  <2>1. /\ Loop!RegisterTask(c.time) /\ calls' = calls \ {c} /\ c.time \in Loop!Time
        /\ UNCHANGED <<now, ran, pc, draining, terminated_, running_, joined_, ownerPc,
                       terminateTask>>
    BY <1>2 DEF UserRegisters, Loop!PostTaskRegister, Loop!flagVars, Loop!flushVars, ownerVars,
       ThreadInv, TasksInv
  <2>2. TasksInv'
    BY <2>1, RegisterKeeps DEF ThreadInv
  <2>3. FlagsInv' /\ JoinInv'
    BY <2>1 DEF ThreadInv, FlagsInv, JoinInv
  <2> QED  BY <2>2, <2>3 DEF ThreadInv
<1> QED  BY <1>1, <1>2

(* The steps of the loop that neither start nor end anything. *)
LEMMA LoopKeeps ==
  ASSUME ThreadInv, UNCHANGED <<calls, ownerPc, joined_, terminateTask>>,
         \/ Loop!DoRun \/ Loop!RunStart \/ Loop!RunTest \/ Loop!WaitForTimer \/ Loop!FlushTasks
         \/ Loop!GetNextTaskToRunNone \/ Loop!GetNextTaskToRunLater \/ Loop!TaskReturns
         \/ Loop!NotifyObservers \/ Loop!RunReturns \/ Loop!DisposeTasks \/ Loop!Dispose
  PROVE  ThreadInv'
<1>1. /\ UNCHANGED <<now, order_, ran>> /\ delayed_task_queue' \subseteq delayed_task_queue
      /\ pc' # "invoke"
  BY DEF Loop!DoRun, Loop!RunStart, Loop!RunTest, Loop!WaitForTimer, Loop!FlushTasks,
     Loop!GetNextTaskToRunNone, Loop!GetNextTaskToRunLater, Loop!TaskReturns,
     Loop!NotifyObservers, Loop!RunReturns, Loop!DisposeTasks, Loop!Dispose, Loop!AfterFlush,
     Loop!queueVars, Loop!flushVars
<1>2. TasksInv'
  BY <1>1 DEF ThreadInv, TasksInv
<1>3. FlagsInv' /\ terminated_' = terminated_
  <2>0. CASE Loop!DoRun
    BY <2>0 DEF Loop!DoRun, Loop!flagVars, Loop!flushVars, ThreadInv, FlagsInv
  <2>1. CASE Loop!RunTest \/ Loop!RunStart
    <3>1. CASE Loop!RunTest
      BY <3>1 DEF Loop!RunTest, Loop!flagVars, Loop!flushVars, ThreadInv, FlagsInv
    <3>2. CASE Loop!RunStart
      BY <3>2 DEF Loop!RunStart, Loop!flagVars, Loop!flushVars, ThreadInv, FlagsInv
    <3> QED  BY <2>1, <3>1, <3>2
  <2>2. CASE Loop!WaitForTimer \/ Loop!FlushTasks \/ Loop!TaskReturns \/ Loop!NotifyObservers
    BY <2>2 DEF Loop!WaitForTimer, Loop!FlushTasks, Loop!TaskReturns, Loop!NotifyObservers,
       Loop!flagVars, Loop!flushVars, ThreadInv, FlagsInv
  <2>3. CASE Loop!GetNextTaskToRunNone \/ Loop!GetNextTaskToRunLater
    BY <2>3 DEF Loop!GetNextTaskToRunNone, Loop!GetNextTaskToRunLater, Loop!AfterFlush,
       Loop!flagVars, Loop!flushVars, ThreadInv, FlagsInv
  <2>4. CASE Loop!RunReturns \/ Loop!DisposeTasks \/ Loop!Dispose
    BY <2>4 DEF Loop!RunReturns, Loop!DisposeTasks, Loop!Dispose, Loop!flagVars, Loop!flushVars,
       ThreadInv, FlagsInv
  <2> QED  BY <2>0, <2>1, <2>2, <2>3, <2>4
<1>4. JoinInv'
  BY <1>3 DEF ThreadInv, JoinInv
<1> QED  BY <1>2, <1>3, <1>4 DEF ThreadInv

(* A task is taken, posts a task, or is Join's and terminates the loop. *)
LEMMA TaskKeeps ==
  ASSUME ThreadInv, UNCHANGED <<ownerPc, joined_, terminateTask>>,
         \/ Loop!GetNextTaskToRun
         \/ \E t \in Loop!Time : Loop!LoopPostTask(t)
         \/ InTerminateTask /\ Loop!DoTerminate
  PROVE  ThreadInv'
<1>1. CASE Loop!GetNextTaskToRun
  <2>1. PICK top \in delayed_task_queue : /\ delayed_task_queue' = delayed_task_queue \ {top}
                                          /\ ran' = Append(ran, top)
    BY <1>1 DEF Loop!GetNextTaskToRun
  <2>2. /\ pc = "next" /\ pc' = "invoke"
        /\ UNCHANGED <<now, order_, calls, draining, terminated_, running_>>
    BY <1>1 DEF Loop!GetNextTaskToRun, Loop!flagVars
  <2>3. ran' \in Seq(Task) /\ ran' # <<>>
    BY <2>1, AppendProperties DEF ThreadInv, TasksInv
  <2>4. TasksInv'
    BY <2>1, <2>2, <2>3 DEF ThreadInv, TasksInv
  <2>5. FlagsInv' /\ JoinInv'
    BY <2>2 DEF ThreadInv, FlagsInv, JoinInv
  <2> QED  BY <2>4, <2>5 DEF ThreadInv
<1>2. ASSUME NEW t \in Loop!Time, Loop!LoopPostTask(t) PROVE ThreadInv'
  <2>1. /\ Loop!RegisterTask(t)
        /\ UNCHANGED <<now, ran, pc, calls, draining, terminated_, running_>>
    BY <1>2 DEF Loop!LoopPostTask, Loop!flagVars, Loop!flushVars
  <2>2. TasksInv'
    BY <2>1, RegisterKeeps DEF ThreadInv
  <2>3. FlagsInv' /\ JoinInv'
    BY <2>1 DEF ThreadInv, FlagsInv, JoinInv
  <2> QED  BY <2>2, <2>3 DEF ThreadInv
<1>3. CASE InTerminateTask /\ Loop!DoTerminate
  <2>1. /\ pc = "invoke" /\ ran[Len(ran)] = terminateTask /\ terminated_' = TRUE
        /\ running_' = FALSE
        /\ UNCHANGED <<now, order_, delayed_task_queue, ran, calls, pc, draining>>
    BY <1>3 DEF InTerminateTask, Loop!DoTerminate, Loop!queueVars, Loop!flushVars
  <2>2. ran[Len(ran)] \in Task
    <3>1. ran \in Seq(Task) /\ ran # <<>>
      BY <2>1 DEF ThreadInv, TasksInv
    <3>2. Len(ran) \in 1..Len(ran)
      BY <3>1, EmptySeq, LenProperties
    <3> QED  BY <3>1, <3>2, ElementOfSeq
  <2>3. terminateTask # NoTask
    <3>1. terminateTask.order \in Nat
      BY <2>1, <2>2 DEF Task
    <3> QED  BY <3>1 DEF NoTask
  <2>4. TasksInv'
    BY <2>1 DEF ThreadInv, TasksInv
  <2>5. FlagsInv' /\ JoinInv'
    BY <2>1, <2>3 DEF ThreadInv, FlagsInv, JoinInv
  <2> QED  BY <2>4, <2>5 DEF ThreadInv
<1> QED  BY <1>1, <1>2, <1>3

(* Every step keeps it. *)
LEMMA ThreadInductive == ASSUME ThreadInv, [Next]_vars PROVE ThreadInv'
<1>1. CASE UNCHANGED vars
  BY <1>1, ThreadKept DEF vars, loopVars, ownerVars
<1>2. CASE OwnerStep
  BY <1>2, OwnerKeeps
<1>3. CASE LatchWakesSpuriously
  BY <1>3, ThreadKept DEF LatchWakesSpuriously, loopVars, ownerVars
<1>4. CASE \/ \E p \in Users, t \in Loop!Time : UserPostTask(p, t)
           \/ \E c \in calls : UserRegisters(c)
  BY <1>4, UserKeeps
<1>5. CASE ThreadStarts \/ PublishRunner \/ LatchSignal
  BY <1>5, ThreadKept DEF ThreadStarts, PublishRunner, LatchSignal, loopVars, ownerVars
<1>6. CASE LoopRuns
  <2>1. UNCHANGED <<ownerPc, joined_, terminateTask>>
    BY <1>6 DEF LoopRuns, ownerVars
  <2>2. CASE Loop!GetNextTaskToRun
    BY <2>1, <2>2, TaskKeeps
  <2>3. CASE \/ Loop!DoRun \/ Loop!RunStart \/ Loop!RunTest \/ Loop!WaitForTimer
             \/ Loop!FlushTasks \/ Loop!GetNextTaskToRunNone \/ Loop!GetNextTaskToRunLater
             \/ Loop!TaskReturns \/ Loop!NotifyObservers \/ Loop!RunReturns \/ Loop!DisposeTasks
    <3>1. calls' = calls
      BY <2>3 DEF Loop!DoRun, Loop!RunStart, Loop!RunTest, Loop!WaitForTimer, Loop!FlushTasks,
         Loop!GetNextTaskToRunNone, Loop!GetNextTaskToRunLater, Loop!TaskReturns,
         Loop!NotifyObservers, Loop!RunReturns, Loop!DisposeTasks
    <3> QED  BY <2>1, <2>3, <3>1, LoopKeeps
  <2> QED  BY <1>6, <2>2, <2>3 DEF LoopRuns
<1>7. CASE TerminateTask
  BY <1>7, TaskKeeps DEF TerminateTask, ownerVars
<1>8. CASE TaskBody
  BY <1>8, TaskKeeps DEF TaskBody, ownerVars
<1>9. CASE ThreadEnds
  BY <1>9, LoopKeeps DEF ThreadEnds, ownerVars, Loop!Dispose
<1>10. CASE Tick
  <2>1. /\ now < MaxTime /\ now' = now + 1
        /\ UNCHANGED <<order_, delayed_task_queue, ran, calls, pc, draining, terminated_, running_,
                       ownerPc, joined_, terminateTask>>
    BY <1>10 DEF Tick, Loop!Tick, Loop!queueVars, Loop!flagVars, Loop!flushVars, ownerVars
  <2>2. now' \in Loop!Time
    BY <2>1, ThreadLifecycleAssumption DEF ThreadInv, TasksInv, Loop!Time
  <2>3. TasksInv'
    BY <2>1, <2>2 DEF ThreadInv, TasksInv
  <2>4. FlagsInv' /\ JoinInv'
    BY <2>1 DEF ThreadInv, FlagsInv, JoinInv
  <2> QED  BY <2>3, <2>4 DEF ThreadInv
<1> QED  BY <1>1, <1>2, <1>3, <1>4, <1>5, <1>6, <1>7, <1>8, <1>9, <1>10 DEF Next, ThreadStep

(* It is an invariant of a Thread whose tasks leave it to Join to terminate  *)
(* the loop.                                                                *)
THEOREM ThreadInvariant == Spec => []ThreadInv
<1>1. Init => ThreadInv
  <2>1. ASSUME Init PROVE TasksInv
    <3>1. 0 \in Loop!Time /\ <<>> \in Seq(Task)
      BY ThreadLifecycleAssumption DEF Loop!Time
    <3> QED  BY <2>1, <3>1 DEF Init, Loop!Init, TasksInv
  <2>2. ASSUME Init PROVE FlagsInv /\ JoinInv
    BY <2>2 DEF Init, Loop!Init, FlagsInv, JoinInv
  <2> QED  BY <2>1, <2>2 DEF ThreadInv
<1>2. ThreadInv /\ [Next]_vars => ThreadInv'
  BY ThreadInductive
<1> QED  BY <1>1, <1>2, PTL DEF Spec

(* Join's own PostTask finds the loop, whatever users post meanwhile, as     *)
(* long as no task other than Join's terminates the loop.                   *)
THEOREM JoinFinds == Spec => []JoinFindsLoop
<1>1. ThreadInv => JoinFindsLoop
  BY DEF ThreadInv, FlagsInv, JoinInv, JoinFindsLoop
<1> QED  BY <1>1, ThreadInvariant, PTL

-----------------------------------------------------------------------------
(* What Join waits for.  A task runs in a flush that began at or after its    *)
(* time, Join's among them, and the flush that follows Run() takes every task *)
(* due when it begins.  Users may register tasks until the loop is gone, but  *)
(* those have a higher order than Join's.                                     *)
DrainInv ==
  /\ flushNow \in Int /\ now \in Int /\ flushNow =< now
  /\ terminateTask.order \in Int /\ terminateTask.order < order_
  /\ pc = "invoke" => ran[Len(ran)].time =< flushNow
  /\ terminated_ => terminateTask.time \in Int /\ terminateTask.time =< flushNow
  /\ pc = "dispose" => \A t \in delayed_task_queue :
                          t.order < terminateTask.order => t.time > flushNow

(* Steps that are none of the loop thread's, and at most register a task of   *)
(* a user.                                                                    *)
LEMMA DrainKept ==
  ASSUME ThreadInv, DrainInv, UNCHANGED <<now, flushNow, ran, pc, terminated_, terminateTask>>,
         order_' = order_ \/ order_' = order_ + 1,
         \A t \in delayed_task_queue' : t \in delayed_task_queue \/ t.order = order_
  PROVE  DrainInv'
<1>1. order_ \in Int
  BY DEF ThreadInv, TasksInv
<1> QED  BY <1>1 DEF DrainInv

(* The top of the queue is due when it is taken. *)
LEMMA DrainTakes ==
  ASSUME ThreadInv, DrainInv, Loop!GetNextTaskToRun, UNCHANGED terminateTask PROVE DrainInv'
<1>1. PICK top \in delayed_task_queue : top.time =< flushNow /\ ran' = Append(ran, top)
  BY DEF Loop!GetNextTaskToRun
<1>2. ran'[Len(ran')] = top
  BY <1>1, AppendProperties DEF ThreadInv, TasksInv
<1> QED  BY <1>1, <1>2 DEF DrainInv, Loop!GetNextTaskToRun, Loop!flagVars

(* A flush ends when the top of the queue, and so the whole queue, is not due. *)
LEMMA DrainEnds ==
  ASSUME ThreadInv, DrainInv, Loop!GetNextTaskToRunLater, UNCHANGED terminateTask PROVE DrainInv'
<1>1. PICK top \in delayed_task_queue :
        Loop!IsTop(top, delayed_task_queue) /\ top.time > flushNow
  BY DEF Loop!GetNextTaskToRunLater
<1>2. \A t \in delayed_task_queue : t.time \in Int
  BY ThreadLifecycleAssumption DEF ThreadInv, TasksInv, Task, Loop!Time
<1>3. \A t \in delayed_task_queue : t.time > flushNow
  BY <1>1, <1>2 DEF Loop!IsTop, Loop!Before, DrainInv
<1> QED
  BY <1>3 DEF DrainInv, Loop!GetNextTaskToRunLater, Loop!AfterFlush, Loop!queueVars,
     Loop!flagVars, Loop!flushVars

(* Join's task is the one that terminates the loop. *)
LEMMA DrainTerminates ==
  ASSUME ThreadInv, DrainInv, TerminateTask PROVE DrainInv'
<1>1. /\ pc = "invoke" /\ ran[Len(ran)] = terminateTask /\ ran # <<>>
      /\ ran \in Seq(Task)
      /\ UNCHANGED <<now, flushNow, ran, pc, terminateTask, delayed_task_queue, order_>>
  BY DEF TerminateTask, InTerminateTask, Loop!DoTerminate, Loop!queueVars, Loop!flushVars, ThreadInv,
     TasksInv, ownerVars
<1>2. terminateTask \in Task
  <2>1. Len(ran) \in 1..Len(ran)
    BY <1>1, EmptySeq, LenProperties
  <2> QED  BY <1>1, <2>1, ElementOfSeq
<1>3. terminateTask.time \in Int
  BY <1>2, ThreadLifecycleAssumption DEF Task, Loop!Time
<1> QED  BY <1>1, <1>3 DEF DrainInv

(* Every step keeps it. *)
LEMMA DrainInductive == ASSUME ThreadInv, DrainInv, [Next]_vars PROVE DrainInv'
<1>1. CASE \/ UNCHANGED vars \/ LatchWaits \/ ConstructorReturns \/ Join \/ JoinPosts
           \/ JoinReturns \/ Destroy \/ LatchWakesSpuriously
           \/ \E p \in Users, t \in Loop!Time : UserPostTask(p, t)
           \/ ThreadStarts \/ PublishRunner \/ LatchSignal
  <2>1. UNCHANGED <<now, flushNow, ran, pc, terminateTask, terminated_, delayed_task_queue, order_>>
    BY <1>1, Zenon DEF vars, LatchWaits, ConstructorReturns, Join, JoinPosts, JoinReturns, Destroy,
       LatchWakesSpuriously, UserPostTask, ThreadStarts, PublishRunner, LatchSignal,
       loopVars, ownerVars, Loop!PostTask, Loop!queueVars, Loop!flagVars, Loop!flushVars
  <2> QED  BY <2>1, DrainKept
<1>2. CASE \E c \in calls : UserRegisters(c)
  <2>1. /\ UNCHANGED <<now, flushNow, ran, pc, terminated_, terminateTask>> /\ order_' = order_ + 1
        /\ \A t \in delayed_task_queue' : t \in delayed_task_queue \/ t.order = order_
    BY <1>2 DEF UserRegisters, Loop!PostTaskRegister, Loop!RegisterTask, Loop!flagVars,
       Loop!flushVars, ownerVars
  <2> QED  BY <2>1, DrainKept
<1>3. CASE TaskBody
  <2>1. /\ UNCHANGED <<now, flushNow, ran, pc, terminated_, terminateTask>> /\ order_' = order_ + 1
        /\ \A t \in delayed_task_queue' : t \in delayed_task_queue \/ t.order = order_
    BY <1>3 DEF TaskBody, Loop!LoopPostTask, Loop!RegisterTask, Loop!flagVars, Loop!flushVars, ownerVars
  <2> QED  BY <2>1, DrainKept
<1>4. CASE TerminateTask
  BY <1>4, DrainTerminates
<1>5. CASE Tick
  <2>1. /\ now' = now + 1
        /\ UNCHANGED <<flushNow, ran, pc, terminated_, terminateTask, delayed_task_queue, order_>>
    BY <1>5 DEF Tick, Loop!Tick, Loop!queueVars, Loop!flagVars, Loop!flushVars, ownerVars
  <2> QED  BY <2>1 DEF DrainInv
<1>6. CASE LoopRuns /\ Loop!GetNextTaskToRun
  BY <1>6, DrainTakes DEF LoopRuns, ownerVars
<1>7. CASE LoopRuns /\ Loop!GetNextTaskToRunLater
  BY <1>7, DrainEnds DEF LoopRuns, ownerVars
<1>8. CASE LoopRuns /\ (Loop!GetNextTaskToRunNone \/ Loop!FlushTasks)
  BY <1>8 DEF LoopRuns, ownerVars, DrainInv, Loop!GetNextTaskToRunNone, Loop!FlushTasks,
     Loop!AfterFlush, Loop!queueVars, Loop!flagVars, Loop!flushVars
<1>9. CASE LoopRuns /\ (\/ Loop!DoRun \/ Loop!RunStart \/ Loop!RunTest \/ Loop!WaitForTimer
                        \/ Loop!NotifyObservers \/ Loop!RunReturns \/ Loop!DisposeTasks
                        \/ Loop!TaskReturns)
  <2>1. pc' # "invoke" /\ pc' # "dispose" /\ UNCHANGED <<now, flushNow, terminateTask, order_>>
    BY <1>9 DEF LoopRuns, ownerVars, Loop!DoRun, Loop!RunStart, Loop!RunTest, Loop!WaitForTimer,
       Loop!NotifyObservers, Loop!RunReturns, Loop!DisposeTasks, Loop!TaskReturns,
       Loop!queueVars, Loop!flagVars, Loop!flushVars
  <2>2. terminated_' => terminated_
    BY <1>9 DEF LoopRuns, ThreadInv, FlagsInv, Loop!DoRun, Loop!RunStart, Loop!RunTest,
       Loop!WaitForTimer, Loop!NotifyObservers, Loop!RunReturns, Loop!DisposeTasks,
       Loop!TaskReturns, Loop!flagVars
  <2> QED  BY <2>1, <2>2 DEF DrainInv
<1>10. CASE ThreadEnds
  BY <1>10 DEF ThreadEnds, Loop!Dispose, DrainInv, Loop!flagVars, Loop!flushVars, ownerVars
<1>11. CASE JoinRegisters
  <2>1. ~terminated_ /\ pc # "dispose"
    BY <1>11 DEF JoinRegisters, ThreadInv, FlagsInv, JoinInv
  <2>2. /\ UNCHANGED <<now, flushNow, ran, pc, terminated_>> /\ order_' = order_ + 1
        /\ terminateTask'.order = order_
    BY <1>11 DEF JoinRegisters, Loop!PostTaskRegister, Loop!RegisterTask, Loop!flagVars, Loop!flushVars
  <2>3. order_ \in Int
    BY DEF ThreadInv, TasksInv
  <2> QED  BY <2>1, <2>2, <2>3 DEF DrainInv
<1> QED
  BY <1>1, <1>2, <1>3, <1>4, <1>5, <1>6, <1>7, <1>8, <1>9, <1>10, <1>11 DEF Next, OwnerStep,
     ThreadStep, LoopRuns

(* Join discards no task that was registered before Join's own and is due at  *)
(* the time Join posted for: of those, the loop destroys unrun only what was  *)
(* meant for later, as long as no task but Join's terminates the loop.  A     *)
(* PostTask that another thread began before Join may register too late.      *)
THEOREM JoinDrains == Spec => []JoinDrainsDueTasks
<1>1. Init => DrainInv
  BY DEF Init, Loop!Init, DrainInv, NoTask
<1>2. ThreadInv /\ DrainInv /\ [Next]_vars => DrainInv'
  BY DrainInductive
<1>3. ThreadInv /\ DrainInv => JoinDrainsDueTasks
  <2>1. ASSUME ThreadInv, DrainInv, pc = "dispose" PROVE JoinDrainsDueTasks
    <3>1. \A t \in delayed_task_queue : t.time \in Int
      BY <2>1, ThreadLifecycleAssumption DEF ThreadInv, TasksInv, Task, Loop!Time
    <3> QED  BY <2>1, <3>1 DEF ThreadInv, FlagsInv, DrainInv, JoinDrainsDueTasks
  <2> QED  BY <2>1 DEF JoinDrainsDueTasks
<1> QED  BY <1>1, <1>2, <1>3, ThreadInvariant, PTL DEF Spec

-----------------------------------------------------------------------------
(* The parts of a thread.  Every step of wtf::Thread is a step of its message *)
(* loop or leaves the loop alone, and likewise for the latch, so what is      *)
(* proved of MessageLoop and of WaitableEvent holds inside a Thread, also     *)
(* when tasks call Terminate by themselves.                                   *)
LoopProofs == INSTANCE MessageLoopProofs WITH Posters <- {Owner} \cup Users, Observers <- {}
LatchProofs == INSTANCE WaitableEventProofs
  WITH Waiters <- {Owner}, TimedWaiters <- {}, Resetters <- {}, MaxSignals <- 1

(* The constants a Thread gives to its parts are as they require. *)
LEMMA PartsAssumptions ==
  LoopProofs!MessageLoopAssumption /\ LatchProofs!WaitableEventAssumption
BY ThreadLifecycleAssumption
   DEF LoopProofs!MessageLoopAssumption, LatchProofs!WaitableEventAssumption

(* Loop and LoopProofs are two instances of the same definitions, and so are  *)
(* latch and LatchProofs.                                                     *)
LEMMA SameLoop ==
  /\ Loop!Init <=> LoopProofs!Init
  /\ Loop!Next <=> LoopProofs!Next
<1>1. Loop!Init <=> LoopProofs!Init
  BY DEF Loop!Init, LoopProofs!Init, Loop!Off, LoopProofs!Off
<1>2. Loop!Next <=> LoopProofs!Next
  BY DEF Loop!Next, LoopProofs!Next, Loop!Time, LoopProofs!Time, Loop!Off, LoopProofs!Off,
     Loop!PostTask, LoopProofs!PostTask, Loop!Room, LoopProofs!Room, Loop!Cardinality,
     LoopProofs!Cardinality, Loop!queueVars, LoopProofs!queueVars,
     Loop!flagVars, LoopProofs!flagVars, Loop!flushVars, LoopProofs!flushVars,
     Loop!observerVars, LoopProofs!observerVars, Loop!PostTaskRegister,
     LoopProofs!PostTaskRegister, Loop!RegisterTask, LoopProofs!RegisterTask, Loop!IsTop,
     LoopProofs!IsTop, Loop!Before, LoopProofs!Before, Loop!WakeUp, LoopProofs!WakeUp,
     Loop!LoopPostTask, LoopProofs!LoopPostTask, Loop!OnLoopThread, LoopProofs!OnLoopThread,
     Loop!DoTerminate, LoopProofs!DoTerminate, Loop!AddTaskObserver,
     LoopProofs!AddTaskObserver, Loop!Completed, LoopProofs!Completed, Loop!LoopThread,
     LoopProofs!LoopThread, Loop!DoRun, LoopProofs!DoRun, Loop!RunStart, LoopProofs!RunStart,
     Loop!RunTest, LoopProofs!RunTest, Loop!WaitForTimer, LoopProofs!WaitForTimer,
     Loop!FlushTasks, LoopProofs!FlushTasks, Loop!GetNextTaskToRunNone,
     LoopProofs!GetNextTaskToRunNone, Loop!AfterFlush, LoopProofs!AfterFlush,
     Loop!GetNextTaskToRunLater, LoopProofs!GetNextTaskToRunLater, Loop!GetNextTaskToRun,
     LoopProofs!GetNextTaskToRun, Loop!TaskReturns, LoopProofs!TaskReturns,
     Loop!NotifyObservers, LoopProofs!NotifyObservers, Loop!RunReturns,
     LoopProofs!RunReturns, Loop!DisposeTasks, LoopProofs!DisposeTasks, Loop!Dispose,
     LoopProofs!Dispose, Loop!Tick, LoopProofs!Tick
<1> QED  BY <1>1, <1>2

(* The same for the latch. *)
LEMMA SameLatch ==
  /\ latch!Init <=> LatchProofs!Init
  /\ latch!Next <=> LatchProofs!Next
<1>1. latch!Init <=> LatchProofs!Init
  BY DEF latch!Init, LatchProofs!Init
<1>2. latch!Next <=> LatchProofs!Next
  BY DEF latch!Next, LatchProofs!Next, latch!Thread, LatchProofs!Thread, latch!Waiting,
     LatchProofs!Waiting, latch!Signal,
     LatchProofs!Signal, latch!Reset, LatchProofs!Reset, latch!Receive, LatchProofs!Receive,
     latch!WaitReturns, LatchProofs!WaitReturns, latch!WaitParks, LatchProofs!WaitParks,
     latch!WakeSpuriously, LatchProofs!WakeSpuriously, latch!TimeOut, LatchProofs!TimeOut,
     latch!ResumeReceives, LatchProofs!ResumeReceives, latch!ResumeParks,
     LatchProofs!ResumeParks, latch!ResumeTooLate, LatchProofs!ResumeTooLate,
     latch!ResumeTimedOut, LatchProofs!ResumeTimedOut, latch!Resume, LatchProofs!Resume,
     latch!counters, LatchProofs!counters
<1> QED  BY <1>1, <1>2

(* The steps that are none of the loop. *)
LEMMA LoopIdle ==
  ASSUME \/ LatchWaits \/ ConstructorReturns \/ Join \/ JoinRefused \/ JoinReturns \/ Destroy
         \/ LatchWakesSpuriously \/ ThreadStarts \/ PublishRunner \/ LatchSignal
  PROVE  UNCHANGED loopVars
BY Zenon DEF LatchWaits, ConstructorReturns, Join, JoinRefused, JoinReturns, Destroy, LatchWakesSpuriously,
   ThreadStarts, PublishRunner, LatchSignal

(* Every other step is one of the loop.  Join posts its task for the time it  *)
(* reads, which is a time of the clock.                                       *)
LEMMA LoopSteps ==
  ASSUME now \in Loop!Time, [Next \/ TaskTerminatesLoop \/ JoinRefused]_vars
  PROVE  Loop!Next \/ UNCHANGED loopVars
<1>1. CASE UNCHANGED vars
  BY <1>1 DEF vars
<1>2. CASE JoinPosts
  BY <1>2 DEF JoinPosts, Loop!Next
<1>3. CASE JoinRegisters \/ \E c \in calls : UserRegisters(c)
  BY <1>3 DEF JoinRegisters, UserRegisters, Loop!Next
<1>4. CASE \E p \in Users, t \in Loop!Time : UserPostTask(p, t)
  BY <1>4 DEF UserPostTask, Loop!Next
<1>5. CASE LoopRuns \/ TerminateTask \/ ThreadEnds \/ TaskBody \/ TaskTerminatesLoop \/ Tick
  BY <1>5 DEF LoopRuns, TerminateTask, ThreadEnds, TaskBody, TaskTerminatesLoop, Tick, Loop!Next,
     Loop!LoopThread
<1> QED  BY <1>1, <1>2, <1>3, <1>4, <1>5, LoopIdle DEF Next, OwnerStep, ThreadStep

(* The clock stays within its bound. *)
LEMMA ClockStep ==
  ASSUME now \in Loop!Time, [Next \/ TaskTerminatesLoop \/ JoinRefused]_vars PROVE now' \in Loop!Time
<1>1. CASE UNCHANGED loopVars
  BY <1>1 DEF loopVars
<1>2. CASE Loop!Tick
  BY <1>2, ThreadLifecycleAssumption DEF Loop!Tick, Loop!Time
<1>3. CASE Loop!Next /\ ~Loop!Tick
  <2>1. now' = now
    BY <1>3, Zenon DEF Loop!Next, Loop!LoopThread, Loop!PostTask, Loop!PostTaskRegister,
       Loop!LoopPostTask, Loop!DoTerminate, Loop!AddTaskObserver, Loop!DoRun, Loop!RunStart,
       Loop!RunTest, Loop!WaitForTimer, Loop!FlushTasks, Loop!GetNextTaskToRunNone,
       Loop!GetNextTaskToRunLater, Loop!GetNextTaskToRun, Loop!TaskReturns,
       Loop!NotifyObservers, Loop!RunReturns, Loop!DisposeTasks, Loop!Dispose
  <2> QED  BY <2>1
<1> QED  BY <1>1, <1>2, <1>3, LoopSteps

(* The steps of the latch. *)
LEMMA LatchMoves ==
  ASSUME [Next \/ TaskTerminatesLoop \/ JoinRefused]_vars PROVE latch!Next \/ UNCHANGED latchVars
<1>1. CASE LatchWaits \/ ConstructorReturns \/ LatchWakesSpuriously \/ LatchSignal
  BY <1>1 DEF LatchWaits, ConstructorReturns, LatchWakesSpuriously, LatchSignal, latch!Next,
     latch!Resume, latch!Thread
<1>2. CASE \/ Join \/ JoinPosts \/ JoinRefused \/ JoinRegisters \/ JoinReturns \/ Destroy
           \/ \E p \in Users, t \in Loop!Time : UserPostTask(p, t)
           \/ \E c \in calls : UserRegisters(c)
           \/ ThreadStarts \/ PublishRunner \/ LoopRuns \/ TerminateTask \/ ThreadEnds
           \/ TaskBody \/ TaskTerminatesLoop \/ Tick
  BY <1>2, Zenon DEF Join, JoinPosts, JoinRefused, JoinRegisters, JoinReturns, Destroy, UserPostTask,
     UserRegisters, ThreadStarts, PublishRunner, LoopRuns, TerminateTask, ThreadEnds, TaskBody,
     TaskTerminatesLoop, Tick
<1> QED  BY <1>1, <1>2 DEF Next, OwnerStep, ThreadStep, vars

(* The loop inside a Thread is a MessageLoop, whatever its tasks do. *)
THEOREM ThreadRunsLoop == SelfTerminatingSpec => LoopProofs!Spec
<1>1. Init => LoopProofs!Init /\ now \in Loop!Time
  BY SameLoop, ThreadLifecycleAssumption DEF Init, Loop!Init, Loop!Time
<1>2. now \in Loop!Time /\ [Next \/ TaskTerminatesLoop \/ JoinRefused]_vars
        => (now \in Loop!Time)' /\ [LoopProofs!Next]_(LoopProofs!vars)
  <2> SUFFICES ASSUME now \in Loop!Time, [Next \/ TaskTerminatesLoop \/ JoinRefused]_vars
               PROVE  now' \in Loop!Time /\ [LoopProofs!Next]_(LoopProofs!vars)
    OBVIOUS
  <2>1. LoopProofs!Next \/ UNCHANGED loopVars
    BY LoopSteps, SameLoop
  <2>2. UNCHANGED loopVars => UNCHANGED LoopProofs!vars
    BY DEF loopVars, LoopProofs!vars, LoopProofs!queueVars, LoopProofs!flagVars,
       LoopProofs!flushVars, LoopProofs!observerVars
  <2> QED  BY <2>1, <2>2, ClockStep
<1> QED  BY <1>1, <1>2, PTL DEF SelfTerminatingSpec, LoopProofs!Spec

(* The latch of the constructor is a OneOffWaitableEvent that one thread   *)
(* waits for and one signals, once.                                          *)
THEOREM ThreadUsesLatch == SelfTerminatingSpec => LatchProofs!Spec
<1>1. Init => LatchProofs!Init
  BY SameLatch DEF Init
<1>2. [Next \/ TaskTerminatesLoop \/ JoinRefused]_vars => [LatchProofs!Next]_(LatchProofs!vars)
  <2> SUFFICES ASSUME [Next \/ TaskTerminatesLoop \/ JoinRefused]_vars
               PROVE  [LatchProofs!Next]_(LatchProofs!vars)
    OBVIOUS
  <2>1. LatchProofs!Next \/ UNCHANGED latchVars
    BY LatchMoves, SameLatch
  <2>2. UNCHANGED latchVars => UNCHANGED LatchProofs!vars
    BY DEF latchVars, LatchProofs!vars, LatchProofs!counters
  <2> QED  BY <2>1, <2>2
<1> QED  BY <1>1, <1>2, PTL DEF SelfTerminatingSpec, LatchProofs!Spec

(* Where tasks leave it to Join to terminate the loop is a special case. *)
LEMMA SpecSelfTerminating == Spec => SelfTerminatingSpec
<1>1. [Next]_vars => [Next \/ TaskTerminatesLoop \/ JoinRefused]_vars
  OBVIOUS
<1> QED  BY <1>1, PTL DEF Spec, SelfTerminatingSpec

(* For any users and tasks, one of which may be Join's and any of which may   *)
(* call Terminate: the loop of a Thread loses no wake-up, runs tasks in order *)
(* and not early, and runs those due at its end.                              *)
THEOREM ThreadLoopSafe ==
  SelfTerminatingSpec => [](/\ Loop!NoLostWakeUp /\ Loop!RunsInOrder
                            /\ Loop!NeverEarly /\ Loop!DueTasksRunBeforeDisposal)
<1>1. LoopProofs!Spec => []LoopProofs!NoLostWakeUp
  BY PartsAssumptions, LoopProofs!WakeUpNeverLost
<1>2. LoopProofs!Spec => []LoopProofs!RunsInOrder
  BY PartsAssumptions, LoopProofs!TasksRunInOrder
<1>3. LoopProofs!Spec => []LoopProofs!NeverEarly
  BY PartsAssumptions, LoopProofs!TasksNeverEarly
<1>4. LoopProofs!Spec => []LoopProofs!DueTasksRunBeforeDisposal
  BY PartsAssumptions, LoopProofs!DueTasksRun
<1>5. /\ LoopProofs!NoLostWakeUp <=> Loop!NoLostWakeUp
      /\ LoopProofs!RunsInOrder <=> Loop!RunsInOrder
      /\ LoopProofs!NeverEarly <=> Loop!NeverEarly
      /\ LoopProofs!DueTasksRunBeforeDisposal <=> Loop!DueTasksRunBeforeDisposal
  BY DEF LoopProofs!NoLostWakeUp, Loop!NoLostWakeUp, LoopProofs!RunsInOrder, Loop!RunsInOrder,
     LoopProofs!NeverEarly, Loop!NeverEarly, LoopProofs!DueTasksRunBeforeDisposal,
     Loop!DueTasksRunBeforeDisposal, LoopProofs!Off, Loop!Off
<1> QED  BY <1>1, <1>2, <1>3, <1>4, <1>5, ThreadRunsLoop, PTL

(* The latch never leaves the constructor parked after the new thread has     *)
(* signaled, and that one signal is not lost: nobody waits with a timeout.    *)
THEOREM ThreadLatchSafe ==
  SelfTerminatingSpec => [](latch!NoStrandedWaiter /\ latch!SignalWakesOne)
<1>1. LatchProofs!Spec => []LatchProofs!NoStrandedWaiter
  BY PartsAssumptions, LatchProofs!NobodyStranded
<1>2. LatchProofs!Spec => []LatchProofs!SignalWakesOne
  BY PartsAssumptions, LatchProofs!SignalsBalance
<1>3. /\ LatchProofs!NoStrandedWaiter <=> latch!NoStrandedWaiter
      /\ LatchProofs!SignalWakesOne <=> latch!SignalWakesOne
  BY DEF LatchProofs!NoStrandedWaiter, latch!NoStrandedWaiter, LatchProofs!SignalWakesOne,
     latch!SignalWakesOne
<1> QED  BY <1>1, <1>2, <1>3, ThreadUsesLatch, PTL
=============================================================================
