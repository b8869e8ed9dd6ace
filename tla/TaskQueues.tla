------------------------------ MODULE TaskQueues ------------------------------
(***************************************************************************)
(* MessageLoopTaskQueues, the object all message loops of a process share: *)
(* its lazy creation in GetInstance, the queue entries that loops create   *)
(* and dispose of, and the questions asked of queue ids by                 *)
(* TaskRunner::RunsTasksOnCurrentThread.                                   *)
(*                                                                         *)
(* GetInstance tests, stores and reads an unprotected static pointer, so   *)
(* those are steps of their own; everything else is one critical section   *)
(* of queue_mutex_.  A loop's thread is:                                   *)
(*   out       without a message loop                                      *)
(*   alloc     in GetInstance, having read a null pointer                  *)
(*   return    in GetInstance, about to read the pointer to return it      *)
(*   create    in MessageLoopImpl's constructor, before CreateTaskQueue    *)
(*   wakeable  likewise, before SetWakeable                                *)
(*   in        with a message loop                                         *)
(***************************************************************************)
EXTENDS Integers, FiniteSets

CONSTANTS Threads,
          MaxQueues,    \* bound: queues created in one behaviour
          Concurrent    \* whether threads may race to the first GetInstance

ASSUME TaskQueuesAssumption ==
  IsFiniteSet(Threads) /\ MaxQueues \in Nat /\ Concurrent \in BOOLEAN

VARIABLES
  instance,        \* the static pointer of GetInstance; 0 is null
  allocated,       \* objects allocated; the n-th is number n
  task_queue_id_counter_,  \* of each object
  queue_entries_,  \* the entries of all objects
  pc,
  task_queue_,     \* task_queue_[t]: the object t's loop uses
  queue_id_,       \* queue_id_[t]: the queue of t's loop
  check,           \* check[t]: t's call of RunsOnTheSameThread
  answer           \* answer[t]: what RunsTasksOnCurrentThread last told t

loopVars == <<pc, task_queue_, queue_id_>>
queueVars == <<instance, allocated, task_queue_id_counter_, queue_entries_>>
checkVars == <<check, answer>>
vars == <<queueVars, loopVars, checkVars>>

Object == 1..Cardinality(Threads)
QueueId == 0..(MaxQueues - 1)
NoThread == "none"
Entry == [object : Object, id : QueueId, owner_of : QueueId,
          wakeable : Threads \cup {NoThread}]
Answer == [asked : Threads \cup {NoThread}, id : QueueId \cup {0},
           says : {"nothing", "true", "false", "throws"}]
NoCheck == [asked |-> NoThread, id |-> 0, queues |-> 0, half |-> FALSE]
Check == {NoCheck} \cup [asked : Threads, id : QueueId, queues : Object, half : BOOLEAN]

EntryAt(obj, id) == {e \in queue_entries_ : e.object = obj /\ e.id = id}
At(t) == EntryAt(task_queue_[t], queue_id_[t])

-----------------------------------------------------------------------------
(* MessageLoop::EnsureInitializedForCurrentThread: the constructors of      *)
(* MessageLoop and of MessageLoopImpl.                                      *)

(* Thread's constructor waits until the loop of the new thread is set up,   *)
(* so loops started by it, one after another, do not race to GetInstance.   *)
MayStart == Concurrent \/ instance # 0 \/ \A t \in Threads : pc[t] = "out"

EnsureInitializedForCurrentThread(t) ==
  /\ pc[t] = "out"
  /\ MayStart
  /\ check[t] = NoCheck
  /\ pc' = [pc EXCEPT ![t] = IF instance = 0 THEN "alloc" ELSE "return"]
  /\ UNCHANGED <<queueVars, task_queue_, queue_id_, checkVars>>

GetInstanceAllocates(t) ==
  /\ pc[t] = "alloc"
  /\ allocated' = allocated + 1
  /\ instance' = allocated'
  /\ pc' = [pc EXCEPT ![t] = "return"]
  /\ UNCHANGED <<task_queue_id_counter_, queue_entries_, task_queue_, queue_id_, checkVars>>

GetInstanceReturns(t) ==
  /\ pc[t] = "return"
  /\ task_queue_' = [task_queue_ EXCEPT ![t] = instance]
  /\ pc' = [pc EXCEPT ![t] = "create"]
  /\ UNCHANGED <<queueVars, queue_id_, checkVars>>

Created(obj) == task_queue_id_counter_[obj]

CreateTaskQueueReusingIds(t) ==
  LET obj == task_queue_[t]
      id  == Cardinality({e \in queue_entries_ : e.object = obj})
  IN  /\ pc[t] = "create"
      /\ Created(obj) < MaxQueues
      /\ task_queue_id_counter_' = [task_queue_id_counter_ EXCEPT ![obj] = @ + 1]
      /\ queue_entries_' = (queue_entries_ \ EntryAt(obj, id)) \cup
           {[object |-> obj, id |-> id, owner_of |-> id, wakeable |-> NoThread]}
      /\ queue_id_' = [queue_id_ EXCEPT ![t] = id]
      /\ pc' = [pc EXCEPT ![t] = "wakeable"]
      /\ UNCHANGED <<instance, allocated, task_queue_, checkVars>>

CreateTaskQueue(t) ==
  LET obj == task_queue_[t]
      id  == task_queue_id_counter_[obj]
  IN  /\ pc[t] = "create"
      /\ Created(obj) < MaxQueues
      /\ task_queue_id_counter_' = [task_queue_id_counter_ EXCEPT ![obj] = @ + 1]
      /\ queue_entries_' = (queue_entries_ \ EntryAt(obj, id)) \cup
           {[object |-> obj, id |-> id, owner_of |-> id, wakeable |-> NoThread]}
      /\ queue_id_' = [queue_id_ EXCEPT ![t] = id]
      /\ pc' = [pc EXCEPT ![t] = "wakeable"]
      /\ UNCHANGED <<instance, allocated, task_queue_, checkVars>>

SetWakeable(t) ==
  /\ pc[t] = "wakeable"
  /\ queue_entries_' = (queue_entries_ \ At(t)) \cup {[e EXCEPT !.wakeable = t] : e \in At(t)}
  /\ pc' = [pc EXCEPT ![t] = "in"]
  /\ UNCHANGED <<instance, allocated, task_queue_id_counter_, task_queue_, queue_id_, checkVars>>

DisposeLastCreated(t) ==
  /\ pc[t] = "in"
  /\ check[t] = NoCheck
  /\ queue_entries_' =
       queue_entries_ \ EntryAt(task_queue_[t], Created(task_queue_[t]) - 1)
  /\ pc' = [pc EXCEPT ![t] = "out"]
  /\ UNCHANGED <<instance, allocated, task_queue_id_counter_, task_queue_, queue_id_, checkVars>>

(* ~MessageLoopImpl, when the thread ends, whoever asks about its queue just *)
(* then.  owner_of is the queue itself, so the second erase of Dispose finds *)
(* nothing.                                                                  *)
Dispose(t) ==
  /\ pc[t] = "in"
  /\ check[t] = NoCheck
  /\ queue_entries_' = queue_entries_ \ At(t)
  /\ pc' = [pc EXCEPT ![t] = "out"]
  /\ UNCHANGED <<instance, allocated, task_queue_id_counter_, task_queue_, queue_id_, checkVars>>

-----------------------------------------------------------------------------
(* TaskRunner::RunsTasksOnCurrentThread, called by t on the runner of u,     *)
(* whose loop exists at the call.  The ids are read at once and passed on by *)
(* value: u's loop may end before they are used.                             *)

MayAsk(t, u) == pc[t] \in {"out", "in"} /\ pc[u] = "in" /\ check[t] = NoCheck

Says(t, u, id, what) == answer' = [answer EXCEPT ![t] = [asked |-> u, id |-> id, says |-> what]]

RunsTasksOnCurrentThread(t, u) ==
  /\ MayAsk(t, u)
  /\ \/ pc[t] = "out" /\ Says(t, u, queue_id_[u], "false")
     \/ pc[t] = "in" /\ queue_id_[t] = queue_id_[u] /\ Says(t, u, queue_id_[u], "true")
  /\ UNCHANGED <<queueVars, loopVars, check>>

(* The ids differ: RunsOnTheSameThread asks the object of GetInstance, which *)
(* t's own loop has made non-null.                                          *)
RunsOnTheSameThread(t, u) ==
  /\ MayAsk(t, u)
  /\ pc[t] = "in" /\ queue_id_[t] # queue_id_[u]
  /\ check' = [check EXCEPT ![t] = [asked |-> u, id |-> queue_id_[u], queues |-> instance, half |-> FALSE]]
  /\ UNCHANGED <<queueVars, loopVars, answer>>

(* Owns(owner, subsumed); at() throws when the object has no such entry. *)
OwnsSelfOnly(t, owner, subsumed) ==
  LET found == EntryAt(check[t].queues, owner)
  IN  IF found = {} THEN "throws" ELSE "true"

Owns(t, owner, subsumed) ==
  LET found == EntryAt(check[t].queues, owner)
  IN  IF found = {} THEN "throws"
      ELSE IF \E e \in found : e.owner_of = subsumed THEN "true" ELSE "false"

(* Owns(queue_a, queue_b), and when that is false Owns(queue_b, queue_a).   *)
OwnsAB(t) == Owns(t, queue_id_[t], check[t].id)
OwnsBA(t) == Owns(t, check[t].id, queue_id_[t])

FirstOwnsFails(t) ==
  /\ check[t] # NoCheck /\ ~check[t].half
  /\ OwnsAB(t) = "false"
  /\ check' = [check EXCEPT ![t].half = TRUE]
  /\ UNCHANGED <<queueVars, loopVars, answer>>

OwnsDecides(t) ==
  /\ check[t] # NoCheck
  /\ check[t].half \/ OwnsAB(t) # "false"
  /\ Says(t, check[t].asked, check[t].id, IF check[t].half THEN OwnsBA(t) ELSE OwnsAB(t))
  /\ check' = [check EXCEPT ![t] = NoCheck]
  /\ UNCHANGED <<queueVars, loopVars>>

-----------------------------------------------------------------------------
Init ==
  /\ instance = 0 /\ allocated = 0
  /\ task_queue_id_counter_ = [o \in Object |-> 0]
  /\ queue_entries_ = {}
  /\ pc = [t \in Threads |-> "out"]
  /\ task_queue_ = [t \in Threads |-> 0]
  /\ queue_id_ = [t \in Threads |-> 0]
  /\ check = [t \in Threads |-> NoCheck]
  /\ answer = [t \in Threads |-> [asked |-> NoThread, id |-> 0, says |-> "nothing"]]

Next ==
  \E t \in Threads :
     \/ EnsureInitializedForCurrentThread(t)
     \/ GetInstanceAllocates(t)
     \/ GetInstanceReturns(t)
     \/ CreateTaskQueue(t)
     \/ SetWakeable(t)
     \/ Dispose(t)
     \/ \E u \in Threads : RunsTasksOnCurrentThread(t, u) \/ RunsOnTheSameThread(t, u)
     \/ FirstOwnsFails(t) \/ OwnsDecides(t)

Spec == Init /\ [][Next]_vars

-----------------------------------------------------------------------------
TypeOK ==
  /\ instance \in {0} \cup Object
  /\ allocated \in {0} \cup Object
  /\ task_queue_id_counter_ \in [Object -> 0..MaxQueues]
  /\ queue_entries_ \in SUBSET Entry
  /\ pc \in [Threads -> {"out", "alloc", "return", "create", "wakeable", "in"}]
  /\ task_queue_ \in [Threads -> {0} \cup Object]
  /\ queue_id_ \in [Threads -> {0} \cup QueueId]
  /\ check \in [Threads -> Check]
  /\ answer \in [Threads -> Answer]

HasQueue(t) == pc[t] \in {"wakeable", "in"}

(* queue_entries_ and the loops that are alive match one to one: a loop's   *)
(* queue is found under its id and wakes that loop and no other, SetWakeable *)
(* finds no wakeable, and no entry outlives its loop.                       *)
EntriesMatchLoops ==
  /\ \A t \in Threads : HasQueue(t) =>
       At(t) = {[object |-> task_queue_[t], id |-> queue_id_[t], owner_of |-> queue_id_[t],
                 wakeable |-> IF pc[t] = "in" THEN t ELSE NoThread]}
  /\ \A e \in queue_entries_ : \E t \in Threads : HasQueue(t) /\ e \in At(t)
  /\ \A t, u \in Threads : HasQueue(t) /\ HasQueue(u) /\ At(t) = At(u) => t = u

(* GetCurrentTaskQueueId returns "the unique identifier for the TaskQueue   *)
(* associated with the current thread" (message_loop.h:36-37): two threads  *)
(* with loops have different ids.                                           *)
QueueIdsUnique ==
  \A t, u \in Threads : HasQueue(t) /\ HasQueue(u) /\ queue_id_[t] = queue_id_[u] => t = u

(* RunsTasksOnCurrentThread says true exactly to the runner's own thread,    *)
(* whatever loops start and end between its lookups.  A lookup throws only   *)
(* when the loop that was asked about has ended since, and it is not mistaken *)
(* for a later one: its id is never given out again.                         *)
RunsTasksAnswersRight ==
  \A t \in Threads :
     CASE answer[t].says = "nothing" -> TRUE
       [] answer[t].says = "throws"  ->
            /\ answer[t].asked # t
            /\ \A u \in Threads : HasQueue(u) => queue_id_[u] # answer[t].id
       [] OTHER -> answer[t].says = IF answer[t].asked = t THEN "true" ELSE "false"
=============================================================================
