--------------------------- MODULE TaskQueuesProofs ---------------------------
(***************************************************************************)
(* Proofs about the shared task queues, for any finite set of threads that *)
(* do not race to the first GetInstance: the loops of wtf::Thread, whose   *)
(* constructor waits until the new thread has its loop.                    *)
(***************************************************************************)
EXTENDS TaskQueues, FiniteSetTheorems, TLAPS

-----------------------------------------------------------------------------
(* The entry of t's loop. *)
LoopEntry(t) ==
  [object |-> 1, id |-> queue_id_[t], owner_of |-> queue_id_[t],
   wakeable |-> IF pc[t] = "in" THEN t ELSE NoThread]

Loops == {t \in Threads : HasQueue(t)}

(* One object is ever made: whoever finds the pointer null is alone, and     *)
(* everybody past GetInstance holds object 1.                               *)
InstanceInv ==
  /\ instance \in {0, 1} /\ allocated = instance
  /\ \A t \in Threads :
       /\ pc[t] = "alloc" => instance = 0
       /\ instance = 0 => pc[t] \in {"out", "alloc"}
       /\ pc[t] \in {"create", "wakeable", "in"} => task_queue_[t] = 1
  /\ \A t, u \in Threads : pc[t] = "alloc" /\ pc[u] = "alloc" => t = u

(* The entries are those of the loops, whose ids were given out and differ. *)
EntriesInv ==
  /\ queue_entries_ = {LoopEntry(t) : t \in Loops}
  /\ \A t \in Loops : queue_id_[t] < task_queue_id_counter_[1]
  /\ QueueIdsUnique

(* RunsOnTheSameThread is called by a thread with a loop, about the id of    *)
(* another one, which may have ended meanwhile.                             *)
CheckInv ==
  \A t \in Threads : check[t] # NoCheck =>
     /\ check[t].queues = 1 /\ check[t].asked \in Threads \ {t}
     /\ pc[t] = "in" /\ queue_id_[t] # check[t].id

(* The ids that were asked about were given out before. *)
AskedInv ==
  \A t \in Threads :
     /\ check[t] # NoCheck => check[t].id < task_queue_id_counter_[1]
     /\ answer[t].says # "nothing" => answer[t].id < task_queue_id_counter_[1]

IInv == TypeOK /\ InstanceInv /\ EntriesInv /\ CheckInv /\ AskedInv /\ RunsTasksAnswersRight

(* What a lookup in queue_entries_ finds under the id of a loop. *)
LEMMA Lookup ==
  ASSUME IInv, NEW t \in Loops
  PROVE  EntryAt(1, queue_id_[t]) = {LoopEntry(t)}
<1>1. \A e \in queue_entries_ : e.id = queue_id_[t] => e = LoopEntry(t)
  <2> SUFFICES ASSUME NEW u \in Loops, queue_id_[u] = queue_id_[t] PROVE u = t
    BY DEF IInv, EntriesInv, LoopEntry
  <2> QED  BY DEF IInv, EntriesInv, QueueIdsUnique, Loops
<1>2. LoopEntry(t) \in queue_entries_ /\ LoopEntry(t).object = 1 /\ LoopEntry(t).id = queue_id_[t]
  BY DEF IInv, EntriesInv, LoopEntry
<1> QED  BY <1>1, <1>2 DEF EntryAt

(* The same for the object a loop holds. *)
LEMMA LookupAt ==
  ASSUME IInv, NEW t \in Loops PROVE At(t) = {LoopEntry(t)}
BY Lookup DEF At, IInv, InstanceInv, Loops, HasQueue

(* With a thread there is an object. *)
LEMMA ObjectOne == ASSUME NEW t \in Threads PROVE 1 \in Object
<1>1. Cardinality(Threads) \in Nat /\ Cardinality(Threads) # 0
  BY TaskQueuesAssumption, FS_CardinalityType, FS_EmptySet
<1> QED  BY <1>1 DEF Object

(* It holds initially. *)
LEMMA InitHolds == ASSUME Init PROVE IInv
<1>1. Loops = {}
  BY DEF Init, Loops, HasQueue
<1>2. TypeOK
  <2>1. \A o \in Object : 0 \in 0..MaxQueues
    BY TaskQueuesAssumption
  <2>2. [asked |-> NoThread, id |-> 0, says |-> "nothing"] \in Answer /\ NoCheck \in Check
    BY DEF Answer, Check
  <2> QED  BY <2>1, <2>2 DEF Init, TypeOK
<1>3. InstanceInv /\ CheckInv /\ AskedInv /\ RunsTasksAnswersRight
  BY DEF Init, InstanceInv, CheckInv, AskedInv, RunsTasksAnswersRight
<1>4. EntriesInv
  BY <1>1 DEF Init, EntriesInv, QueueIdsUnique, Loops
<1> QED  BY <1>2, <1>3, <1>4 DEF IInv

-----------------------------------------------------------------------------
(* A step of t that leaves the entries, the ids and the set of loops alone. *)
LEMMA EntriesKept ==
  ASSUME IInv, UNCHANGED <<queue_entries_, queue_id_, task_queue_id_counter_>>,
         \A t \in Threads : \/ pc'[t] = pc[t]
                            \/ ~HasQueue(t) /\ pc'[t] \notin {"wakeable", "in"}
  PROVE  EntriesInv'
<1>1. Loops' = Loops
  BY DEF Loops, HasQueue
<1>2. \A t \in Loops : LoopEntry(t)' = LoopEntry(t)
  BY DEF Loops, HasQueue, LoopEntry
<1>3. {LoopEntry(t)' : t \in Loops'} = {LoopEntry(t) : t \in Loops}
  BY <1>1, <1>2
<1>4. QueueIdsUnique'
  BY DEF IInv, EntriesInv, QueueIdsUnique, HasQueue
<1> QED  BY <1>1, <1>3, <1>4 DEF IInv, EntriesInv

(* A step that answers nothing and gives out no id that was asked about. *)
LEMMA AnswersKept ==
  ASSUME IInv, UNCHANGED <<check, answer>>,
         task_queue_id_counter_'[1] >= task_queue_id_counter_[1],
         task_queue_id_counter_'[1] \in Int, task_queue_id_counter_[1] \in Int,
         \A t \in Threads :
            HasQueue(t)' => \/ HasQueue(t) /\ queue_id_'[t] = queue_id_[t]
                            \/ queue_id_'[t] = task_queue_id_counter_[1]
  PROVE  AskedInv' /\ RunsTasksAnswersRight'
<1>1. \A t \in Threads : check[t].id \in Int /\ answer[t].id \in Int
  BY TaskQueuesAssumption DEF IInv, TypeOK, Check, NoCheck, Answer, QueueId
<1>2. AskedInv'
  BY <1>1 DEF IInv, AskedInv
<1>3. ASSUME NEW t \in Threads, answer[t].says = "throws", NEW u \in Threads, HasQueue(u)'
      PROVE  answer[t].asked # t /\ queue_id_'[u] # answer[t].id
  <2>1. /\ answer[t].asked # t
        /\ \A v \in Threads : HasQueue(v) => queue_id_[v] # answer[t].id
    BY <1>3 DEF IInv, RunsTasksAnswersRight
  <2>2. answer[t].id < task_queue_id_counter_[1]
    BY <1>3 DEF IInv, AskedInv
  <2> QED  BY <1>1, <1>3, <2>1, <2>2
<1>4. RunsTasksAnswersRight'
  BY <1>3 DEF IInv, RunsTasksAnswersRight
<1> QED  BY <1>2, <1>4

(* Entering GetInstance, allocating and returning. *)
LEMMA GetInstanceKeeps ==
  ASSUME ~Concurrent, IInv, NEW t \in Threads,
         EnsureInitializedForCurrentThread(t) \/ GetInstanceAllocates(t) \/ GetInstanceReturns(t)
  PROVE  IInv'
<1>0. /\ 1 \in Object /\ pc[t] \in {"out", "alloc", "return"}
      /\ \A u \in Threads : u # t => pc'[u] = pc[u]
      /\ pc' = [pc EXCEPT ![t] = pc'[t]] /\ pc'[t] \in {"alloc", "return", "create"}
      /\ UNCHANGED <<queue_entries_, queue_id_, task_queue_id_counter_, check, answer>>
  BY ObjectOne DEF EnsureInitializedForCurrentThread, GetInstanceAllocates, GetInstanceReturns,
     IInv, TypeOK, queueVars, checkVars
<1>1. InstanceInv'
  <2>1. CASE EnsureInitializedForCurrentThread(t)
    BY <2>1 DEF EnsureInitializedForCurrentThread, MayStart, IInv, TypeOK, InstanceInv, queueVars
  <2>2. CASE GetInstanceAllocates(t)
    BY <2>2 DEF GetInstanceAllocates, IInv, TypeOK, InstanceInv
  <2>3. CASE GetInstanceReturns(t)
    BY <2>3 DEF GetInstanceReturns, IInv, TypeOK, InstanceInv, queueVars
  <2> QED  BY <2>1, <2>2, <2>3
<1>2. TypeOK'
  <2>1. instance' \in {0} \cup Object /\ allocated' \in {0} \cup Object
    BY <1>0, <1>1 DEF InstanceInv
  <2>2. task_queue_' \in [Threads -> {0} \cup Object]
    BY <1>0, <1>1 DEF EnsureInitializedForCurrentThread, GetInstanceAllocates, GetInstanceReturns,
       IInv, TypeOK
  <2>3. pc' \in [Threads -> {"out", "alloc", "return", "create", "wakeable", "in"}]
    BY <1>0 DEF IInv, TypeOK
  <2> QED  BY <1>0, <2>1, <2>2, <2>3 DEF IInv, TypeOK
<1>3. EntriesInv'
  <2>0. pc[t] \notin {"wakeable", "in"} /\ pc'[t] \notin {"wakeable", "in"}
    BY <1>0
  <2>1. \A u \in Threads : \/ pc'[u] = pc[u]
                           \/ ~HasQueue(u) /\ pc'[u] \notin {"wakeable", "in"}
    <3> TAKE u \in Threads
    <3>1. CASE u = t
      BY <2>0, <3>1 DEF HasQueue
    <3>2. CASE u # t
      BY <1>0, <3>2
    <3> QED  BY <3>1, <3>2
  <2> QED  BY <1>0, <2>1, EntriesKept
<1>4. CheckInv' /\ AskedInv' /\ RunsTasksAnswersRight'
  <2>1. \A u \in Threads : pc[u] = "in" => pc'[u] = "in"
    BY <1>0
  <2>2. CheckInv'
    BY <1>0, <2>1 DEF IInv, CheckInv
  <2>3. \A u \in Threads : HasQueue(u)' => HasQueue(u) /\ queue_id_'[u] = queue_id_[u]
    BY <1>0 DEF HasQueue
  <2>4. /\ task_queue_id_counter_'[1] = task_queue_id_counter_[1]
        /\ task_queue_id_counter_[1] \in Int
    BY <1>0, TaskQueuesAssumption DEF IInv, TypeOK
  <2> QED  BY <1>0, <2>2, <2>3, <2>4, AnswersKept
<1> QED  BY <1>1, <1>2, <1>3, <1>4 DEF IInv

(* A loop's queue is created under an id that no loop has. *)
LEMMA CreateTaskQueueKeeps ==
  ASSUME IInv, NEW t \in Threads, CreateTaskQueue(t) PROVE IInv'
<1> DEFINE id == task_queue_id_counter_[1]
           entry == [object |-> 1, id |-> id, owner_of |-> id, wakeable |-> NoThread]
<1>0. /\ 1 \in Object /\ pc[t] = "create" /\ task_queue_[t] = 1 /\ t \notin Loops
      /\ id \in Nat /\ id < MaxQueues
  BY ObjectOne DEF CreateTaskQueue, Created, IInv, TypeOK, InstanceInv, Loops, HasQueue
<1>1. /\ queue_entries_' = (queue_entries_ \ EntryAt(1, id)) \cup {entry}
      /\ task_queue_id_counter_' = [task_queue_id_counter_ EXCEPT ![1] = @ + 1]
      /\ queue_id_' = [queue_id_ EXCEPT ![t] = id]
      /\ pc' = [pc EXCEPT ![t] = "wakeable"]
      /\ UNCHANGED <<instance, allocated, task_queue_, check, answer>>
  BY <1>0 DEF CreateTaskQueue, checkVars
<1>2. /\ pc'[t] = "wakeable" /\ queue_id_'[t] = id /\ task_queue_id_counter_'[1] = id + 1
      /\ \A u \in Threads : u # t => pc'[u] = pc[u] /\ queue_id_'[u] = queue_id_[u]
  BY <1>0, <1>1 DEF IInv, TypeOK
<1>3. \A u \in Loops : queue_id_[u] < id /\ queue_id_[u] \in Nat
  BY TaskQueuesAssumption DEF IInv, EntriesInv, TypeOK, Loops, QueueId
<1>4. EntryAt(1, id) = {}
  <2>1. \A e \in queue_entries_ : \E u \in Loops : e.id = queue_id_[u]
    BY DEF IInv, EntriesInv, LoopEntry
  <2> QED  BY <1>0, <1>3, <2>1 DEF EntryAt
<1>5. TypeOK'
  <2>1. id \in QueueId /\ entry \in Entry
    BY <1>0, TaskQueuesAssumption DEF QueueId, Entry
  <2>2. queue_entries_' \in SUBSET Entry
    BY <1>1, <2>1 DEF IInv, TypeOK
  <2>3. task_queue_id_counter_' \in [Object -> 0..MaxQueues]
    BY <1>0, <1>1, TaskQueuesAssumption DEF IInv, TypeOK
  <2>4. queue_id_' \in [Threads -> {0} \cup QueueId]
    BY <1>1, <2>1 DEF IInv, TypeOK
  <2>5. pc' \in [Threads -> {"out", "alloc", "return", "create", "wakeable", "in"}]
    BY <1>1 DEF IInv, TypeOK
  <2> QED  BY <1>1, <2>2, <2>3, <2>4, <2>5 DEF IInv, TypeOK
<1>6. InstanceInv'
  BY <1>0, <1>1, <1>2 DEF IInv, InstanceInv
<1>7. Loops' = Loops \cup {t}
  BY <1>2 DEF Loops, HasQueue
<1>8. EntriesInv'
  <2>1. LoopEntry(t)' = entry /\ \A u \in Loops : LoopEntry(u)' = LoopEntry(u)
    BY <1>0, <1>2 DEF LoopEntry, Loops
  <2>2. {LoopEntry(u)' : u \in Loops'} = {LoopEntry(u) : u \in Loops} \cup {entry}
    BY <1>0, <1>7, <2>1
  <2>3. queue_entries_' = {LoopEntry(u)' : u \in Loops'}
    BY <1>1, <1>4, <2>2 DEF IInv, EntriesInv
  <2>4. \A u \in Loops' : queue_id_'[u] < task_queue_id_counter_'[1]
    BY <1>0, <1>2, <1>3, <1>7 DEF Loops
  <2>5. QueueIdsUnique'
    <3>1. \A u, v \in Loops' : queue_id_'[u] = queue_id_'[v] => u = v
      BY <1>0, <1>2, <1>3, <1>7 DEF Loops, IInv, EntriesInv, QueueIdsUnique
    <3> QED  BY <3>1 DEF QueueIdsUnique, Loops, HasQueue
  <2> QED  BY <2>3, <2>4, <2>5 DEF EntriesInv
<1>9. CheckInv'
  <2>1. \A u \in Threads : pc[u] = "in" => pc'[u] = "in" /\ queue_id_'[u] = queue_id_[u]
    BY <1>0, <1>2
  <2> QED  BY <1>1, <2>1 DEF IInv, CheckInv
<1>10. AskedInv' /\ RunsTasksAnswersRight'
  <2>1. \A u \in Threads : HasQueue(u)' => \/ HasQueue(u) /\ queue_id_'[u] = queue_id_[u]
                                           \/ queue_id_'[u] = id
    BY <1>2 DEF HasQueue
  <2>2. id \in Int /\ task_queue_id_counter_'[1] \in Int /\ task_queue_id_counter_'[1] >= id
    BY <1>0, <1>2
  <2> QED  BY <1>1, <2>1, <2>2, AnswersKept
<1> QED  BY <1>5, <1>6, <1>8, <1>9, <1>10 DEF IInv

(* SetWakeable replaces the entry of its loop. *)
LEMMA SetWakeableKeeps ==
  ASSUME IInv, NEW t \in Threads, SetWakeable(t) PROVE IInv'
<1>0. /\ pc[t] = "wakeable" /\ t \in Loops /\ 1 \in Object
      /\ pc' = [pc EXCEPT ![t] = "in"] /\ pc'[t] = "in"
      /\ \A u \in Threads : u # t => pc'[u] = pc[u]
      /\ UNCHANGED <<instance, allocated, task_queue_id_counter_, task_queue_, queue_id_, check,
                     answer>>
  BY ObjectOne DEF SetWakeable, Loops, HasQueue, IInv, TypeOK, checkVars
<1>1. LoopEntry(t)' = [LoopEntry(t) EXCEPT !.wakeable = t]
  BY <1>0 DEF LoopEntry
<1>2. queue_entries_' = (queue_entries_ \ {LoopEntry(t)}) \cup {LoopEntry(t)'}
  <2>1. At(t) = {LoopEntry(t)}
    BY <1>0, LookupAt
  <2>2. queue_entries_' =
          (queue_entries_ \ {LoopEntry(t)}) \cup {[e EXCEPT !.wakeable = t] : e \in {LoopEntry(t)}}
    BY <2>1 DEF SetWakeable
  <2> QED  BY <1>1, <2>2
<1>3. Loops' = Loops
  BY <1>0 DEF Loops, HasQueue
<1>4. \A u \in Loops : u # t => LoopEntry(u)' = LoopEntry(u) /\ LoopEntry(u) # LoopEntry(t)
  <2>1. \A u \in Loops : u # t => queue_id_[u] # queue_id_[t]
    BY <1>0 DEF IInv, EntriesInv, QueueIdsUnique, Loops
  <2> QED  BY <1>0, <2>1 DEF LoopEntry, Loops
<1>5. EntriesInv'
  <2>1. queue_entries_' = {LoopEntry(u)' : u \in Loops'}
    BY <1>0, <1>2, <1>3, <1>4 DEF IInv, EntriesInv
  <2>2. QueueIdsUnique'
    BY <1>0 DEF IInv, EntriesInv, QueueIdsUnique, HasQueue
  <2> QED  BY <1>0, <1>3, <2>1, <2>2 DEF IInv, EntriesInv
<1>6. TypeOK'
  <2>1. LoopEntry(t)' \in Entry
    <3>1. LoopEntry(t) \in Entry
      BY <1>0 DEF IInv, EntriesInv, TypeOK
    <3> QED  BY <1>1, <3>1 DEF Entry
  <2>2. pc' \in [Threads -> {"out", "alloc", "return", "create", "wakeable", "in"}]
    BY <1>0 DEF IInv, TypeOK
  <2>3. queue_entries_' \in SUBSET Entry
    BY <1>2, <2>1 DEF IInv, TypeOK
  <2> QED  BY <1>0, <2>2, <2>3 DEF IInv, TypeOK
<1>7. InstanceInv' /\ CheckInv' /\ AskedInv' /\ RunsTasksAnswersRight'
  <2>1. InstanceInv'
    BY <1>0 DEF IInv, InstanceInv
  <2>2. \A u \in Threads : pc[u] = "in" => pc'[u] = "in"
    BY <1>0
  <2>3. CheckInv'
    BY <1>0, <2>2 DEF IInv, CheckInv
  <2>4. \A u \in Threads : HasQueue(u)' => HasQueue(u) /\ queue_id_'[u] = queue_id_[u]
    BY <1>0 DEF HasQueue
  <2>5. /\ task_queue_id_counter_'[1] = task_queue_id_counter_[1]
        /\ task_queue_id_counter_[1] \in Int
    BY <1>0, TaskQueuesAssumption DEF IInv, TypeOK
  <2> QED  BY <1>0, <2>1, <2>3, <2>4, <2>5, AnswersKept
<1> QED  BY <1>5, <1>6, <1>7 DEF IInv

(* Dispose removes the entry of its loop, though others may be asking about it. *)
LEMMA DisposeKeeps ==
  ASSUME IInv, NEW t \in Threads, Dispose(t) PROVE IInv'
<1>0. /\ pc[t] = "in" /\ t \in Loops /\ check[t] = NoCheck /\ 1 \in Object
      /\ pc' = [pc EXCEPT ![t] = "out"] /\ pc'[t] = "out"
      /\ \A u \in Threads : u # t => pc'[u] = pc[u]
      /\ UNCHANGED <<instance, allocated, task_queue_id_counter_, task_queue_, queue_id_, check,
                     answer>>
  BY ObjectOne DEF Dispose, Loops, HasQueue, IInv, TypeOK, checkVars
<1>1. queue_entries_' = queue_entries_ \ {LoopEntry(t)}
  BY <1>0, LookupAt DEF Dispose
<1>2. Loops' = Loops \ {t}
  BY <1>0 DEF Loops, HasQueue
<1>3. \A u \in Loops : u # t => LoopEntry(u)' = LoopEntry(u) /\ LoopEntry(u) # LoopEntry(t)
  <2>1. \A u \in Loops : u # t => queue_id_[u] # queue_id_[t]
    BY <1>0 DEF IInv, EntriesInv, QueueIdsUnique, Loops
  <2> QED  BY <1>0, <2>1 DEF LoopEntry, Loops
<1>4. EntriesInv'
  <2>1. queue_entries_' = {LoopEntry(u)' : u \in Loops'}
    BY <1>0, <1>1, <1>2, <1>3 DEF IInv, EntriesInv
  <2>2. QueueIdsUnique'
    BY <1>0 DEF IInv, EntriesInv, QueueIdsUnique, HasQueue
  <2> QED  BY <1>0, <1>2, <2>1, <2>2 DEF IInv, EntriesInv
<1>5. TypeOK'
  <2>1. pc' \in [Threads -> {"out", "alloc", "return", "create", "wakeable", "in"}]
    BY <1>0 DEF IInv, TypeOK
  <2> QED  BY <1>0, <1>1, <2>1 DEF IInv, TypeOK
<1>6. InstanceInv'
  BY <1>0 DEF IInv, InstanceInv
<1>7. CheckInv' /\ AskedInv' /\ RunsTasksAnswersRight'
  <2>1. CheckInv'
    BY <1>0 DEF IInv, CheckInv
  <2>2. \A u \in Threads : HasQueue(u)' => HasQueue(u) /\ queue_id_'[u] = queue_id_[u]
    BY <1>0 DEF HasQueue
  <2>3. /\ task_queue_id_counter_'[1] = task_queue_id_counter_[1]
        /\ task_queue_id_counter_[1] \in Int
    BY <1>0, TaskQueuesAssumption DEF IInv, TypeOK
  <2> QED  BY <1>0, <2>1, <2>2, <2>3, AnswersKept
<1> QED  BY <1>4, <1>5, <1>6, <1>7 DEF IInv

-----------------------------------------------------------------------------
(* Asking changes the loops and the entries in nothing. *)
LEMMA AskingKeeps ==
  ASSUME IInv, NEW t \in Threads, UNCHANGED <<queueVars, loopVars>>,
         check' \in [Threads -> Check], answer' \in [Threads -> Answer],
         CheckInv', AskedInv', RunsTasksAnswersRight'
  PROVE  IInv'
<1>1. UNCHANGED <<instance, allocated, task_queue_id_counter_, queue_entries_, pc, task_queue_,
                  queue_id_>>
  BY DEF queueVars, loopVars
<1>2. TypeOK' /\ InstanceInv'
  BY <1>1 DEF IInv, TypeOK, InstanceInv
<1>3. EntriesInv'
  BY <1>1, EntriesKept
<1> QED  BY <1>2, <1>3 DEF IInv

(* The two answers given without a lookup. *)
LEMMA RunsTasksKeeps ==
  ASSUME IInv, NEW t \in Threads, NEW u \in Threads, RunsTasksOnCurrentThread(t, u)
  PROVE  IInv'
<1>1. /\ check' = check /\ UNCHANGED <<queueVars, loopVars>> /\ pc[u] = "in"
      /\ UNCHANGED <<pc, queue_id_>>
  BY DEF RunsTasksOnCurrentThread, MayAsk, loopVars
<1>2. PICK what \in {"true", "false"} :
        /\ answer' = [answer EXCEPT ![t] = [asked |-> u, id |-> queue_id_[u], says |-> what]]
        /\ what = IF u = t THEN "true" ELSE "false"
  <2>1. CASE pc[t] = "out" /\ Says(t, u, queue_id_[u], "false")
    BY <1>1, <2>1 DEF Says
  <2>2. CASE pc[t] = "in" /\ queue_id_[t] = queue_id_[u] /\ Says(t, u, queue_id_[u], "true")
    <3>1. u = t
      BY <1>1, <2>2 DEF IInv, EntriesInv, QueueIdsUnique, HasQueue
    <3> QED  BY <2>2, <3>1 DEF Says
  <2> QED  BY <2>1, <2>2 DEF RunsTasksOnCurrentThread
<1>3. answer' \in [Threads -> Answer] /\ check' \in [Threads -> Check]
  BY <1>1, <1>2 DEF IInv, TypeOK, Answer
<1>4. RunsTasksAnswersRight'
  BY <1>1, <1>2 DEF IInv, TypeOK, RunsTasksAnswersRight, HasQueue
<1>5. CheckInv'
  BY <1>1 DEF IInv, CheckInv
<1>6. AskedInv'
  <2>1. queue_id_[u] < task_queue_id_counter_[1]
    BY <1>1 DEF IInv, EntriesInv, Loops, HasQueue
  <2>2. task_queue_id_counter_' = task_queue_id_counter_
    BY <1>1 DEF queueVars
  <2> QED  BY <1>1, <1>2, <2>1, <2>2 DEF IInv, TypeOK, AskedInv
<1> QED  BY <1>1, <1>3, <1>4, <1>5, <1>6, AskingKeeps

(* The call of RunsOnTheSameThread. *)
LEMMA RunsOnTheSameThreadKeeps ==
  ASSUME IInv, NEW t \in Threads, NEW u \in Threads, RunsOnTheSameThread(t, u)
  PROVE  IInv'
<1> DEFINE asking == [asked |-> u, id |-> queue_id_[u], queues |-> instance, half |-> FALSE]
<1>1. /\ UNCHANGED <<queueVars, loopVars>> /\ UNCHANGED <<pc, queue_id_, answer>>
      /\ pc[t] = "in" /\ pc[u] = "in" /\ queue_id_[t] # queue_id_[u]
      /\ check' = [check EXCEPT ![t] = asking] /\ instance = 1
  BY DEF RunsOnTheSameThread, MayAsk, loopVars, IInv, InstanceInv
<1>2. check' \in [Threads -> Check] /\ answer' \in [Threads -> Answer]
  <2>0. queue_id_[u] \in QueueId
    <3>1. queue_id_[u] < task_queue_id_counter_[1]
      BY <1>1 DEF IInv, EntriesInv, Loops, HasQueue
    <3> QED  BY <3>1, ObjectOne, TaskQueuesAssumption DEF IInv, TypeOK, QueueId
  <2>1. asking \in Check
    BY <1>1, <2>0, ObjectOne DEF Check
  <2> QED  BY <1>1, <2>1 DEF IInv, TypeOK
<1>3. CheckInv'
  BY <1>1 DEF IInv, TypeOK, CheckInv
<1>4. RunsTasksAnswersRight'
  BY <1>1 DEF IInv, RunsTasksAnswersRight, HasQueue
<1>5. AskedInv'
  <2>1. queue_id_[u] < task_queue_id_counter_[1]
    BY <1>1 DEF IInv, EntriesInv, Loops, HasQueue
  <2>2. task_queue_id_counter_' = task_queue_id_counter_
    BY <1>1 DEF queueVars
  <2> QED  BY <1>1, <2>1, <2>2 DEF IInv, TypeOK, AskedInv
<1> QED  BY <1>1, <1>2, <1>3, <1>4, <1>5, AskingKeeps

(* The first Owns finds the caller's own entry, the second one finds that of *)
(* the loop asked about, if it still exists; neither loop owns the other.    *)
LEMMA NeitherOwns ==
  ASSUME IInv, NEW t \in Threads, check[t] # NoCheck
  PROVE  /\ OwnsAB(t) = "false"
         /\ \/ OwnsBA(t) = "false"
            \/ /\ OwnsBA(t) = "throws"
               /\ \A u \in Threads : HasQueue(u) => queue_id_[u] # check[t].id
<1>1. t \in Loops /\ check[t].queues = 1 /\ queue_id_[t] # check[t].id
  BY DEF IInv, CheckInv, Loops, HasQueue
<1>2. OwnsAB(t) = "false"
  <2>1. EntryAt(check[t].queues, queue_id_[t]) = {LoopEntry(t)} /\ LoopEntry(t).owner_of = queue_id_[t]
    BY <1>1, Lookup DEF LoopEntry
  <2> QED  BY <1>1, <2>1 DEF OwnsAB, Owns
<1>3. CASE \E u \in Loops : queue_id_[u] = check[t].id
  <2>1. PICK u \in Loops : queue_id_[u] = check[t].id
    BY <1>3
  <2>2. EntryAt(check[t].queues, check[t].id) = {LoopEntry(u)} /\ LoopEntry(u).owner_of = check[t].id
    BY <1>1, <2>1, Lookup DEF LoopEntry
  <2>3. OwnsBA(t) = "false"
    BY <1>1, <2>2 DEF OwnsBA, Owns
  <2> QED  BY <1>2, <2>3
<1>4. CASE \A u \in Loops : queue_id_[u] # check[t].id
  <2>1. EntryAt(check[t].queues, check[t].id) = {}
    BY <1>4 DEF IInv, EntriesInv, EntryAt, LoopEntry
  <2>2. OwnsBA(t) = "throws"
    BY <2>1 DEF OwnsBA, Owns
  <2> QED  BY <1>2, <1>4, <2>2 DEF Loops
<1> QED  BY <1>3, <1>4

(* The two lookups of RunsOnTheSameThread. *)
LEMMA OwnsKeeps ==
  ASSUME IInv, NEW t \in Threads, FirstOwnsFails(t) \/ OwnsDecides(t)
  PROVE  IInv'
<1>0. /\ check[t] # NoCheck /\ UNCHANGED <<queueVars, loopVars>>
      /\ UNCHANGED <<pc, queue_id_, task_queue_id_counter_>>
  BY DEF FirstOwnsFails, OwnsDecides, loopVars, queueVars
<1>1. /\ OwnsAB(t) = "false" /\ check[t].asked \in Threads \ {t}
      /\ check[t] \in [asked : Threads, id : QueueId, queues : Object, half : BOOLEAN]
      /\ check[t].id < task_queue_id_counter_[1]
  BY <1>0, NeitherOwns DEF IInv, CheckInv, AskedInv, TypeOK, Check
<1>2. CASE FirstOwnsFails(t)
  <2>1. answer' = answer /\ check' = [check EXCEPT ![t] = [check[t] EXCEPT !.half = TRUE]]
    BY <1>2 DEF FirstOwnsFails
  <2>2. [check[t] EXCEPT !.half = TRUE] \in Check
    BY <1>1 DEF Check
  <2>3. check' \in [Threads -> Check] /\ answer' \in [Threads -> Answer]
    BY <2>1, <2>2 DEF IInv, TypeOK
  <2>4. /\ check'[t].queues = check[t].queues /\ check'[t].asked = check[t].asked
        /\ check'[t].id = check[t].id
        /\ \A u \in Threads : u # t => check'[u] = check[u]
    BY <1>1, <2>1 DEF IInv, TypeOK
  <2>5. CheckInv'
    BY <1>0, <2>4 DEF IInv, CheckInv
  <2>6. AskedInv'
    BY <1>0, <2>1, <2>4 DEF IInv, AskedInv
  <2>7. RunsTasksAnswersRight'
    BY <1>0, <2>1 DEF IInv, RunsTasksAnswersRight, HasQueue
  <2> QED  BY <1>0, <2>3, <2>5, <2>6, <2>7, AskingKeeps
<1>3. CASE OwnsDecides(t)
  <2>1. PICK what \in {"false", "throws"} :
          /\ answer' = [answer EXCEPT ![t] = [asked |-> check[t].asked, id |-> check[t].id,
                                              says |-> what]]
          /\ what = "throws" => \A u \in Threads : HasQueue(u) => queue_id_[u] # check[t].id
    BY <1>0, <1>1, <1>3, NeitherOwns DEF OwnsDecides, Says
  <2>2. check' = [check EXCEPT ![t] = NoCheck]
    BY <1>3 DEF OwnsDecides
  <2>3. check' \in [Threads -> Check] /\ answer' \in [Threads -> Answer]
    BY <1>1, <2>1, <2>2 DEF IInv, TypeOK, Check, Answer
  <2>4. CheckInv'
    BY <1>0, <2>2 DEF IInv, TypeOK, CheckInv
  <2>5. AskedInv'
    BY <1>0, <1>1, <2>1, <2>2 DEF IInv, TypeOK, AskedInv
  <2>6. RunsTasksAnswersRight'
    BY <1>0, <1>1, <2>1 DEF IInv, TypeOK, RunsTasksAnswersRight, HasQueue
  <2> QED  BY <1>0, <2>3, <2>4, <2>5, <2>6, AskingKeeps
<1> QED  BY <1>2, <1>3

(* Every step keeps the inductive invariant. *)
LEMMA Inductive == ASSUME ~Concurrent, IInv, [Next]_vars PROVE IInv'
<1>1. CASE UNCHANGED vars
  <2>1. UNCHANGED <<instance, allocated, task_queue_id_counter_, queue_entries_, pc, task_queue_,
                    queue_id_, check, answer>>
    BY <1>1 DEF vars, queueVars, loopVars, checkVars
  <2>2. TypeOK' /\ InstanceInv'
    BY <2>1 DEF IInv, TypeOK, InstanceInv
  <2>3. EntriesInv'
    BY <2>1, EntriesKept
  <2>4. CheckInv' /\ AskedInv' /\ RunsTasksAnswersRight'
    BY <2>1 DEF IInv, CheckInv, AskedInv, RunsTasksAnswersRight, HasQueue
  <2> QED  BY <2>2, <2>3, <2>4 DEF IInv
<1>2. ASSUME NEW t \in Threads,
             \/ EnsureInitializedForCurrentThread(t) \/ GetInstanceAllocates(t)
             \/ GetInstanceReturns(t)
      PROVE  IInv'
  BY <1>2, GetInstanceKeeps
<1>3. ASSUME NEW t \in Threads, CreateTaskQueue(t) PROVE IInv'
  BY <1>3, CreateTaskQueueKeeps
<1>4. ASSUME NEW t \in Threads, SetWakeable(t) PROVE IInv'
  BY <1>4, SetWakeableKeeps
<1>5. ASSUME NEW t \in Threads, Dispose(t) PROVE IInv'
  BY <1>5, DisposeKeeps
<1>6. ASSUME NEW t \in Threads, NEW u \in Threads, RunsTasksOnCurrentThread(t, u) PROVE IInv'
  BY <1>6, RunsTasksKeeps
<1>7. ASSUME NEW t \in Threads, NEW u \in Threads, RunsOnTheSameThread(t, u) PROVE IInv'
  BY <1>7, RunsOnTheSameThreadKeeps
<1>8. ASSUME NEW t \in Threads, FirstOwnsFails(t) \/ OwnsDecides(t) PROVE IInv'
  BY <1>8, OwnsKeeps
<1> QED  BY <1>1, <1>2, <1>3, <1>4, <1>5, <1>6, <1>7, <1>8 DEF Next

(* The inductive invariant holds as long as nobody races to GetInstance. *)
THEOREM Invariance == ~Concurrent => (Spec => []IInv)
<1> SUFFICES ASSUME ~Concurrent PROVE Spec => []IInv
  OBVIOUS
<1>1. Init => IInv
  BY InitHolds
<1>2. IInv /\ [Next]_vars => IInv'
  BY Inductive
<1> QED  BY <1>1, <1>2, PTL DEF Spec

(* The object behind GetInstance, its entries and the loops' copies of ids   *)
(* and pointers keep their types.                                           *)
THEOREM TypeCorrect == ~Concurrent => (Spec => []TypeOK)
<1>1. IInv => TypeOK
  BY DEF IInv
<1> QED  BY <1>1, Invariance, PTL

(* CreateTaskQueue, SetWakeable and Dispose keep queue_entries_ and the      *)
(* loops that are alive in step, for any number of loops.                   *)
THEOREM EntriesMatch == ~Concurrent => (Spec => []EntriesMatchLoops)
<1>1. ASSUME IInv PROVE EntriesMatchLoops
  <2>1. \A t \in Loops : At(t) = {LoopEntry(t)} /\ task_queue_[t] = 1
    BY <1>1, LookupAt DEF IInv, InstanceInv, Loops, HasQueue
  <2>2. \A t \in Threads : HasQueue(t) =>
          At(t) = {[object |-> task_queue_[t], id |-> queue_id_[t], owner_of |-> queue_id_[t],
                    wakeable |-> IF pc[t] = "in" THEN t ELSE NoThread]}
    BY <2>1 DEF Loops, LoopEntry
  <2>3. \A e \in queue_entries_ : \E t \in Threads : HasQueue(t) /\ e \in At(t)
    BY <1>1, <2>1 DEF IInv, EntriesInv, Loops
  <2>4. \A t, u \in Loops : At(t) = At(u) => t = u
    <3>1. \A t \in Loops : LoopEntry(t).id = queue_id_[t]
      BY DEF LoopEntry
    <3> QED  BY <1>1, <2>1, <3>1 DEF IInv, EntriesInv, QueueIdsUnique, Loops
  <2> QED  BY <2>2, <2>3, <2>4 DEF EntriesMatchLoops, Loops
<1> QED  BY <1>1, Invariance, PTL

(* GetCurrentTaskQueueId tells any two loops apart. *)
THEOREM IdsUnique == ~Concurrent => (Spec => []QueueIdsUnique)
<1>1. IInv => QueueIdsUnique
  BY DEF IInv, EntriesInv
<1> QED  BY <1>1, Invariance, PTL

(* RunsTasksOnCurrentThread tells every thread the truth about every runner, *)
(* although its two lookups are separate critical sections; a lookup throws  *)
(* only about a loop that has ended since the call.                          *)
THEOREM AnswersRight == ~Concurrent => (Spec => []RunsTasksAnswersRight)
<1>1. IInv => RunsTasksAnswersRight
  BY DEF IInv
<1> QED  BY <1>1, Invariance, PTL
=============================================================================
