------------------------------- MODULE Pipeline -------------------------------
(***************************************************************************)
(* pipeline/pipeline.h: a bounded queue made of two counting semaphores, a *)
(* mutex-protected deque and an in-flight counter.  A step is one          *)
(* semaphore operation, one critical section of queue_mutex_, or one       *)
(* access to an atomic.  Threads that are between two steps of a call sit  *)
(* in the set named for the place they are at.                             *)
(*                                                                         *)
(* A ProducerContinuation is movable, so any producer may complete or      *)
(* destroy any continuation that is alive; `held' is the set of those.     *)
(***************************************************************************)
EXTENDS Integers, Sequences, FiniteSets

CONSTANTS Producers, Consumers,
          Depth,        \* depth_
          MaxItems      \* bound: continuations handed out in one behaviour

ASSUME PipelineAssumption ==
  /\ Depth \in Nat
  /\ MaxItems \in Nat
  /\ IsFiniteSet(Producers)
  /\ IsFiniteSet(Consumers)

VARIABLES
  empty_, available_,   \* the semaphores' counts
  inflight_,
  queue_,
  lastTraceID,          \* PipelineLastTraceID
  reserving,            \* producers past empty_.TryWait(), not yet counted in flight
  held,                 \* live continuations
  signalling,           \* producers that pushed, before available_.Signal()
  taking,               \* consumers past available_.TryWait(), before the pop
  using,                \* consumers in the callback, with the item and items_count
  releasing,            \* consumers past empty_.Signal(), before --inflight_
  result,               \* what each consumer's last Consume returned
  bailed                \* commits that ProducerCommitIfEmpty refused

producerVars == <<lastTraceID, reserving, held, signalling, bailed>>
consumerVars == <<taking, using, releasing, result>>
vars == <<empty_, available_, inflight_, queue_, producerVars, consumerVars>>

TraceID == 1..MaxItems
Continuation == [id : TraceID, ifEmpty : BOOLEAN]
Item == [id : TraceID, ifEmpty : BOOLEAN, full : BOOLEAN]
Reservation == [thread : Producers, ifEmpty : BOOLEAN]
Use == [thread : Consumers, item : Item, count : Nat]
PipelineConsumeResult == {"NoneAvailable", "Done", "MoreAvailable"}

Threads(S) == {x.thread : x \in S}
ProducerIdle(p) == p \notin Threads(reserving) \cup signalling
ConsumerIdle(c) == c \notin taking \cup Threads(using) \cup Threads(releasing)

-----------------------------------------------------------------------------
(* Produce (ifEmpty FALSE) and ProduceIfEmpty (TRUE).  When TryWait fails,  *)
(* an empty continuation is returned and nothing changes.                   *)
Produce(p, ifEmpty) ==
  /\ lastTraceID + Cardinality(reserving) < MaxItems
  /\ ProducerIdle(p)
  /\ empty_ > 0
  /\ empty_' = empty_ - 1
  /\ reserving' = reserving \cup {[thread |-> p, ifEmpty |-> ifEmpty]}
  /\ UNCHANGED <<available_, inflight_, queue_, lastTraceID, held, signalling, bailed,
                 consumerVars>>

ProduceReturns(r) ==
  /\ inflight_' = inflight_ + 1
  /\ lastTraceID' = lastTraceID + 1
  /\ reserving' = reserving \ {r}
  /\ held' = held \cup {[id |-> lastTraceID + 1, ifEmpty |-> r.ifEmpty]}
  /\ UNCHANGED <<empty_, available_, queue_, signalling, bailed, consumerVars>>

-----------------------------------------------------------------------------
(* A continuation is used once: by Complete with a resource, or by its      *)
(* destructor with a null one (full FALSE).                                 *)

MustBailNever(k) == FALSE

MustBail(k) == k.ifEmpty /\ queue_ # <<>>

ProducerCommit(p, k, full) ==
  /\ ProducerIdle(p)
  /\ ~MustBail(k)
  /\ queue_' = Append(queue_, [id |-> k.id, ifEmpty |-> k.ifEmpty, full |-> full])
  /\ held' = held \ {k}
  /\ signalling' = signalling \cup {p}
  /\ UNCHANGED <<empty_, available_, inflight_, lastTraceID, reserving, bailed,
                 consumerVars>>

ProducerCommitBailsSilently(p, k) ==
  /\ ProducerIdle(p)
  /\ MustBail(k)
  /\ held' = held \ {k}
  /\ bailed' = bailed + 1
  /\ UNCHANGED <<empty_, available_, inflight_, queue_, lastTraceID, reserving, signalling,
                 consumerVars>>

(* ProducerCommitIfEmpty on a non-empty queue gives the slot back, and does *)
(* not take the item out of inflight_.                                      *)
ProducerCommitBails(p, k) ==
  /\ ProducerIdle(p)
  /\ MustBail(k)
  /\ empty_' = empty_ + 1
  /\ held' = held \ {k}
  /\ bailed' = bailed + 1
  /\ UNCHANGED <<available_, inflight_, queue_, lastTraceID, reserving, signalling,
                 consumerVars>>

CommitSignalsTwice(p) ==
  /\ available_' = available_ + 2
  /\ signalling' = signalling \ {p}
  /\ UNCHANGED <<empty_, inflight_, queue_, lastTraceID, reserving, held, bailed,
                 consumerVars>>

CommitSignalDropped(p) ==
  /\ signalling' = signalling \ {p}
  /\ UNCHANGED <<empty_, available_, inflight_, queue_, lastTraceID, reserving, held, bailed,
                 consumerVars>>

CommitSignals(p) ==
  /\ available_' = available_ + 1
  /\ signalling' = signalling \ {p}
  /\ UNCHANGED <<empty_, inflight_, queue_, lastTraceID, reserving, held, bailed,
                 consumerVars>>

-----------------------------------------------------------------------------
(* Consume. *)

ConsumeNone(c) ==
  /\ ConsumerIdle(c)
  /\ available_ = 0
  /\ result' = [result EXCEPT ![c] = "NoneAvailable"]
  /\ UNCHANGED <<empty_, available_, inflight_, queue_, producerVars, taking, using, releasing>>

Consume(c) ==
  /\ ConsumerIdle(c)
  /\ available_ > 0
  /\ available_' = available_ - 1
  /\ taking' = taking \cup {c}
  /\ UNCHANGED <<empty_, inflight_, queue_, producerVars, using, releasing, result>>

ConsumePopsBack(c) ==
  /\ queue_ # <<>>
  /\ queue_' = SubSeq(queue_, 1, Len(queue_) - 1)
  /\ taking' = taking \ {c}
  /\ using' = using \cup {[thread |-> c, item |-> queue_[Len(queue_)], count |-> Len(queue_) - 1]}
  /\ UNCHANGED <<empty_, available_, inflight_, producerVars, releasing, result>>

ConsumeCountsBeforePop(c) ==
  /\ queue_ # <<>>
  /\ queue_' = Tail(queue_)
  /\ taking' = taking \ {c}
  /\ using' = using \cup {[thread |-> c, item |-> Head(queue_), count |-> Len(queue_)]}
  /\ UNCHANGED <<empty_, available_, inflight_, producerVars, releasing, result>>

(* The critical section of Consume: front(), pop_front() and size().  The   *)
(* code does not test the queue; that it is not empty is PopNeverEmpty.     *)
ConsumePops(c) ==
  /\ queue_ # <<>>
  /\ queue_' = Tail(queue_)
  /\ taking' = taking \ {c}
  /\ using' = using \cup {[thread |-> c, item |-> Head(queue_), count |-> Len(queue_) - 1]}
  /\ UNCHANGED <<empty_, available_, inflight_, producerVars, releasing, result>>

(* consumer(resource) has returned. *)
ConsumeSignals(u) ==
  /\ empty_' = empty_ + 1
  /\ using' = using \ {u}
  /\ releasing' = releasing \cup {u}
  /\ UNCHANGED <<available_, inflight_, queue_, producerVars, taking, result>>

ConsumeReturnsStillInFlight(u) ==
  /\ releasing' = releasing \ {u}
  /\ result' = [result EXCEPT ![u.thread] = IF u.count > 0 THEN "MoreAvailable" ELSE "Done"]
  /\ UNCHANGED <<empty_, available_, inflight_, queue_, producerVars, taking, using>>

ConsumeReturns(u) ==
  /\ inflight_' = inflight_ - 1
  /\ releasing' = releasing \ {u}
  /\ result' = [result EXCEPT ![u.thread] = IF u.count > 0 THEN "MoreAvailable" ELSE "Done"]
  /\ UNCHANGED <<empty_, available_, queue_, producerVars, taking, using>>

-----------------------------------------------------------------------------
Init ==
  /\ empty_ = Depth
  /\ available_ = 0
  /\ inflight_ = 0
  /\ queue_ = <<>>
  /\ lastTraceID = 0
  /\ reserving = {}
  /\ held = {}
  /\ signalling = {}
  /\ taking = {}
  /\ using = {}
  /\ releasing = {}
  /\ result = [c \in Consumers |-> "NoneAvailable"]
  /\ bailed = 0

ProducerStep ==
  \/ \E p \in Producers, ifEmpty \in BOOLEAN : Produce(p, ifEmpty)
  \/ \E r \in reserving : ProduceReturns(r)
  \/ \E p \in Producers, k \in held, full \in BOOLEAN : ProducerCommit(p, k, full)
  \/ \E p \in Producers, k \in held : ProducerCommitBails(p, k)
  \/ \E p \in signalling : CommitSignals(p)

ConsumerStep ==
  \/ \E c \in Consumers : ConsumeNone(c)
  \/ \E c \in Consumers : Consume(c)
  \/ \E c \in taking : ConsumePops(c)
  \/ \E u \in using : ConsumeSignals(u)
  \/ \E u \in releasing : ConsumeReturns(u)

Next == ProducerStep \/ ConsumerStep

Spec == Init /\ [][Next]_vars

(* A producer inside a call finishes it; each consumer keeps calling        *)
(* Consume and its callback returns.                                        *)
Fairness ==
  /\ \A p \in Producers : WF_vars(p \in signalling /\ CommitSignals(p))
  /\ WF_vars(\E r \in reserving : ProduceReturns(r))
  /\ \A c \in Consumers :
       /\ WF_vars(Consume(c))
       /\ WF_vars(c \in taking /\ ConsumePops(c))
       /\ WF_vars(\E u \in using : u.thread = c /\ ConsumeSignals(u))
       /\ WF_vars(\E u \in releasing : u.thread = c /\ ConsumeReturns(u))

FairSpec == Spec /\ Fairness

-----------------------------------------------------------------------------
TypeOK ==
  /\ empty_ \in Nat
  /\ available_ \in Nat
  /\ inflight_ \in Int
  /\ queue_ \in Seq(Item)
  /\ lastTraceID \in 0..MaxItems
  /\ reserving \in SUBSET Reservation
  /\ held \in SUBSET Continuation
  /\ signalling \in SUBSET Producers
  /\ taking \in SUBSET Consumers
  /\ using \in SUBSET Use
  /\ releasing \in SUBSET Use
  /\ result \in [Consumers -> PipelineConsumeResult]
  /\ bailed \in Nat

(* Every consumer that got past available_.TryWait() finds an item of its   *)
(* own: queue_.front() is never called on an empty deque.                   *)
PopNeverEmpty == Cardinality(taking) =< Len(queue_)

(* Each of the Depth slots is free, reserved, held by a continuation,       *)
(* queued or being consumed: completing, destroying, refusing and consuming *)
(* neither lose a slot nor make one.                                        *)
SlotsAccounted ==
  empty_ + Cardinality(reserving) + Cardinality(held) + Len(queue_) + Cardinality(using)
    = Depth

(* inflight_ is the number of continuations and items alive plus the number *)
(* of commits ProducerCommitIfEmpty refused: it drifts with every refusal   *)
(* and with nothing else.                                                   *)
InflightAccounted ==
  inflight_ = Cardinality(held) + Len(queue_) + Cardinality(using)
                + Cardinality(releasing) + bailed

(* A continuation of ProduceIfEmpty "will only push the task if the queue   *)
(* is empty": such an item is never queued behind another one.              *)
IfEmptyOnlyInFront == \A i \in 2..Len(queue_) : ~queue_[i].ifEmpty

(* With a single consumer, an answer of MoreAvailable stays true until that *)
(* consumer calls Consume again, however long its callback took.            *)
MoreAvailableMeansQueued ==
  \A c \in Consumers :
     /\ Consumers = {c}
     /\ ConsumerIdle(c)
     /\ result[c] = "MoreAvailable"
     => queue_ # <<>>

(* The items a consumer can already take: those whose commit has been       *)
(* signalled, or that a consumer is about to pop.                           *)
Announced == available_ + Cardinality(taking)

Channel == IF Announced =< Len(queue_) THEN SubSeq(queue_, 1, Announced) ELSE queue_

Chan == INSTANCE BoundedChannel WITH channel <- Channel

(* The pipeline is a first-in first-out channel of at most Depth items,     *)
(* although the push and the signal that announces it are separate steps.   *)
ImplementsChannel == Chan!Spec

(* A committed item is eventually taken by a consumer that keeps calling    *)
(* Consume.                                                                 *)
EveryItemConsumed ==
  \A id \in TraceID :
     (\E i \in 1..Len(queue_) : queue_[i].id = id) ~>
        ~(\E i \in 1..Len(queue_) : queue_[i].id = id)
=============================================================================
