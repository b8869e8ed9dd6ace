---------------------------- MODULE PipelineProofs ----------------------------
(***************************************************************************)
(* Proofs of the accounting of Pipeline, for every depth and any finite    *)
(* sets of producers and consumers, and of the refinement of               *)
(* BoundedChannel.                                                         *)
(***************************************************************************)
EXTENDS Pipeline, FiniteSetTheorems, TLAPS

-----------------------------------------------------------------------------
(* Adding a new element to, or removing an element from, the set of threads *)
(* at some place of a call changes its size by one.                         *)
LEMMA AddOne ==
  ASSUME NEW S, IsFiniteSet(S), NEW x, x \notin S
  PROVE  /\ IsFiniteSet(S \cup {x}) /\ Cardinality(S) \in Nat
         /\ Cardinality(S \cup {x}) = Cardinality(S) + 1
BY FS_AddElement, FS_CardinalityType

LEMMA RemoveOne ==
  ASSUME NEW S, IsFiniteSet(S), NEW x \in S
  PROVE  /\ IsFiniteSet(S \ {x}) /\ Cardinality(S) \in Nat /\ Cardinality(S) > 0
         /\ Cardinality(S \ {x}) = Cardinality(S) - 1
<1>1. IsFiniteSet(S \ {x}) /\ Cardinality(S \ {x}) = Cardinality(S) - 1
  BY FS_RemoveElement
<1>2. Cardinality(S) \in Nat /\ Cardinality(S \ {x}) \in Nat
  BY <1>1, FS_CardinalityType
<1> QED  BY <1>1, <1>2

-----------------------------------------------------------------------------
(* The sets of threads are finite; a consumer is at one place of Consume at *)
(* a time; trace ids of live continuations have been given out; the bound   *)
(* on continuations covers the reservations.                                *)
PlacesInv ==
  /\ IsFiniteSet(reserving) /\ IsFiniteSet(held) /\ IsFiniteSet(signalling)
  /\ IsFiniteSet(taking) /\ IsFiniteSet(using) /\ IsFiniteSet(releasing)
  /\ \A c \in taking : \A u \in using \cup releasing : u.thread # c
  /\ \A u \in using : \A v \in releasing : u.thread # v.thread
  /\ \A u, v \in using : u.thread = v.thread => u = v
  /\ \A k \in held : k.id =< lastTraceID
  /\ lastTraceID + Cardinality(reserving) =< MaxItems

(* Every queued item is announced by available_, about to be popped by a    *)
(* consumer, or about to be announced by its producer.                      *)
AvailableAccounted ==
  available_ + Cardinality(taking) + Cardinality(signalling) = Len(queue_)

IInv == TypeOK /\ PlacesInv /\ AvailableAccounted /\ SlotsAccounted /\ InflightAccounted

Counts ==
  /\ Cardinality(reserving) \in Nat /\ Cardinality(held) \in Nat
  /\ Cardinality(signalling) \in Nat /\ Cardinality(taking) \in Nat
  /\ Cardinality(using) \in Nat /\ Cardinality(releasing) \in Nat
  /\ Len(queue_) \in Nat /\ empty_ \in Nat /\ available_ \in Nat
  /\ inflight_ \in Int /\ bailed \in Nat /\ lastTraceID \in Nat

(* The terms of the accounts are numbers, and the accounts balance. *)
LEMMA Accounts ==
  ASSUME IInv
  PROVE  Counts /\ AvailableAccounted /\ SlotsAccounted /\ InflightAccounted
BY FS_CardinalityType DEF Counts, IInv, TypeOK, PlacesInv

(* The initial state: all slots are free. *)
LEMMA InitIInv == Init => IInv
<1> SUFFICES ASSUME Init PROVE IInv
  OBVIOUS
<1>1. IsFiniteSet({}) /\ Cardinality({}) = 0
  BY FS_EmptySet
<1>2. TypeOK
  BY PipelineAssumption DEF Init, TypeOK, PipelineConsumeResult
<1>3. PlacesInv
  BY <1>1, PipelineAssumption DEF Init, PlacesInv
<1>4. AvailableAccounted /\ SlotsAccounted /\ InflightAccounted
  BY <1>1, PipelineAssumption DEF Init, AvailableAccounted, SlotsAccounted, InflightAccounted
<1> QED  BY <1>2, <1>3, <1>4 DEF IInv

(* Produce and ProduceIfEmpty turn a free slot into a reserved one, then    *)
(* into a continuation.                                                     *)
LEMMA ProduceStep ==
  ASSUME IInv, NEW p \in Producers, NEW ifEmpty \in BOOLEAN, Produce(p, ifEmpty)
  PROVE  IInv'
<1> DEFINE r == [thread |-> p, ifEmpty |-> ifEmpty]
<1>1. r \notin reserving
  BY DEF Produce, ProducerIdle, Threads
<1>2. /\ IsFiniteSet(reserving')
      /\ Cardinality(reserving') = Cardinality(reserving) + 1
  BY <1>1, AddOne DEF Produce, IInv, PlacesInv
<1>3. TypeOK'
  BY DEF Produce, consumerVars, IInv, TypeOK, Reservation
<1>4. PlacesInv'
  BY SMTT(30), <1>2, Accounts, PipelineAssumption DEF Counts, Produce, consumerVars, IInv, PlacesInv
<1>5. AvailableAccounted' /\ SlotsAccounted' /\ InflightAccounted'
  <2>1. /\ empty_ \in Nat /\ empty_ > 0 /\ empty_' = empty_ - 1
        /\ UNCHANGED <<available_, inflight_, queue_, held, signalling, taking, using, releasing, bailed>>
    BY Accounts DEF Produce, consumerVars, Counts
  <2>2. Counts /\ AvailableAccounted /\ SlotsAccounted /\ InflightAccounted
    BY Accounts
  <2>3. AvailableAccounted'
    BY <2>1, <2>2 DEF Counts, AvailableAccounted
  <2>4. SlotsAccounted'
    BY <1>2, <2>1, <2>2 DEF Counts, SlotsAccounted
  <2>5. InflightAccounted'
    BY <2>1, <2>2 DEF Counts, InflightAccounted
  <2> QED  BY <2>3, <2>4, <2>5
<1> QED  BY <1>3, <1>4, <1>5 DEF IInv

LEMMA ProduceReturnsStep ==
  ASSUME IInv, NEW r \in reserving, ProduceReturns(r)
  PROVE  IInv'
<1> DEFINE k == [id |-> lastTraceID + 1, ifEmpty |-> r.ifEmpty]
<1>1. k \notin held
  BY Accounts DEF Counts, IInv, PlacesInv
<1>2. /\ IsFiniteSet(held') /\ Cardinality(held') = Cardinality(held) + 1
  BY <1>1, AddOne DEF ProduceReturns, IInv, PlacesInv
<1>3. /\ IsFiniteSet(reserving') /\ Cardinality(reserving) > 0
      /\ Cardinality(reserving') = Cardinality(reserving) - 1
  BY RemoveOne DEF ProduceReturns, IInv, PlacesInv
<1>4. lastTraceID + 1 \in TraceID
  BY SMTT(30), <1>3, Accounts, PipelineAssumption DEF Counts, IInv, PlacesInv, TraceID
<1>5. TypeOK'
  BY <1>4, PipelineAssumption
  DEF ProduceReturns, consumerVars, IInv, TypeOK, Reservation, Continuation, TraceID
<1>6. PlacesInv'
  BY <1>2, <1>3, Accounts, PipelineAssumption
  DEF Counts, ProduceReturns, consumerVars, IInv, PlacesInv, TypeOK, Continuation, TraceID
<1>7. AvailableAccounted' /\ SlotsAccounted' /\ InflightAccounted'
  <2>1. /\ inflight_' = inflight_ + 1
        /\ UNCHANGED <<empty_, available_, queue_, signalling, taking, using, releasing, bailed>>
    BY DEF ProduceReturns, consumerVars
  <2>2. Counts /\ AvailableAccounted /\ SlotsAccounted /\ InflightAccounted
    BY Accounts
  <2>3. AvailableAccounted'
    BY <2>1, <2>2 DEF Counts, AvailableAccounted
  <2>4. SlotsAccounted'
    <3>1. PICK e \in Nat, n \in Nat, h \in Nat, q \in Nat, u \in Nat :
            /\ e = empty_ /\ n = Cardinality(reserving) /\ h = Cardinality(held)
            /\ q = Len(queue_) /\ u = Cardinality(using)
      BY ONLY <2>2 DEF Counts
    <3>2. /\ empty_' = e /\ Cardinality(reserving') = n - 1 /\ Cardinality(held') = h + 1
          /\ Len(queue_') = q /\ Cardinality(using') = u
      BY ONLY <1>2, <1>3, <2>1, <3>1
    <3>3. e + (n - 1) + (h + 1) + q + u = e + n + h + q + u
      OBVIOUS
    <3>4. e + n + h + q + u = Depth
      BY ONLY <2>2, <3>1 DEF SlotsAccounted
    <3> QED  BY ONLY <3>2, <3>3, <3>4 DEF SlotsAccounted
  <2>5. InflightAccounted'
    BY SMTT(30), <1>2, <2>1, <2>2 DEF Counts, InflightAccounted
  <2> QED  BY <2>3, <2>4, <2>5
<1> QED  BY <1>5, <1>6, <1>7 DEF IInv

(* A commit moves a slot from a continuation to the queue, or back to the   *)
(* free ones when it is refused.                                            *)
LEMMA CommitStep ==
  ASSUME IInv, NEW p \in Producers, NEW k \in held, NEW full \in BOOLEAN,
         ProducerCommit(p, k, full)
  PROVE  IInv'
<1> DEFINE x == [id |-> k.id, ifEmpty |-> k.ifEmpty, full |-> full]
<1>1. /\ IsFiniteSet(held') /\ Cardinality(held) > 0
      /\ Cardinality(held') = Cardinality(held) - 1
  BY RemoveOne DEF ProducerCommit, IInv, PlacesInv
<1>2. p \notin signalling
  BY DEF ProducerCommit, ProducerIdle
<1>3. /\ IsFiniteSet(signalling') /\ Cardinality(signalling') = Cardinality(signalling) + 1
  BY <1>2, AddOne DEF ProducerCommit, IInv, PlacesInv
<1>4. x \in Item
  BY DEF IInv, TypeOK, Continuation, Item
<1>5. queue_' \in Seq(Item) /\ Len(queue_') = Len(queue_) + 1
  BY <1>4 DEF ProducerCommit, IInv, TypeOK
<1>6. TypeOK'
  BY <1>5 DEF ProducerCommit, consumerVars, IInv, TypeOK
<1>7. PlacesInv'
  BY <1>1, <1>3 DEF ProducerCommit, consumerVars, IInv, PlacesInv
<1>8. AvailableAccounted' /\ SlotsAccounted' /\ InflightAccounted'
  <2>1. UNCHANGED <<empty_, available_, inflight_, reserving, taking, using, releasing, bailed>>
    BY DEF ProducerCommit, consumerVars
  <2>2. Counts /\ AvailableAccounted /\ SlotsAccounted /\ InflightAccounted
    BY Accounts
  <2>3. AvailableAccounted'
    BY SMTT(30), <1>3, <1>5, <2>1, <2>2 DEF Counts, AvailableAccounted
  <2>4. SlotsAccounted'
    <3>1. PICK e \in Nat, n \in Nat, h \in Nat, q \in Nat, u \in Nat :
            /\ e = empty_ /\ n = Cardinality(reserving) /\ h = Cardinality(held)
            /\ q = Len(queue_) /\ u = Cardinality(using)
      BY ONLY <2>2 DEF Counts
    <3>2. /\ empty_' = e /\ Cardinality(reserving') = n /\ Cardinality(held') = h - 1
          /\ Len(queue_') = q + 1 /\ Cardinality(using') = u
      BY ONLY <1>1, <1>5, <2>1, <3>1
    <3>3. e + n + (h - 1) + (q + 1) + u = e + n + h + q + u
      OBVIOUS
    <3>4. e + n + h + q + u = Depth
      BY ONLY <2>2, <3>1 DEF SlotsAccounted
    <3> QED  BY ONLY <3>2, <3>3, <3>4 DEF SlotsAccounted
  <2>5. InflightAccounted'
    BY <1>1, <1>5, <2>1, <2>2 DEF Counts, InflightAccounted
  <2> QED  BY <2>3, <2>4, <2>5
<1> QED  BY <1>6, <1>7, <1>8 DEF IInv

LEMMA BailStep ==
  ASSUME IInv, NEW p \in Producers, NEW k \in held, ProducerCommitBails(p, k)
  PROVE  IInv'
<1>1. /\ IsFiniteSet(held') /\ Cardinality(held) > 0
      /\ Cardinality(held') = Cardinality(held) - 1
  BY RemoveOne DEF ProducerCommitBails, IInv, PlacesInv
<1>2. TypeOK'
  BY DEF ProducerCommitBails, consumerVars, IInv, TypeOK
<1>3. PlacesInv'
  BY <1>1 DEF ProducerCommitBails, consumerVars, IInv, PlacesInv
<1>4. AvailableAccounted' /\ SlotsAccounted' /\ InflightAccounted'
  <2>1. /\ empty_' = empty_ + 1 /\ bailed' = bailed + 1
        /\ UNCHANGED <<available_, inflight_, queue_, reserving, signalling, taking, using, releasing>>
    BY DEF ProducerCommitBails, consumerVars
  <2>2. Counts /\ AvailableAccounted /\ SlotsAccounted /\ InflightAccounted
    BY Accounts
  <2>3. AvailableAccounted'
    BY <2>1, <2>2 DEF Counts, AvailableAccounted
  <2>4. SlotsAccounted'
    BY <1>1, <2>1, <2>2 DEF Counts, SlotsAccounted
  <2>5. InflightAccounted'
    BY SMTT(60), <1>1, <2>1, <2>2 DEF Counts, InflightAccounted
  <2> QED  BY <2>3, <2>4, <2>5
<1> QED  BY <1>2, <1>3, <1>4 DEF IInv

LEMMA SignalStep ==
  ASSUME IInv, NEW p \in signalling, CommitSignals(p)
  PROVE  IInv'
<1>1. /\ IsFiniteSet(signalling') /\ Cardinality(signalling) > 0
      /\ Cardinality(signalling') = Cardinality(signalling) - 1
  BY RemoveOne DEF CommitSignals, IInv, PlacesInv
<1>2. TypeOK'
  BY DEF CommitSignals, consumerVars, IInv, TypeOK
<1>3. PlacesInv'
  BY <1>1 DEF CommitSignals, consumerVars, IInv, PlacesInv
<1>4. AvailableAccounted' /\ SlotsAccounted' /\ InflightAccounted'
  <2>1. /\ available_' = available_ + 1
        /\ UNCHANGED <<empty_, inflight_, queue_, reserving, held, taking, using, releasing, bailed>>
    BY DEF CommitSignals, consumerVars
  <2>2. Counts /\ AvailableAccounted /\ SlotsAccounted /\ InflightAccounted
    BY Accounts
  <2>3. AvailableAccounted'
    BY <1>1, <2>1, <2>2 DEF Counts, AvailableAccounted
  <2>4. SlotsAccounted'
    BY <2>1, <2>2 DEF Counts, SlotsAccounted
  <2>5. InflightAccounted'
    BY <2>1, <2>2 DEF Counts, InflightAccounted
  <2> QED  BY <2>3, <2>4, <2>5
<1> QED  BY <1>2, <1>3, <1>4 DEF IInv

(* Consume turns an announced item into one being popped, then into one     *)
(* being consumed, and gives its slot back.                                 *)
LEMMA ConsumeStep ==
  ASSUME IInv, NEW c \in Consumers, Consume(c)
  PROVE  IInv'
<1>1. c \notin taking /\ \A u \in using \cup releasing : u.thread # c
  BY DEF Consume, ConsumerIdle, Threads
<1>2. /\ IsFiniteSet(taking') /\ Cardinality(taking') = Cardinality(taking) + 1
  BY <1>1, AddOne DEF Consume, IInv, PlacesInv
<1>3. TypeOK'
  BY DEF Consume, producerVars, IInv, TypeOK
<1>4. PlacesInv'
  BY <1>1, <1>2 DEF Consume, producerVars, IInv, PlacesInv
<1>5. AvailableAccounted' /\ SlotsAccounted' /\ InflightAccounted'
  <2>1. /\ available_' = available_ - 1
        /\ UNCHANGED <<empty_, inflight_, queue_, reserving, held, signalling, using, releasing, bailed>>
    BY DEF Consume, producerVars
  <2>2. Counts /\ AvailableAccounted /\ SlotsAccounted /\ InflightAccounted
    BY Accounts
  <2>3. AvailableAccounted'
    BY <1>2, <2>1, <2>2 DEF Counts, AvailableAccounted
  <2>4. SlotsAccounted'
    BY <2>1, <2>2 DEF Counts, SlotsAccounted
  <2>5. InflightAccounted'
    BY <2>1, <2>2 DEF Counts, InflightAccounted
  <2> QED  BY <2>3, <2>4, <2>5
<1> QED  BY <1>3, <1>4, <1>5 DEF IInv

LEMMA PopStep ==
  ASSUME IInv, NEW c \in taking, ConsumePops(c)
  PROVE  IInv'
<1> DEFINE u == [thread |-> c, item |-> Head(queue_), count |-> Len(queue_) - 1]
<1>1. /\ IsFiniteSet(taking') /\ Cardinality(taking) > 0
      /\ Cardinality(taking') = Cardinality(taking) - 1
  BY RemoveOne DEF ConsumePops, IInv, PlacesInv
<1>2. u \notin using
  BY DEF IInv, PlacesInv
<1>3. /\ IsFiniteSet(using') /\ Cardinality(using') = Cardinality(using) + 1
  BY <1>2, AddOne DEF ConsumePops, IInv, PlacesInv
<1>4. /\ queue_' \in Seq(Item) /\ Head(queue_) \in Item
      /\ Len(queue_) - 1 \in Nat /\ Len(queue_') = Len(queue_) - 1
  BY DEF ConsumePops, IInv, TypeOK
<1>5. TypeOK'
  <2>1. u \in Use
    BY <1>4 DEF IInv, TypeOK, Use
  <2> QED  BY <1>4, <2>1 DEF ConsumePops, producerVars, IInv, TypeOK
<1>6. PlacesInv'
  <2>1. \A d \in taking' : \A v \in using' \cup releasing' : v.thread # d
    BY DEF ConsumePops, IInv, PlacesInv
  <2>2. \A v \in using' : \A w \in releasing' : v.thread # w.thread
    BY DEF ConsumePops, IInv, PlacesInv
  <2>3. \A v, w \in using' : v.thread = w.thread => v = w
    BY DEF ConsumePops, IInv, PlacesInv
  <2> QED  BY <1>1, <1>3, <2>1, <2>2, <2>3 DEF ConsumePops, producerVars, IInv, PlacesInv
<1>7. AvailableAccounted' /\ SlotsAccounted' /\ InflightAccounted'
  <2>1. UNCHANGED <<empty_, available_, inflight_, reserving, held, signalling, releasing, bailed>>
    BY DEF ConsumePops, producerVars
  <2>2. Counts /\ AvailableAccounted /\ SlotsAccounted /\ InflightAccounted
    BY Accounts
  <2>3. AvailableAccounted'
    BY SMTT(60), <1>1, <1>4, <2>1, <2>2 DEF Counts, AvailableAccounted
  <2>4. SlotsAccounted'
    BY SMTT(60), <1>3, <1>4, <2>1, <2>2 DEF Counts, SlotsAccounted
  <2>5. InflightAccounted'
    BY SMTT(60), <1>3, <1>4, <2>1, <2>2 DEF Counts, InflightAccounted
  <2> QED  BY <2>3, <2>4, <2>5
<1> QED  BY <1>5, <1>6, <1>7 DEF IInv

LEMMA ReleaseStep ==
  ASSUME IInv, NEW u \in using, ConsumeSignals(u)
  PROVE  IInv'
<1>1. /\ IsFiniteSet(using') /\ Cardinality(using) > 0
      /\ Cardinality(using') = Cardinality(using) - 1
  BY RemoveOne DEF ConsumeSignals, IInv, PlacesInv
<1>2. u \notin releasing
  BY DEF IInv, PlacesInv
<1>3. /\ IsFiniteSet(releasing') /\ Cardinality(releasing') = Cardinality(releasing) + 1
  BY <1>2, AddOne DEF ConsumeSignals, IInv, PlacesInv
<1>4. TypeOK'
  BY DEF ConsumeSignals, producerVars, IInv, TypeOK
<1>5. PlacesInv'
  <2>1. \A d \in taking' : \A v \in using' \cup releasing' : v.thread # d
    BY DEF ConsumeSignals, IInv, PlacesInv
  <2>2. \A v \in using' : \A w \in releasing' : v.thread # w.thread
    BY DEF ConsumeSignals, IInv, PlacesInv
  <2> QED  BY <1>1, <1>3, <2>1, <2>2 DEF ConsumeSignals, producerVars, IInv, PlacesInv
<1>6. AvailableAccounted' /\ SlotsAccounted' /\ InflightAccounted'
  <2>1. /\ empty_' = empty_ + 1
        /\ UNCHANGED <<available_, inflight_, queue_, reserving, held, signalling, taking, bailed>>
    BY DEF ConsumeSignals, producerVars
  <2>2. Counts /\ AvailableAccounted /\ SlotsAccounted /\ InflightAccounted
    BY Accounts
  <2>3. AvailableAccounted'
    BY SMTT(60), <2>1, <2>2 DEF Counts, AvailableAccounted
  <2>4. SlotsAccounted'
    BY SMTT(60), <1>1, <2>1, <2>2 DEF Counts, SlotsAccounted
  <2>5. InflightAccounted'
    BY SMTT(60), <1>1, <1>3, <2>1, <2>2 DEF Counts, InflightAccounted
  <2> QED  BY <2>3, <2>4, <2>5
<1> QED  BY <1>4, <1>5, <1>6 DEF IInv

LEMMA ReturnStep ==
  ASSUME IInv, NEW u \in releasing, ConsumeReturns(u)
  PROVE  IInv'
<1>1. /\ IsFiniteSet(releasing') /\ Cardinality(releasing) > 0
      /\ Cardinality(releasing') = Cardinality(releasing) - 1
  BY RemoveOne DEF ConsumeReturns, IInv, PlacesInv
<1>2. TypeOK'
  <2>1. result' \in [Consumers -> PipelineConsumeResult]
    BY DEF ConsumeReturns, IInv, TypeOK, PipelineConsumeResult
  <2> QED  BY <2>1 DEF ConsumeReturns, producerVars, IInv, TypeOK
<1>3. PlacesInv'
  BY <1>1 DEF ConsumeReturns, producerVars, IInv, PlacesInv
<1>4. AvailableAccounted' /\ SlotsAccounted' /\ InflightAccounted'
  <2>1. /\ inflight_' = inflight_ - 1
        /\ UNCHANGED <<empty_, available_, queue_, reserving, held, signalling, taking, using, bailed>>
    BY DEF ConsumeReturns, producerVars
  <2>2. Counts /\ AvailableAccounted /\ SlotsAccounted /\ InflightAccounted
    BY Accounts
  <2>3. AvailableAccounted'
    BY <2>1, <2>2 DEF Counts, AvailableAccounted
  <2>4. SlotsAccounted'
    BY <2>1, <2>2 DEF Counts, SlotsAccounted
  <2>5. InflightAccounted'
    BY SMTT(30), <1>1, <2>1, <2>2 DEF Counts, InflightAccounted
  <2> QED  BY <2>3, <2>4, <2>5
<1> QED  BY <1>2, <1>3, <1>4 DEF IInv

LEMMA NextIInv == IInv /\ [Next]_vars => IInv'
<1> SUFFICES ASSUME IInv, [Next]_vars PROVE IInv'
  OBVIOUS
<1>1. ASSUME NEW c \in Consumers, ConsumeNone(c) PROVE IInv'
  BY <1>1 DEF ConsumeNone, producerVars, IInv, TypeOK, PlacesInv, AvailableAccounted,
              SlotsAccounted, InflightAccounted, PipelineConsumeResult
<1>2. CASE UNCHANGED vars
  BY <1>2 DEF vars, producerVars, consumerVars, IInv, TypeOK, PlacesInv, AvailableAccounted,
              SlotsAccounted, InflightAccounted
<1> QED
  BY <1>1, <1>2, ProduceStep, ProduceReturnsStep, CommitStep, BailStep, SignalStep,
     ConsumeStep, PopStep, ReleaseStep, ReturnStep
  DEF Next, ProducerStep, ConsumerStep

LEMMA InductiveInvariant == Spec => []IInv
BY InitIInv, NextIInv, PTL DEF Spec

-----------------------------------------------------------------------------
(* The state stays well formed; in particular empty_ and available_ are     *)
(* never negative.                                                          *)
THEOREM TypeCorrect == Spec => []TypeOK
<1>1. IInv => TypeOK
  BY DEF IInv
<1> QED  BY <1>1, InductiveInvariant, PTL

(* No consumer calls front() on an empty deque, for any number of producers *)
(* and consumers.                                                           *)
THEOREM PopsFindAnItem == Spec => []PopNeverEmpty
<1>1. IInv => PopNeverEmpty
  <2> SUFFICES ASSUME IInv PROVE PopNeverEmpty
    OBVIOUS
  <2> QED  BY Accounts DEF Counts, AvailableAccounted, PopNeverEmpty
<1> QED  BY <1>1, InductiveInvariant, PTL

(* No slot is ever lost or duplicated.                                      *)
THEOREM SlotsBalance == Spec => []SlotsAccounted
<1>1. IInv => SlotsAccounted
  BY DEF IInv
<1> QED  BY <1>1, InductiveInvariant, PTL

(* inflight_ exceeds what is in flight by exactly the refused commits.      *)
THEOREM InflightBalance == Spec => []InflightAccounted
<1>1. IInv => InflightAccounted
  BY DEF IInv
<1> QED  BY <1>1, InductiveInvariant, PTL

(* An item of ProduceIfEmpty is never queued behind another.                *)
THEOREM IfEmptyInFront == Spec => []IfEmptyOnlyInFront
<1>1. Init => IfEmptyOnlyInFront
  BY DEF Init, IfEmptyOnlyInFront
<1>2. TypeOK /\ IfEmptyOnlyInFront /\ [Next]_vars => IfEmptyOnlyInFront'
  <2> SUFFICES ASSUME TypeOK, IfEmptyOnlyInFront, [Next]_vars PROVE IfEmptyOnlyInFront'
    OBVIOUS
  <2>1. ASSUME NEW p \in Producers, NEW k \in held, NEW full \in BOOLEAN,
               ProducerCommit(p, k, full)
        PROVE  IfEmptyOnlyInFront'
    <3> DEFINE x == [id |-> k.id, ifEmpty |-> k.ifEmpty, full |-> full]
    <3>1. /\ queue_ \in Seq(Item) /\ queue_' = Append(queue_, x)
          /\ ~k.ifEmpty \/ queue_ = <<>>
      BY <2>1 DEF ProducerCommit, MustBail, TypeOK
    <3>2. CASE queue_ = <<>>
      <4>1. Len(queue_') = 1
        BY <3>1, <3>2
      <4> QED  BY <4>1 DEF IfEmptyOnlyInFront
    <3>3. CASE ~k.ifEmpty
      <4>1. /\ Len(queue_') = Len(queue_) + 1 /\ Len(queue_) \in Nat
            /\ queue_'[Len(queue_) + 1] = x
            /\ \A i \in 1..Len(queue_) : queue_'[i] = queue_[i]
        BY <3>1
      <4> QED  BY <3>3, <4>1 DEF IfEmptyOnlyInFront
    <3> QED  BY <3>1, <3>2, <3>3
  <2>2. ASSUME NEW c \in taking, ConsumePops(c) PROVE IfEmptyOnlyInFront'
    <3>1. queue_ \in Seq(Item) /\ queue_ # <<>> /\ queue_' = Tail(queue_)
      BY <2>2 DEF ConsumePops, TypeOK
    <3>2. /\ Len(queue_') = Len(queue_) - 1 /\ Len(queue_) \in Nat
          /\ \A i \in 1..Len(queue_') : queue_'[i] = queue_[i + 1]
      BY <3>1
    <3> QED  BY <3>2 DEF IfEmptyOnlyInFront
  <2>3. CASE UNCHANGED queue_
    BY <2>3 DEF IfEmptyOnlyInFront
  <2> QED
    BY <2>1, <2>2, <2>3
    DEF Next, ProducerStep, ConsumerStep, Produce, ProduceReturns, ProducerCommitBails,
        CommitSignals, ConsumeNone, Consume, ConsumeSignals, ConsumeReturns, vars
<1> QED  BY <1>1, <1>2, TypeCorrect, PTL DEF Spec

-----------------------------------------------------------------------------
(* The single consumer c has counted items that nobody else can take.       *)
Counted(c) ==
  /\ \A u \in using \cup releasing : u.count > 0 => queue_ # <<>>
  /\ ConsumerIdle(c) /\ result[c] = "MoreAvailable" => queue_ # <<>>

(* A step that takes nothing out of the queue and counts nothing. *)
LEMMA CountedKept ==
  ASSUME NEW c, Counted(c), queue_ # <<>> => queue_' # <<>>,
         \A u \in (using \cup releasing)' : u \in using \cup releasing,
         ConsumerIdle(c)' => ConsumerIdle(c), result' = result
  PROVE  Counted(c)'
BY DEF Counted

(* Every step keeps what the only consumer has counted. *)
LEMMA CountedStep ==
  ASSUME IInv, NEW c, Consumers = {c}, Counted(c), [Next]_vars
  PROVE  Counted(c)'
<1>0. queue_ \in Seq(Item) /\ using \in SUBSET Use /\ releasing \in SUBSET Use /\ taking \subseteq {c}
  BY DEF IInv, TypeOK
<1>1. ASSUME NEW p \in Producers, NEW k \in held, NEW full \in BOOLEAN, ProducerCommit(p, k, full)
      PROVE  Counted(c)'
  <2>1. queue_' # <<>>
    BY <1>0, <1>1 DEF ProducerCommit
  <2> QED  BY <2>1 DEF Counted
<1>2. ASSUME NEW d \in taking, ConsumePops(d) PROVE Counted(c)'
  <2>1. d = c /\ using = {} /\ releasing = {}
    <3>1. \A u \in using \cup releasing : u.thread = c
      BY <1>0 DEF Use
    <3> QED  BY <1>0, <3>1 DEF IInv, PlacesInv
  <2> DEFINE u == [thread |-> c, item |-> Head(queue_), count |-> Len(queue_) - 1]
  <2>2. /\ using' = {u} /\ releasing' = {} /\ u.count = Len(queue_) - 1
        /\ queue_ # <<>> /\ queue_' = Tail(queue_)
    BY <1>2, <2>1 DEF ConsumePops
  <2>3. u.count > 0 => queue_' # <<>>
    <3>1. Len(queue_') = Len(queue_) - 1 /\ Len(queue_) \in Nat
      BY <1>0, <2>2
    <3>2. queue_' = <<>> => Len(queue_') = 0
      OBVIOUS
    <3> QED  BY <2>2, <3>1, <3>2
  <2>4. ~ConsumerIdle(c)'
    BY <2>2 DEF ConsumerIdle, Threads
  <2> HIDE DEF u
  <2> QED  BY <2>2, <2>3, <2>4 DEF Counted
<1>3. ASSUME NEW u \in releasing, ConsumeReturns(u) PROVE Counted(c)'
  <2>1. /\ queue_' = queue_ /\ using' = using /\ releasing' \subseteq releasing
        /\ result' = [result EXCEPT ![u.thread] = IF u.count > 0 THEN "MoreAvailable" ELSE "Done"]
    BY <1>3 DEF ConsumeReturns
  <2>2. u.thread = c /\ c \in Consumers /\ result \in [Consumers -> PipelineConsumeResult]
    BY <1>0 DEF Use, IInv, TypeOK
  <2>3. result'[c] = "MoreAvailable" => u.count > 0
    BY <2>1, <2>2
  <2> QED  BY <2>1, <2>3 DEF Counted
<1>4. ASSUME NEW d \in Consumers, ConsumeNone(d) PROVE Counted(c)'
  <2>1. /\ UNCHANGED <<queue_, using, releasing>> /\ c \in Consumers /\ d = c
        /\ result' = [result EXCEPT ![d] = "NoneAvailable"]
        /\ result \in [Consumers -> PipelineConsumeResult]
    BY <1>4 DEF ConsumeNone, IInv, TypeOK
  <2>2. result'[c] = "NoneAvailable"
    BY <2>1
  <2> QED  BY <2>1, <2>2 DEF Counted
<1>5. ASSUME NEW d \in Consumers, Consume(d) PROVE Counted(c)'
  <2>1. ConsumerIdle(c)' => ConsumerIdle(c)
    BY <1>5 DEF Consume, ConsumerIdle
  <2> QED  BY <1>5, <2>1, CountedKept DEF Consume
<1>6. ASSUME NEW u \in using, ConsumeSignals(u) PROVE Counted(c)'
  <2>1. ConsumerIdle(c)' => ConsumerIdle(c)
    <3>1. u \in releasing' /\ u.thread = c
      BY <1>0, <1>6 DEF ConsumeSignals, Use
    <3> QED  BY <3>1 DEF ConsumerIdle, Threads
  <2> QED  BY <1>6, <2>1, CountedKept DEF ConsumeSignals
<1>7. CASE UNCHANGED <<queue_, consumerVars>>
  BY <1>7, CountedKept DEF consumerVars, ConsumerIdle
<1> QED
  BY <1>1, <1>2, <1>3, <1>4, <1>5, <1>6, <1>7
  DEF Next, ProducerStep, ConsumerStep, Produce, ProduceReturns, ProducerCommitBails,
      CommitSignals, vars

(* The answer MoreAvailable of Consume, which comes from a count taken before *)
(* the callback ran, is still true when the only consumer acts on it.        *)
THEOREM MoreAvailableIsTrue == Spec => []MoreAvailableMeansQueued
<1> DEFINE CountedInv == \A c : Consumers = {c} => Counted(c)
<1>1. Init => CountedInv
  BY DEF Init, Counted
<1>2. IInv /\ CountedInv /\ [Next]_vars => CountedInv'
  BY CountedStep
<1>3. CountedInv => MoreAvailableMeansQueued
  BY DEF Counted, MoreAvailableMeansQueued
<1> QED  BY <1>1, <1>2, <1>3, InductiveInvariant, PTL DEF Spec

-----------------------------------------------------------------------------
(* The announced items are a prefix of the queue, of at most Depth items.   *)
ChannelPrefix ==
  /\ Announced \in Nat /\ Announced =< Len(queue_) /\ Len(queue_) =< Depth
  /\ queue_ \in Seq(Item)
  /\ Channel \in Seq(Item) /\ Len(Channel) = Announced
  /\ \A i \in 1..Announced : Channel[i] = queue_[i]

LEMMA ChannelIsPrefix == IInv => ChannelPrefix
<1> SUFFICES ASSUME IInv PROVE ChannelPrefix
  OBVIOUS
<1>1. Announced \in Nat /\ Announced =< Len(queue_) /\ queue_ \in Seq(Item)
  BY Accounts DEF Counts, AvailableAccounted, Announced, IInv, TypeOK
<1>2. Len(queue_) =< Depth
  BY Accounts, PipelineAssumption DEF Counts, SlotsAccounted
<1>3. Channel = SubSeq(queue_, 1, Announced)
  BY <1>1 DEF Channel
<1> QED  BY <1>1, <1>2, <1>3 DEF ChannelPrefix

(* A step that leaves the queue and the number of announced items alone is  *)
(* a stutter of the channel.                                                *)
LEMMA ChannelStutters ==
  ASSUME queue_' = queue_, Announced' = Announced
  PROVE  Channel' = Channel
BY DEF Channel

(* The pipeline implements the bounded first-in first-out channel: an item  *)
(* is sent when its commit is announced and received when it is popped.     *)
THEOREM PipelineIsChannel == Spec => ImplementsChannel
<1>1. Init => Chan!Init
  <2> SUFFICES ASSUME Init PROVE Channel = <<>>
    BY DEF Chan!Init
  <2>1. IInv /\ Len(queue_) = 0
    BY InitIInv DEF Init
  <2>2. Channel \in Seq(Item) /\ Len(Channel) = 0
    BY <2>1, ChannelIsPrefix DEF ChannelPrefix
  <2> QED  BY <2>2
<1>2. IInv /\ IInv' /\ [Next]_vars => [Chan!Next]_Channel
  <2> SUFFICES ASSUME IInv, IInv', [Next]_vars PROVE Chan!Next \/ Channel' = Channel
    OBVIOUS
  <2>1. ChannelPrefix /\ ChannelPrefix'
    BY ChannelIsPrefix, PTL
  <2>2. Counts
    BY Accounts
  <2>3. ASSUME NEW p \in signalling, CommitSignals(p) PROVE Chan!Next
    <3>1. Announced' = Announced + 1 /\ queue_' = queue_
      BY <2>2, <2>3 DEF CommitSignals, consumerVars, Announced, Counts
    <3> DEFINE x == queue_[Announced + 1]
    <3>2. x \in Item /\ Len(Channel) < Depth
      BY <2>1, <3>1, PipelineAssumption DEF ChannelPrefix
    <3>3. Channel' = Append(Channel, x)
      <4>1. /\ Append(Channel, x) \in Seq(Item)
            /\ Len(Append(Channel, x)) = Len(Channel')
        BY <2>1, <3>1, <3>2 DEF ChannelPrefix
      <4>2. ASSUME NEW i \in 1..Len(Channel') PROVE Channel'[i] = Append(Channel, x)[i]
        BY <2>1, <3>1, <3>2 DEF ChannelPrefix
      <4> QED  BY <2>1, <4>1, <4>2 DEF ChannelPrefix
    <3> QED  BY <3>2, <3>3 DEF Chan!Next, Chan!Send
  <2>4. ASSUME NEW c \in taking, ConsumePops(c) PROVE Chan!Next
    <3>1. Announced' = Announced - 1 /\ Announced > 0
      <4>1. Cardinality(taking') = Cardinality(taking) - 1 /\ Cardinality(taking) > 0
        BY <2>4, RemoveOne DEF ConsumePops, IInv, PlacesInv
      <4>2. available_' = available_
        BY <2>4 DEF ConsumePops
      <4> QED  BY <2>2, <4>1, <4>2 DEF Announced, Counts
    <3>2. /\ queue_' = Tail(queue_) /\ queue_ # <<>>
          /\ \A i \in 1..(Len(queue_) - 1) : queue_'[i] = queue_[i + 1]
      BY <2>1, <2>4 DEF ConsumePops, ChannelPrefix
    <3>3. Channel # <<>> /\ Channel' = Tail(Channel)
      <4>1. /\ Channel # <<>> /\ Tail(Channel) \in Seq(Item)
            /\ Len(Tail(Channel)) = Len(Channel')
        BY <2>1, <3>1 DEF ChannelPrefix
      <4>2. ASSUME NEW i \in 1..Len(Channel') PROVE Channel'[i] = Tail(Channel)[i]
        BY <2>1, <3>1, <3>2 DEF ChannelPrefix
      <4> QED  BY <2>1, <4>1, <4>2 DEF ChannelPrefix
    <3> QED  BY <3>3 DEF Chan!Next, Chan!Receive
  <2>5. ASSUME NEW c \in Consumers, Consume(c) PROVE Channel' = Channel
    <3>1. c \notin taking
      BY <2>5 DEF Consume, ConsumerIdle
    <3>2. Cardinality(taking') = Cardinality(taking) + 1
      BY <2>5, <3>1, AddOne DEF Consume, IInv, PlacesInv
    <3>3. available_' = available_ - 1 /\ queue_' = queue_
      BY <2>5 DEF Consume
    <3> QED  BY <2>2, <3>2, <3>3, ChannelStutters DEF Announced, Counts
  <2>6. ASSUME NEW p \in Producers, NEW k \in held, NEW full \in BOOLEAN,
               ProducerCommit(p, k, full)
        PROVE  Channel' = Channel
    <3>1. Announced' = Announced
      BY <2>6 DEF ProducerCommit, consumerVars, Announced
    <3>2. \A i \in 1..Announced : queue_'[i] = queue_[i]
      <4> DEFINE x == [id |-> k.id, ifEmpty |-> k.ifEmpty, full |-> full]
      <4>1. queue_' = Append(queue_, x) /\ queue_ \in Seq(Item)
        BY <2>1, <2>6 DEF ProducerCommit, ChannelPrefix
      <4>2. x \in Item
        BY DEF IInv, TypeOK, Continuation, Item
      <4> QED  BY <2>1, <4>1, <4>2 DEF ChannelPrefix
    <3>3. Len(Channel') = Len(Channel) /\ \A i \in 1..Len(Channel) : Channel'[i] = Channel[i]
      BY <2>1, <3>1, <3>2 DEF ChannelPrefix
    <3> QED  BY <2>1, <3>3 DEF ChannelPrefix
  <2>7. CASE UNCHANGED <<queue_, available_, taking>>
    BY <2>7, ChannelStutters DEF Announced
  <2> QED
    BY <2>3, <2>4, <2>5, <2>6, <2>7
    DEF Next, ProducerStep, ConsumerStep, Produce, ProduceReturns, ProducerCommitBails,
        ConsumeNone, ConsumeSignals, ConsumeReturns, vars, consumerVars
<1> QED  BY <1>1, <1>2, InductiveInvariant, PTL DEF Spec, ImplementsChannel, Chan!Spec
=============================================================================
