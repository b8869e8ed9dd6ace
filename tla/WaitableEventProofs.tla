-------------------------- MODULE WaitableEventProofs --------------------------
(***************************************************************************)
(* Proofs of the safety of OneOffWaitableEvent for any threads and any     *)
(* number of signals.                                                      *)
(***************************************************************************)
EXTENDS WaitableEvent, TLAPS

(* The state stays well formed: a thread is parked, awake or timed out, and *)
(* in one of them at a time.                                                *)
THEOREM TypeCorrect == Spec => []TypeOK
<1> DEFINE Flag == signaled_ \in BOOLEAN
           Places == /\ parked \in SUBSET Thread
                     /\ awake \in SUBSET (Thread \ parked)
                     /\ timedOut \in SUBSET (TimedWaiters \ (parked \cup awake))
           Counters == /\ raised \in 0..MaxSignals
                       /\ received \in Nat /\ cleared \in Nat
<1>0. TypeOK <=> Flag /\ Places /\ Counters
  BY DEF TypeOK
<1>1. Init => TypeOK
  <2> SUFFICES ASSUME Init PROVE TypeOK
    OBVIOUS
  <2>1. Flag
    BY Zenon DEF Init
  <2>2. Places
    BY DEF Init
  <2>3. Counters
    BY WaitableEventAssumption DEF Init
  <2> QED  BY <1>0, <2>1, <2>2, <2>3
<1>2. TypeOK /\ [Next]_vars => TypeOK'
  <2> SUFFICES ASSUME TypeOK, [Next]_vars PROVE TypeOK'
    OBVIOUS
  <2>0. Flag /\ Places /\ Counters
    BY <1>0
  <2>1. Flag'
    BY <2>0, Zenon DEF Next, Signal, Reset, Receive, WaitReturns, WaitParks, WakeSpuriously,
       TimeOut, Resume, ResumeReceives, ResumeParks, ResumeTooLate, ResumeTimedOut, vars
  <2>2. Places'
    <3>1. CASE Signal
      BY <2>0, <3>1 DEF Signal
    <3>2. ASSUME NEW t \in Thread, WaitReturns(t) \/ WaitParks(t) PROVE Places'
      BY <2>0, <3>2 DEF WaitReturns, WaitParks, Waiting
    <3>3. ASSUME NEW t \in parked, WakeSpuriously(t) PROVE Places'
      BY <2>0, <3>3 DEF WakeSpuriously
    <3>4. ASSUME NEW t \in parked \cap TimedWaiters, TimeOut(t) PROVE Places'
      BY <2>0, <3>4 DEF TimeOut
    <3>5. ASSUME NEW t \in awake, ResumeReceives(t) \/ ResumeParks(t) \/ ResumeTooLate(t)
          PROVE  Places'
      BY <2>0, <3>5 DEF ResumeReceives, ResumeParks, ResumeTooLate
    <3>6. ASSUME NEW t \in timedOut, ResumeTimedOut(t) PROVE Places'
      BY <2>0, <3>6 DEF ResumeTimedOut
    <3>7. CASE Reset \/ UNCHANGED vars
      BY <2>0, <3>7 DEF Reset, vars
    <3> QED  BY <3>1, <3>2, <3>3, <3>4, <3>5, <3>6, <3>7 DEF Next, Resume
  <2>3. Counters'
    <3>1. CASE Signal
      BY <2>0, <3>1, WaitableEventAssumption DEF Signal
    <3>2. CASE Reset
      BY <2>0, <3>2 DEF Reset
    <3>3. CASE Receive
      BY <2>0, <3>3 DEF Receive
    <3>4. ASSUME NEW t \in timedOut, ResumeTimedOut(t) PROVE Counters'
      BY <2>0, <3>4 DEF ResumeTimedOut
    <3>5. CASE UNCHANGED counters
      BY <2>0, <3>5 DEF counters
    <3> QED
      BY <3>1, <3>2, <3>3, <3>4, <3>5
      DEF Next, Resume, WaitReturns, WaitParks, WakeSpuriously, TimeOut, ResumeReceives,
          ResumeParks, ResumeTooLate, vars
  <2> QED  BY <1>0, <2>1, <2>2, <2>3 DEF TypeOK
<1> QED  BY <1>1, <1>2, PTL DEF Spec

(* One notify_one per Signal never strands a waiter: a thread parks only    *)
(* while the event is not signaled, every Signal moves a parked thread on,  *)
(* and a thread that goes on while the event is signaled clears it.         *)
THEOREM NobodyStranded == Spec => []NoStrandedWaiter
<1>1. Init => NoStrandedWaiter
  BY DEF Init, NoStrandedWaiter
<1>2. TypeOK /\ NoStrandedWaiter /\ [Next]_vars => NoStrandedWaiter'
  <2> SUFFICES ASSUME TypeOK, NoStrandedWaiter, [Next]_vars PROVE NoStrandedWaiter'
    OBVIOUS
  <2> USE DEF NoStrandedWaiter, counters
  <2>1. CASE Signal
    BY <2>1 DEF Signal
  <2>2. CASE Reset
    BY <2>2 DEF Reset
  <2>3. ASSUME NEW t \in Thread, WaitReturns(t) \/ WaitParks(t) PROVE NoStrandedWaiter'
    BY <2>3 DEF WaitReturns, WaitParks, Receive
  <2>4. ASSUME NEW t \in parked, WakeSpuriously(t) \/ TimeOut(t) PROVE NoStrandedWaiter'
    BY <2>4 DEF WakeSpuriously, TimeOut
  <2>5. ASSUME NEW t \in awake, ResumeReceives(t) \/ ResumeParks(t) \/ ResumeTooLate(t)
        PROVE  NoStrandedWaiter'
    BY <2>5 DEF ResumeReceives, ResumeParks, ResumeTooLate, Receive
  <2>6. ASSUME NEW t \in timedOut, ResumeTimedOut(t) PROVE NoStrandedWaiter'
    BY <2>6 DEF ResumeTimedOut
  <2>7. CASE UNCHANGED vars
    BY <2>7 DEF vars
  <2> QED  BY <2>1, <2>2, <2>3, <2>4, <2>5, <2>6, <2>7 DEF Next, Resume
<1> QED  BY <1>1, <1>2, TypeCorrect, PTL DEF Spec

(* No signal wakes two threads: a wait that returns on the flag clears it in *)
(* the same critical section.                                                *)
THEOREM SignalsUsedOnce == Spec => []SignalWakesAtMostOne
<1>1. Init => SignalWakesAtMostOne
  BY DEF Init, SignalWakesAtMostOne
<1>2. TypeOK /\ SignalWakesAtMostOne /\ [Next]_vars => SignalWakesAtMostOne'
  <2> SUFFICES ASSUME TypeOK, SignalWakesAtMostOne, [Next]_vars PROVE SignalWakesAtMostOne'
    OBVIOUS
  <2> USE DEF SignalWakesAtMostOne, counters
  <2>0. /\ signaled_ \in BOOLEAN /\ raised \in Int
        /\ received \in Nat /\ cleared \in Nat
    BY WaitableEventAssumption DEF TypeOK
  <2>1. CASE Signal
    BY <2>0, <2>1 DEF Signal
  <2>2. CASE Reset
    BY <2>0, <2>2 DEF Reset
  <2>3. CASE Receive
    BY <2>0, <2>3 DEF Receive
  <2>4. CASE UNCHANGED <<signaled_, counters>>
    BY <2>4
  <2>5. ASSUME NEW t \in timedOut, ResumeTimedOut(t) PROVE SignalWakesAtMostOne'
    BY <2>0, <2>5 DEF ResumeTimedOut
  <2> QED
    BY <2>1, <2>2, <2>3, <2>4, <2>5
    DEF Next, Resume, WaitReturns, WaitParks, WakeSpuriously, TimeOut, ResumeReceives,
        ResumeParks, ResumeTooLate, vars
<1> QED  BY <1>1, <1>2, TypeCorrect, PTL DEF Spec

(* Where nobody calls WaitWithTimeout, as in Thread's constructor, no signal *)
(* is lost either: each one wakes one thread, is taken back by Reset, or is  *)
(* still up.                                                                 *)
THEOREM SignalsBalance ==
  ASSUME TimedWaiters = {}
  PROVE  Spec => []SignalWakesOne
<1>1. Init => SignalWakesOne
  BY DEF Init, SignalWakesOne
<1>2. TypeOK /\ SignalWakesOne /\ [Next]_vars => SignalWakesOne'
  <2> SUFFICES ASSUME TypeOK, SignalWakesOne, [Next]_vars PROVE SignalWakesOne'
    OBVIOUS
  <2> USE DEF SignalWakesOne, counters
  <2>0. /\ signaled_ \in BOOLEAN /\ raised \in Int
        /\ received \in Nat /\ cleared \in Nat
    BY WaitableEventAssumption DEF TypeOK
  <2>1. CASE Signal
    BY <2>0, <2>1 DEF Signal
  <2>2. CASE Reset
    BY <2>0, <2>2 DEF Reset
  <2>3. CASE Receive
    BY <2>0, <2>3 DEF Receive
  <2>4. CASE UNCHANGED <<signaled_, counters>>
    BY <2>4
  <2>5. ASSUME NEW t \in timedOut, ResumeTimedOut(t) PROVE SignalWakesOne'
    BY <2>5 DEF TypeOK
  <2> QED
    BY <2>1, <2>2, <2>3, <2>4, <2>5
    DEF Next, Resume, WaitReturns, WaitParks, WakeSpuriously, TimeOut, ResumeReceives,
        ResumeParks, ResumeTooLate, vars
<1> QED  BY <1>1, <1>2, TypeCorrect, PTL DEF Spec
=============================================================================
