----------------------------- MODULE WaitableEvent -----------------------------
(***************************************************************************)
(* OneOffWaitableEvent of wtf/sync: a flag, a mutex and a condition        *)
(* variable.  A step is one critical section of mutex_, ended by the       *)
(* return of the call or by parking in the condition variable.             *)
(*                                                                         *)
(* A parked thread leaves the condition variable when it is notified, when *)
(* its wait_for times out, or spuriously; it is then awake, and goes on    *)
(* when it has the mutex again.                                            *)
(***************************************************************************)
EXTENDS Integers, FiniteSets

CONSTANTS Waiters,        \* threads that call Wait
          TimedWaiters,   \* threads that call WaitWithTimeout
          Resetters,      \* threads that call Reset
          MaxSignals      \* bound: signals that find the event not signaled

ASSUME WaitableEventAssumption ==
  /\ MaxSignals \in Nat
  /\ Waiters \cap TimedWaiters = {}

VARIABLES
  signaled_,
  parked,      \* threads inside cv_.wait or cv_.wait_for
  awake,       \* threads that left it without a timeout, without the mutex yet
  timedOut,    \* threads whose wait_for returned cv_status::timeout, likewise
  raised,      \* times Signal found the event not signaled
  received,    \* waits that returned because of a signal
  cleared      \* signals cleared by Reset

counters == <<raised, received, cleared>>
vars == <<signaled_, parked, awake, timedOut, counters>>

Thread == Waiters \cup TimedWaiters
Waiting(t) == t \in parked \cup awake \cup timedOut

-----------------------------------------------------------------------------
SignalWithoutNotify ==
  /\ signaled_' = TRUE
  /\ ~signaled_ => raised < MaxSignals
  /\ raised' = IF signaled_ THEN raised ELSE raised + 1
  /\ UNCHANGED <<parked, awake, timedOut, received, cleared>>

(* notify_one wakes one parked thread, if there is one. *)
Signal ==
  /\ ~signaled_ => raised < MaxSignals
  /\ signaled_' = TRUE
  /\ raised' = IF signaled_ THEN raised ELSE raised + 1
  /\ \/ /\ parked = {}
        /\ UNCHANGED <<parked, awake>>
     \/ \E t \in parked : /\ parked' = parked \ {t}
                          /\ awake' = awake \cup {t}
  /\ UNCHANGED <<timedOut, received, cleared>>

Reset ==
  /\ signaled_' = FALSE
  /\ cleared' = IF signaled_ THEN cleared + 1 ELSE cleared
  /\ UNCHANGED <<parked, awake, timedOut, raised, received>>

(* A wait that finds the event signaled returns and its scope guard clears  *)
(* the flag, before the mutex is released.                                  *)
ReceiveKeepingFlag ==
  /\ signaled_
  /\ received' = received + 1
  /\ UNCHANGED <<signaled_, raised, cleared>>

Receive ==
  /\ signaled_
  /\ signaled_' = FALSE
  /\ received' = received + 1
  /\ UNCHANGED <<raised, cleared>>

-----------------------------------------------------------------------------
(* Wait and WaitWithTimeout, on entry. *)

WaitReturns(t) ==
  /\ ~Waiting(t)
  /\ Receive
  /\ UNCHANGED <<parked, awake, timedOut>>

WaitParks(t) ==
  /\ ~Waiting(t)
  /\ ~signaled_
  /\ parked' = parked \cup {t}
  /\ UNCHANGED <<signaled_, awake, timedOut, counters>>

(* Spurious wake-ups and timeouts. *)

WakeSpuriously(t) ==
  /\ parked' = parked \ {t}
  /\ awake' = awake \cup {t}
  /\ UNCHANGED <<signaled_, timedOut, counters>>

TimeOut(t) ==
  /\ parked' = parked \ {t}
  /\ timedOut' = timedOut \cup {t}
  /\ UNCHANGED <<signaled_, awake, counters>>

-----------------------------------------------------------------------------
(* An awake thread has the mutex again. *)

ResumeReceives(t) ==
  /\ Receive
  /\ awake' = awake \ {t}
  /\ UNCHANGED <<parked, timedOut>>

(* The loop of Wait, and of WaitWithTimeout when time is left. *)
ResumeParks(t) ==
  /\ ~signaled_
  /\ awake' = awake \ {t}
  /\ parked' = parked \cup {t}
  /\ UNCHANGED <<signaled_, timedOut, counters>>

(* The flag is clear and elapsed >= timeout: WaitWithTimeout returns true. *)
ResumeTooLate(t) ==
  /\ ~signaled_
  /\ awake' = awake \ {t}
  /\ UNCHANGED <<signaled_, parked, timedOut, counters>>

(* wait_for timed out: WaitWithTimeout returns true without looking at the  *)
(* flag, and its scope guard clears the flag: a signal that is up is lost.  *)
ResumeTimedOut(t) ==
  /\ timedOut' = timedOut \ {t}
  /\ signaled_' = FALSE
  /\ UNCHANGED <<parked, awake, raised, received, cleared>>

-----------------------------------------------------------------------------
Init ==
  /\ signaled_ = FALSE
  /\ parked = {} /\ awake = {} /\ timedOut = {}
  /\ raised = 0 /\ received = 0 /\ cleared = 0

Resume ==
  \/ \E t \in awake : ResumeReceives(t) \/ ResumeParks(t)
  \/ \E t \in awake \cap TimedWaiters : ResumeTooLate(t)
  \/ \E t \in timedOut : ResumeTimedOut(t)

Next ==
  \/ Signal
  \/ \E r \in Resetters : Reset
  \/ \E t \in Thread : WaitReturns(t) \/ WaitParks(t)
  \/ \E t \in parked : WakeSpuriously(t)
  \/ \E t \in parked \cap TimedWaiters : TimeOut(t)
  \/ Resume

Spec == Init /\ [][Next]_vars

(* A thread that has left the condition variable gets the mutex. *)
FairSpec == Spec /\ WF_vars(Resume)

-----------------------------------------------------------------------------
TypeOK ==
  /\ signaled_ \in BOOLEAN
  /\ parked \in SUBSET Thread
  /\ awake \in SUBSET (Thread \ parked)
  /\ timedOut \in SUBSET (TimedWaiters \ (parked \cup awake))
  /\ raised \in 0..MaxSignals
  /\ received \in Nat /\ cleared \in Nat

(* notify_one is enough: while the event is signaled, no thread stays       *)
(* parked unless another one is on its way to take the signal.              *)
NoStrandedWaiter == signaled_ /\ parked # {} => awake \cup timedOut # {}

(* A signal that raised the event wakes at most one thread: however waits,   *)
(* resets, timeouts and spurious wake-ups interleave, no two of them use up  *)
(* the same one.                                                             *)
SignalWakesAtMostOne ==
  received + cleared + (IF signaled_ THEN 1 ELSE 0) =< raised

(* waitable_event_unittest.cpp:96, "Each |Signal()| should wake exactly one  *)
(* thread": unless Reset took it, or no thread has looked yet.  It holds     *)
(* while nobody calls WaitWithTimeout; ResumeTimedOut loses a signal.        *)
SignalWakesOne ==
  received + cleared + (IF signaled_ THEN 1 ELSE 0) = raised

(* A signaled event does not stay signaled while a thread waits for it.     *)
SignalTakenByWaiter == signaled_ /\ parked # {} ~> ~signaled_
=============================================================================
