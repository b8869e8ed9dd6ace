SPECIFICATION FairSpec
CONSTANTS
  Waiters = {w1, w2}
  TimedWaiters = {t1, t2}
  Resetters = {r1}
  MaxSignals = 4
INVARIANTS
  NoStrandedWaiter
  SignalWakesAtMostOne
PROPERTY SignalTakenByWaiter
