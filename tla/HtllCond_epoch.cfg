\* Every thread locks the mutex inside segments only, and waits and
\* broadcasts there too.
CONSTANTS
  t1 = t1
  t2 = t2
  t3 = t3
  Threads = {t1, t2, t3}
  EpochThreads = {t1, t2, t3}
  PlainThreads = {}
  TimedWaiters = {}
SPECIFICATION CondSpec
INVARIANTS
  BroadcastWakesEveryone
