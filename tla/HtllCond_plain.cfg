\* Two waiters' worth of threads and one to signal, all outside segments.
CONSTANTS
  t1 = t1
  t2 = t2
  t3 = t3
  Threads = {t1, t2, t3}
  EpochThreads = {}
  PlainThreads = {t1, t2, t3}
  TimedWaiters = {t3}
SPECIFICATION CondFairSpec
INVARIANTS
  NoSignalSleptThrough
  NoMutexNoWaiters
  NoRequeuedLost
PROPERTIES
  CondImplementsMutex
  CondProgress
  TimedWaitEnds
