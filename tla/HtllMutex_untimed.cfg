\* Four threads outside any segment: the spin-then-park protocol alone.
CONSTANTS
  t1 = t1
  t2 = t2
  t3 = t3
  t4 = t4
  Threads = {t1, t2, t3, t4}
  EpochThreads = {}
  PlainThreads = {t1, t2, t3, t4}
SPECIFICATION FairSpec
INVARIANTS
  TypeOK
  MutualExclusion
  NoLostWakeup
PROPERTIES
  ImplementsMutex
  AcquireProgress
