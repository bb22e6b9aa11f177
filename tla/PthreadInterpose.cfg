\* Three threads, both builds.
CONSTANTS
  t1 = t1
  t2 = t2
  t3 = t3
  None = None
  Threads = {t1, t2, t3}
SPECIFICATION FairSpec
INVARIANTS
  HolderOwns
  NoWaiterForgotten
PROPERTIES
  AcquireProgress
  ImplementsMutex
