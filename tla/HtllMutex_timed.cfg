\* Three threads that lock the mutex only inside segments.
CONSTANTS
  t1 = t1
  t2 = t2
  t3 = t3
  Threads = {t1, t2, t3}
  EpochThreads = {t1, t2, t3}
  PlainThreads = {}
SPECIFICATION FairSpec
INVARIANTS
  LockedIffHeld
PROPERTIES
  AcquireProgress
