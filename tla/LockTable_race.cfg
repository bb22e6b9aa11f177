\* Two threads use a statically initialised mutex for the first time at once.
CONSTANTS
  t1 = t1
  t2 = t2
  m1 = m1
  None = None
  Threads = {t1, t2}
  Mutexes = {m1}
  Rwlocks = {}
  Racy = {m1}
  BucketLength = 3
SPECIFICATION Spec
INVARIANTS
  SameLock
CHECK_DEADLOCK FALSE
