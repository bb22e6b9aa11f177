\* A mutex and a read-write lock, each initialised or first used by one thread
\* alone, and a statically initialised mutex that is raced for share a bucket.
CONSTANTS
  t1 = t1
  t2 = t2
  m1 = m1
  m2 = m2
  rw = rw
  None = None
  Threads = {t1, t2}
  Mutexes = {m1, m2, rw}
  Rwlocks = {rw}
  Racy = {m2}
  BucketLength = 2
SPECIFICATION FairSpec
INVARIANTS
  TypeOK
  StableLock
  NoAliasing
PROPERTIES
  EntriesAreFinal
  ImplementsMutexes
  LookupEnds
CHECK_DEADLOCK FALSE
