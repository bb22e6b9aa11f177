\* The main thread, one it does not know of, and two workers, the second of
\* which is one too many.
CONSTANTS
  main = main
  f = f
  w1 = w1
  w2 = w2
  m1 = m1
  m2 = m2
  rw = rw
  None = None
  Main = main
  Foreign = {f}
  Workers = {w1, w2}
  Mutexes = {m1, m2}
  Rwlocks = {rw}
  MAX_THREADS = 2
SPECIFICATION FairSpec
INVARIANTS
  InitOnce
PROPERTIES
  EntriesSurvive
  ImplementsMutexes
  InitEnds
CHECK_DEADLOCK FALSE
