\* Each of the four policies, with three threads that wait for each other and
\* wake each other in any order.
CONSTANTS
  Threads = {t1, t2, t3}
  Policies = {"spinlock", "spinlock_atomic", "spin_then_park", "park"}
SPECIFICATION FairSpec
INVARIANT WakeFindsLocked
PROPERTIES
  NoEarlyReturn
  GrantedReturns
