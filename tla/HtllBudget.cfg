\* One thread in segments and two outside; a budget is 0 or below zero.
CONSTANTS
  t1 = t1
  t2 = t2
  t3 = t3
  Threads = {t1, t2, t3}
  EpochThreads = {t1}
  PlainThreads = {t2, t3}
  WordSize = 2
  HTLL_SPIN_TRIES_LOCK = 0
  INCREASE_UNIT = 1
  DECREASE_UNIT = 1
  AdjustPeriod = 2
  WAKE_MAX_THRESHOLD = 1
  WAKE_MIN_THRESHOLD = 1
SPECIFICATION FairBudgetSpec
INVARIANTS
  BudgetTypeOK
PROPERTIES
  TrapIsFinal
  BudgetProgress
