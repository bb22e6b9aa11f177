-------------------------- MODULE HtllBudgetProofs --------------------------
(***************************************************************************)
(* Theorems about the spin budget, for any threads, word size and          *)
(* thresholds.  What is proved of the mutex holds with its budget, too.    *)
(***************************************************************************)
EXTENDS HtllBudget, HtllMutexProofs

-----------------------------------------------------------------------------
(* The budget only restricts the mutex.                                    *)

\* A step of the budget is one of the mutex.
LEMMA BudgetStepIsStep == [BudgetNext]_allVars => [Next]_vars
<1>1. ASSUME NEW t \in Threads, BudgetStep(t) PROVE Next
  BY <1>1
  DEF BudgetStep, StartLock, SpinOn, DoubleBudget, CountUnlock, ResetAndRelease,
      LoadWakes, StoreWakes, OtherStep, Next, LockStep, UnlockStep, ProgramStep
<1> QED
  BY <1>1 DEF BudgetNext, allVars

\* The mutex with a budget is the mutex: its theorems carry over, whatever
\* overflow makes of the budget.
THEOREM BudgetImplementsMutex ==
  BudgetSpec => Spec /\ ImplementsMutex /\ []MutualExclusion
<1>1. BudgetInit => Init
  BY DEF BudgetInit
<1>2. BudgetSpec => Spec
  BY <1>1, BudgetStepIsStep, PTL DEF BudgetSpec, Spec
<1> QED
  BY <1>2, ImplementsMutexHolds, MutualExclusionHolds, PTL

\* How long a waiter spins decides only when it sleeps, never whether it is
\* woken: without segments no budget loses a wake-up.
THEOREM BudgetLosesNoWakeup ==
  ASSUME EpochThreads = {}
  PROVE  BudgetSpec => []NoLostWakeup
<1>1. Spec => []NoLostWakeup
  BY NoLostWakeupHolds
<1> QED
  BY <1>1, BudgetImplementsMutex, PTL

-----------------------------------------------------------------------------
(* Widths.                                                                 *)

\* An unsigned int has WordSize values.
LEMMA UnsignedRange == \A x \in Int : AsUnsigned(x) \in Unsigned
BY BudgetAssumption DEF AsUnsigned, Unsigned

\* Copied to an int, half of them are negative.
LEMMA SignedRange == \A x \in Int : AsSigned(x) \in Signed
<1> TAKE x \in Int
<1> DEFINE u == AsUnsigned(x)
           h == WordSize \div 2
<1>1. u \in Int /\ 0 <= u /\ u < WordSize
  BY UnsignedRange, BudgetAssumption DEF Unsigned
<1>2. h \in Int /\ WordSize = 2 * h
  BY BudgetAssumption
<1>3. Signed = -h .. h - 1
  BY DEF Signed
<1>4. AsSigned(x) = IF u < h THEN u ELSE u - WordSize
  BY DEF AsSigned
<1> HIDE DEF u, h
<1> QED
  BY <1>1, <1>2, <1>3, <1>4, BudgetAssumption

\* Every step keeps the budget's variables within their widths.
LEMMA BudgetTypeStep == BudgetTypeOK /\ [BudgetNext]_allVars => BudgetTypeOK'
<1> SUFFICES ASSUME BudgetTypeOK, [BudgetNext]_allVars PROVE BudgetTypeOK'
  OBVIOUS
<1> USE DEF BudgetTypeOK
<1>1. Unsigned \subseteq Int /\ Signed \subseteq Int /\ WakeCap \in Nat
  BY BudgetAssumption DEF Unsigned, Signed, WakeCap
<1>2. CASE UNCHANGED allVars
  BY <1>2 DEF allVars, budget
<1>3. ASSUME NEW t \in Threads, BudgetStep(t) PROVE BudgetTypeOK'
  <2>1. CASE StartLock(t)
    <3>1. AsSigned(ticks_spin) \in Signed
      BY <1>1, SignedRange
    <3> QED
      BY <2>1, <3>1 DEF StartLock
  <2>2. CASE DoubleBudget(t)
    <3>1. spin_ticks[t] \in Int
      BY <1>1
    <3>2. AsSigned(2 * spin_ticks[t]) \in Signed
      BY <3>1, SignedRange
    <3> QED
      BY <2>2, <3>2 DEF DoubleBudget
  <2>3. CASE CountUnlock(t)
    <3>1. Adjusted \in Unsigned
      BY <1>1, UnsignedRange, BudgetAssumption DEF Adjusted
    <3>2. (cnt_unlock + 1) % AdjustPeriod \in 0 .. AdjustPeriod - 1
      BY BudgetAssumption
    <3> QED
      BY <2>3, <3>1, <3>2 DEF CountUnlock
  <2>4. CASE ResetAndRelease(t)
    <3>1. cnt_wake' \in 0 .. WakeCap
      BY <1>1, <2>4 DEF ResetAndRelease
    <3>2. resetDue' \in BOOLEAN
      BY <2>4 DEF ResetAndRelease
    <3> QED
      BY <2>4, <3>1, <3>2 DEF ResetAndRelease
  <2>5. CASE LoadWakes(t)
    BY <2>5 DEF LoadWakes
  <2>6. CASE StoreWakes(t)
    <3>1. Counted(loaded[t]) \in 0 .. WakeCap
      BY <1>1 DEF Counted
    <3>2. cnt_wake' \in 0 .. WakeCap
      BY <2>6, <3>1 DEF StoreWakes
    <3>3. loaded' \in [Threads -> 0 .. WakeCap]
      BY <1>1, <2>6 DEF StoreWakes
    <3> QED
      BY <2>6, <3>2, <3>3 DEF StoreWakes
  <2>7. CASE UNCHANGED budget
    BY <2>7 DEF budget
  <2> QED
    BY <1>3, <2>1, <2>2, <2>3, <2>4, <2>5, <2>6, <2>7 DEF BudgetStep, SpinOn
<1> QED
  BY <1>2, <1>3 DEF BudgetNext

\* The budget and its counters keep their widths, although the budget is
\* lowered without a floor and doubled without a ceiling.
THEOREM BudgetTypeCorrect == BudgetSpec => []BudgetTypeOK
<1>1. BudgetInit => BudgetTypeOK
  <2>1. 0 \in Signed /\ 0 \in 0 .. AdjustPeriod - 1 /\ 0 \in 0 .. WakeCap
    BY BudgetAssumption DEF Signed, WakeCap
  <2> QED
    BY <2>1, BudgetAssumption DEF BudgetInit, BudgetTypeOK, Unsigned
<1> QED
  BY <1>1, BudgetTypeStep, PTL DEF BudgetSpec

-----------------------------------------------------------------------------
(* The trap.  That its unlocks are fast needs LockedIffHeld: the holder    *)
(* finds the word at 1 because its low byte is set while anybody holds.    *)

\* A step out of the trap would be a slow unlock or the end of a spin.
LEMMA TrapStep ==
  ASSUME TypeOK, HolderInv, BudgetTypeOK, Trapped, [BudgetNext]_allVars
  PROVE  Trapped'
<1> USE DEF TypeOK, BudgetTypeOK, Trapped, Labels, At, Goto
<1>1. CASE UNCHANGED allVars
  BY <1>1 DEF allVars, vars, budget
<1>2. ASSUME NEW t \in Threads, BudgetStep(t) PROVE Trapped'
  <2>1. CASE StartLock(t)
    BY <2>1 DEF StartLock, Lock
  <2>2. CASE SpinOn(t)
    BY <2>2 DEF SpinOn, Spin, SwapLocked, budget
  <2>3. CASE CountUnlock(t)
    <3>1. locked = LOCKED
      BY <2>3 DEF CountUnlock, UnlockSlow, HolderInv, LockedIffHeld, Holder, Holding
    <3> QED
      BY <2>3, <3>1 DEF CountUnlock, UnlockSlow, LockedOnly
  <2>4. CASE TryOnce(t) /\ UNCHANGED budget
    BY <2>4 DEF TryOnce, SwapLocked, budget
  <2>5. CASE (Trylock(t) \/ UnlockFast(t)) /\ UNCHANGED budget
    BY <2>5 DEF Trylock, SwapLocked, UnlockFast, budget
  <2>6. CASE (EnterSegment(t) \/ LeaveSegment(t)) /\ UNCHANGED budget
    BY <2>6 DEF EnterSegment, LeaveSegment, budget
  <2>7. CASE (Expire(t) \/ Interrupt(t)) /\ UNCHANGED budget
    BY <2>7 DEF Expire, Interrupt, budget
  <2>8. ~(DoubleBudget(t) \/ ResetAndRelease(t) \/ LoadWakes(t) \/ StoreWakes(t))
    BY DEF DoubleBudget, TimedReturn, ResetAndRelease, Release, LoadWakes,
       ClearContended, StoreWakes, WakeOne
  <2>9. ~(AnnounceWait(t) \/ TimedWait(t) \/ UntimedSwap(t) \/ UntimedWait(t)
          \/ CheckAtOnce(t) \/ CheckAfterDelay(t))
    BY DEF AnnounceWait, TimedWait, UntimedSwap, UntimedWait, CheckAtOnce,
       CheckAfterDelay, LeaveIfTaken
  <2> QED
    BY <1>2, <2>1, <2>2, <2>3, <2>4, <2>5, <2>6, <2>7, <2>8, <2>9
    DEF BudgetStep, OtherStep
<1> QED
  BY <1>1, <1>2 DEF BudgetNext

\* Once every waiter spins on a budget below zero and nobody is past the spin,
\* no unlock is ever slow again and the budget never raised.
THEOREM TrapIsFinalHolds == BudgetSpec => TrapIsFinal
<1>1. TypeOK /\ HolderInv /\ BudgetTypeOK /\ [BudgetNext]_allVars
        => [Trapped => Trapped']_allVars
  BY TrapStep
<1>2. BudgetSpec => []TypeOK /\ []HolderInv
  BY BudgetImplementsMutex, TypeCorrect, HolderCorrect, PTL DEF HolderInv
<1> QED
  BY <1>1, <1>2, BudgetTypeCorrect, PTL DEF BudgetSpec, TrapIsFinal
=============================================================================
