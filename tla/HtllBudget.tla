----------------------------- MODULE HtllBudget -----------------------------
(***************************************************************************)
(* The HTLL mutex with its adaptive spin budget (src/litl/src/htll.c:63,   *)
(* 87, 99-106, 114-117, 134): how long a waiter spins before it announces  *)
(* itself and sleeps.  Every step is a step of HtllMutex; the budget only  *)
(* decides whether a spin may end.                                         *)
(*                                                                         *)
(* ticks_spin is unsigned and copied to an int, which the loop compares as *)
(* an unsigned 64-bit number: below zero it lasts longer than anybody can  *)
(* wait.  A budget that is not negative is used up at some point.          *)
(***************************************************************************)
EXTENDS HtllMutex, Integers

CONSTANTS
  WordSize,              \* values of an unsigned int: 2^32
  HTLL_SPIN_TRIES_LOCK,  \* the first budget
  INCREASE_UNIT, DECREASE_UNIT,
  AdjustPeriod,          \* slow unlocks from one adjustment to the next: 2048
  WAKE_MAX_THRESHOLD, WAKE_MIN_THRESHOLD

ASSUME BudgetAssumption ==
  /\ WordSize \in Nat \ {0} /\ WordSize % 2 = 0
  /\ HTLL_SPIN_TRIES_LOCK \in 0 .. WordSize - 1
  /\ INCREASE_UNIT \in Nat /\ DECREASE_UNIT \in Nat
  /\ AdjustPeriod \in Nat \ {0}
  /\ WAKE_MAX_THRESHOLD \in Nat /\ WAKE_MIN_THRESHOLD \in 0 .. WAKE_MAX_THRESHOLD

VARIABLES
  ticks_spin,   \* the mutex's budget
  cnt_unlock,   \* slow unlocks, modulo AdjustPeriod
  cnt_wake,     \* wake-ups since the last adjustment, up to WakeCap
  resetDue,     \* the holder has adjusted the budget and not yet reset cnt_wake
  spin_ticks,   \* the budget of each thread's lock call
  loaded        \* cnt_wake as read by a thread about to store it incremented

budget  == <<ticks_spin, cnt_unlock, cnt_wake, resetDue, spin_ticks, loaded>>
allVars == <<vars, budget>>

Unsigned == 0 .. WordSize - 1
Signed   == -(WordSize \div 2) .. WordSize \div 2 - 1

\* Seeded fault: the lowered budget is cut off only where it is copied.
AsIs(x) == x

AsUnsigned(x) == x % WordSize
AsSigned(x)   == LET u == AsUnsigned(x)
                 IN  IF u < WordSize \div 2 THEN u ELSE u - WordSize

\* The counter is only compared with the thresholds and incremented: what is
\* above both need not be told apart.
WakeCap == WAKE_MAX_THRESHOLD + 1
Counted(n) == IF n < WakeCap THEN n + 1 ELSE WakeCap

BudgetTypeOK ==
  /\ ticks_spin \in Unsigned
  /\ cnt_unlock \in 0 .. AdjustPeriod - 1
  /\ cnt_wake \in 0 .. WakeCap
  /\ resetDue \in BOOLEAN
  /\ spin_ticks \in [Threads -> Signed]
  /\ loaded \in [Threads -> 0 .. WakeCap]

BudgetInit ==
  /\ Init
  /\ ticks_spin = HTLL_SPIN_TRIES_LOCK
  /\ cnt_unlock = 0
  /\ cnt_wake = 0
  /\ resetDue = FALSE
  /\ spin_ticks = [t \in Threads |-> 0]
  /\ loaded = [t \in Threads |-> 0]

-----------------------------------------------------------------------------
(* Locking.                                                                *)

StartLock(t) ==
  /\ Lock(t)
  /\ spin_ticks' = [spin_ticks EXCEPT ![t] = AsSigned(ticks_spin)]
  /\ UNCHANGED <<ticks_spin, cnt_unlock, cnt_wake, resetDue, loaded>>

\* Seeded faults: the budget is compared as a signed number; all of it is spent
\* between two tries.
SpinSigned(t) == Spin(t) /\ UNCHANGED budget
SpinUntried(t) == spin_ticks[t] >= 0 /\ Spin(t) /\ UNCHANGED budget

\* The loop is left for the sleep only when the budget is used up.
SpinOn(t) ==
  /\ Spin(t)
  /\ spin_ticks[t] < 0 => pc'[t] # "swap"
  /\ UNCHANGED budget

\* After a timed sleep the call spins twice as long.
DoubleBudget(t) ==
  /\ TimedReturn(t)
  /\ spin_ticks' = [spin_ticks EXCEPT ![t] = AsSigned(2 * @)]
  /\ UNCHANGED <<ticks_spin, cnt_unlock, cnt_wake, resetDue, loaded>>

-----------------------------------------------------------------------------
(* Unlocking.                                                              *)

\* adjust_spin_ticks: many wake-ups ask for longer spinning, few for shorter.
\* The counter it reads may be incremented by others before it resets it.
Adjusted ==
  IF cnt_wake > WAKE_MAX_THRESHOLD THEN AsUnsigned(ticks_spin + INCREASE_UNIT)
  ELSE IF cnt_wake < WAKE_MIN_THRESHOLD
       THEN AsUnsigned(ticks_spin - DECREASE_UNIT)
  ELSE ticks_spin

\* A slow unlock is counted by the holder; every AdjustPeriod-th adjusts.
CountUnlock(t) ==
  /\ UnlockSlow(t)
  /\ cnt_unlock' = (cnt_unlock + 1) % AdjustPeriod
  /\ resetDue' = (cnt_unlock' = 0)
  /\ ticks_spin' = IF resetDue' THEN Adjusted ELSE ticks_spin
  /\ UNCHANGED <<cnt_wake, spin_ticks, loaded>>

ResetAndRelease(t) ==
  /\ Release(t)
  /\ cnt_wake' = IF resetDue THEN 0 ELSE cnt_wake
  /\ resetDue' = FALSE
  /\ UNCHANGED <<ticks_spin, cnt_unlock, spin_ticks, loaded>>

\* cnt_wake++ is a load and a store, by a thread that holds nothing.
LoadWakes(t) ==
  /\ ClearContended(t)
  /\ loaded' = [loaded EXCEPT ![t] = cnt_wake]
  /\ UNCHANGED <<ticks_spin, cnt_unlock, cnt_wake, resetDue, spin_ticks>>

\* Seeded fault: the wake-up itself is left to an adjustment that is due.
StoreWakesUnlessDue(t) ==
  /\ At(t, "wake")
  /\ IF cnt_unlock = 0
     THEN Goto(t, "idle") /\ UNCHANGED <<locked, contended, waitq, segmentVars>>
     ELSE WakeOne(t)
  /\ cnt_wake' = Counted(loaded[t])
  /\ loaded' = [loaded EXCEPT ![t] = 0]
  /\ UNCHANGED <<ticks_spin, cnt_unlock, resetDue, spin_ticks>>

StoreWakes(t) ==
  /\ WakeOne(t)
  /\ cnt_wake' = Counted(loaded[t])
  /\ loaded' = [loaded EXCEPT ![t] = 0]
  /\ UNCHANGED <<ticks_spin, cnt_unlock, resetDue, spin_ticks>>

-----------------------------------------------------------------------------
OtherStep(t) ==
  \/ TryOnce(t) \/ AnnounceWait(t) \/ TimedWait(t)
  \/ UntimedSwap(t) \/ UntimedWait(t) \/ Trylock(t) \/ UnlockFast(t)
  \/ CheckAtOnce(t) \/ CheckAfterDelay(t)
  \/ EnterSegment(t) \/ LeaveSegment(t) \/ Expire(t) \/ Interrupt(t)

BudgetStep(t) ==
  \/ StartLock(t) \/ SpinOn(t) \/ DoubleBudget(t)
  \/ CountUnlock(t) \/ ResetAndRelease(t) \/ LoadWakes(t) \/ StoreWakes(t)
  \/ OtherStep(t) /\ UNCHANGED budget

BudgetNext == \E t \in Threads : BudgetStep(t)

BudgetSpec == BudgetInit /\ [][BudgetNext]_allVars

\* As in HtllMutex: a thread inside lock or unlock is scheduled, timers fire.
BudgetFairness ==
  \A t \in Threads :
    /\ WF_allVars(BudgetStep(t) /\ (LockStep(t) \/ UnlockStep(t)))
    /\ WF_allVars(BudgetStep(t) /\ Expire(t))

FairBudgetSpec == BudgetSpec /\ BudgetFairness

-----------------------------------------------------------------------------
(* Properties.                                                             *)

\* No thread is left that could mark the word contended: the mutex's budget and
\* those of all calls in progress are below zero, and nobody has got past the
\* spin.
Trapped ==
  /\ AsSigned(ticks_spin) < 0
  /\ contended = UNCONTENDED
  /\ resetDue = FALSE
  /\ \A t \in Threads :
       /\ pc[t] \in {"try8", "spin"} => spin_ticks[t] < 0
       /\ pc[t] \in {"idle", "try8", "spin", "cs"}

\* Lowered below zero (htll.c:104, with no floor) and doubled past it (87), the
\* budget stays there: with nobody contending every unlock is fast (110), no
\* unlock is counted (114) and no adjustment ever raises it again (102).
\* Nobody sleeps on such a mutex any more, whatever its threads do.
TrapIsFinal == [][Trapped => Trapped']_allVars

\* A mutex with a runaway budget still works for those that are awake: whoever
\* spins without end tries the word in every round (htll.c:71-74), and whoever
\* leaves the spin marks it and looks again (75-90), so a free mutex does not stay
\* free beside a running waiter, whether threads are in segments or not.  Those
\* asleep are another matter: see AcquireProgress and NoStrandedSleeper.
BudgetProgress ==
  (locked = UNLOCKED /\ \E t \in Threads \ waitq : pc[t] \in Waiting)
    ~> locked = LOCKED
=============================================================================
