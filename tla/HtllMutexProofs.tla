-------------------------- MODULE HtllMutexProofs --------------------------
(***************************************************************************)
(* Theorems about the HTLL mutex, for any set of threads.                  *)
(*                                                                         *)
(* Type correctness and mutual exclusion hold however segments are used.   *)
(* The wake-up argument needs EpochThreads = {}: a timed waiter that is    *)
(* woken takes the mutex without marking the word contended.               *)
(***************************************************************************)
EXTENDS HtllMutex, TLAPS

\* The actions by the part of the state they touch, for the case analyses.
USE DEF UNLOCKED, LOCKED, UNCONTENDED, CONTENDED

-----------------------------------------------------------------------------
(* Type correctness.                                                       *)

\* Every step of the mutex code keeps the word two one-bit flags, and every
\* thread at a known place in it.
LEMMA TypeStep == TypeOK /\ [Next]_vars => TypeOK'
<1> SUFFICES ASSUME TypeOK, [Next]_vars PROVE TypeOK'
  OBVIOUS
<1> USE DEF TypeOK, Labels, Waiting, Holding, Leaving, At, Goto, segmentVars
<1>1. CASE UNCHANGED vars
  BY <1>1 DEF vars
<1>2. ASSUME NEW t \in Threads, LockStep(t) PROVE TypeOK'
  BY <1>2 DEF LockStep, TryOnce, Spin, AnnounceWait, TimedWait, TimedReturn,
     UntimedSwap, UntimedWait, SwapLocked, SwapContended, FutexWait
<1>3. ASSUME NEW t \in Threads, UnlockStep(t) PROVE TypeOK'
  BY <1>3 DEF UnlockStep, Release, CheckAtOnce, CheckAfterDelay, LeaveIfTaken,
     ClearContended, WakeOne
<1>4. ASSUME NEW t \in Threads, ProgramStep(t) PROVE TypeOK'
  BY <1>4 DEF ProgramStep, Lock, Trylock, SwapLocked, UnlockFast, UnlockSlow,
     EnterSegment, LeaveSegment
<1>5. ASSUME NEW t \in Threads, Expire(t) \/ Interrupt(t) PROVE TypeOK'
  BY <1>5 DEF Expire, Interrupt
<1> QED
  BY <1>1, <1>2, <1>3, <1>4, <1>5 DEF Next

\* Type correctness of the mutex, whatever the threads do.
THEOREM TypeCorrect == Spec => []TypeOK
<1>1. Init => TypeOK
  BY DEF Init, TypeOK, Labels
<1> QED
  BY <1>1, TypeStep, PTL DEF Spec

-----------------------------------------------------------------------------
(* Mutual exclusion.  The inductive invariant ties the low byte of the     *)
(* word to the threads: without LockedIffHeld nothing says that a thread   *)
(* which reads UNLOCKED is alone, or that a release frees only its own.    *)

HolderInv == MutualExclusion /\ LockedIffHeld

\* An exchange of the low byte by a thread that does not hold the mutex makes
\* it the holder exactly when no one was.
LEMMA SwapLockedKeepsHolder ==
  ASSUME TypeOK, HolderInv, NEW t \in Threads, ~Holder(t),
         NEW missed, missed \cap Holding = {},
         SwapLocked(t, "cs", missed)
  PROVE  HolderInv'
<1> USE DEF TypeOK, HolderInv, MutualExclusion, LockedIffHeld, Holder, Holding
<1>1. CASE locked = UNLOCKED
  BY <1>1 DEF SwapLocked, Goto
<1>2. CASE locked = LOCKED
  <2>1. PICK l \in missed : pc' = [pc EXCEPT ![t] = l]
    BY <1>2, LOCKED # UNLOCKED DEF SwapLocked, Goto
  <2> QED
    BY <1>2, <2>1 DEF SwapLocked
<1> QED
  BY <1>1, <1>2

\* So does an exchange of the whole word.
LEMMA SwapContendedKeepsHolder ==
  ASSUME TypeOK, HolderInv, NEW t \in Threads, ~Holder(t),
         NEW missed, missed \notin Holding,
         SwapContended(t, "cs", missed)
  PROVE  HolderInv'
BY DEF TypeOK, HolderInv, MutualExclusion, LockedIffHeld, Holder, Holding,
   SwapContended, Goto

\* A step that leaves the low byte and the set of holders alone.
LEMMA SameHoldersKeepHolder ==
  ASSUME HolderInv, locked' = locked,
         \A t \in Threads : Holder(t)' <=> Holder(t)
  PROVE  HolderInv'
BY DEF HolderInv, MutualExclusion, LockedIffHeld

\* The holder gives the mutex up and leaves the holding labels.
LEMMA ReleaseKeepsHolder ==
  ASSUME TypeOK, HolderInv, NEW t \in Threads, Holder(t),
         NEW l, l \notin Holding,
         locked' = UNLOCKED, pc' = [pc EXCEPT ![t] = l]
  PROVE  HolderInv'
BY DEF TypeOK, HolderInv, MutualExclusion, LockedIffHeld, Holder

LEMMA HolderStep == TypeOK /\ HolderInv /\ [Next]_vars => HolderInv'
<1> SUFFICES ASSUME TypeOK, HolderInv, [Next]_vars PROVE HolderInv'
  OBVIOUS
<1> USE DEF At, Holder, Holding
<1>1. CASE UNCHANGED vars
  BY <1>1, SameHoldersKeepHolder DEF vars
<1>2. ASSUME NEW t \in Threads, LockStep(t) PROVE HolderInv'
  <2>1. CASE TryOnce(t)
    BY <2>1, SwapLockedKeepsHolder DEF TryOnce
  <2>2. CASE Spin(t)
    BY <2>2, SwapLockedKeepsHolder DEF Spin
  <2>3. CASE AnnounceWait(t)
    BY <2>3, SwapContendedKeepsHolder DEF AnnounceWait
  <2>4. CASE TimedWait(t) \/ UntimedWait(t)
    BY <2>4, SameHoldersKeepHolder
    DEF TimedWait, UntimedWait, FutexWait, Goto, TypeOK
  <2>5. CASE TimedReturn(t)
    BY <2>5, SameHoldersKeepHolder DEF TimedReturn, Goto, TypeOK
  <2>6. CASE UntimedSwap(t)
    BY <2>6, SwapContendedKeepsHolder DEF UntimedSwap
  <2> QED
    BY <1>2, <2>1, <2>2, <2>3, <2>4, <2>5, <2>6 DEF LockStep
<1>3. ASSUME NEW t \in Threads, UnlockStep(t) PROVE HolderInv'
  <2>1. CASE Release(t)
    BY <2>1, ReleaseKeepsHolder DEF Release, Goto
  <2>2. CASE CheckAtOnce(t) \/ CheckAfterDelay(t)
    BY <2>2, SameHoldersKeepHolder
    DEF CheckAtOnce, CheckAfterDelay, LeaveIfTaken, Goto, TypeOK
  <2>3. CASE ClearContended(t) \/ WakeOne(t)
    BY <2>3, SameHoldersKeepHolder DEF ClearContended, WakeOne, Goto, TypeOK
  <2> QED
    BY <1>3, <2>1, <2>2, <2>3 DEF UnlockStep
<1>4. ASSUME NEW t \in Threads, ProgramStep(t) PROVE HolderInv'
  <2>1. CASE Trylock(t)
    BY <2>1, SwapLockedKeepsHolder DEF Trylock
  <2>2. CASE UnlockFast(t)
    BY <2>2, ReleaseKeepsHolder DEF UnlockFast, Goto
  <2>3. CASE Lock(t) \/ UnlockSlow(t)
    BY <2>3, SameHoldersKeepHolder DEF Lock, UnlockSlow, Goto, TypeOK
  <2>4. CASE EnterSegment(t) \/ LeaveSegment(t)
    BY <2>4, SameHoldersKeepHolder DEF EnterSegment, LeaveSegment
  <2> QED
    BY <1>4, <2>1, <2>2, <2>3, <2>4 DEF ProgramStep
<1>5. ASSUME NEW t \in Threads, Expire(t) \/ Interrupt(t) PROVE HolderInv'
  BY <1>5, SameHoldersKeepHolder DEF Expire, Interrupt, segmentVars
<1> QED
  BY <1>1, <1>2, <1>3, <1>4, <1>5 DEF Next

\* The low byte of the word is set exactly while a thread holds the mutex, and
\* then one thread does: exchanges that fail and unlockers that come late do
\* not disturb it.
THEOREM HolderCorrect == Spec => [](MutualExclusion /\ LockedIffHeld)
<1>1. Init => HolderInv
  BY DEF Init, HolderInv, MutualExclusion, LockedIffHeld, Holder, Holding
<1>2. TypeOK /\ HolderInv /\ [Next]_vars => HolderInv'
  BY HolderStep
<1>3. HolderInv => MutualExclusion /\ LockedIffHeld
  BY DEF HolderInv
<1> QED
  BY <1>1, <1>2, <1>3, TypeCorrect, PTL DEF Spec

\* At most one thread is inside the critical section.
THEOREM MutualExclusionHolds == Spec => []MutualExclusion
BY HolderCorrect, PTL

-----------------------------------------------------------------------------
(* No lost wake-up, when no thread uses segments.                          *)

\* Every step but the wake-up itself passes the duty on, with segments or
\* without: an exchange of the low byte leaves "contended" set, one of the word
\* sets it, and an unlocker returns early only when the mutex is taken.
LEMMA DutyPassesOn ==
  ASSUME TypeOK, WakeDue, NEW t \in Threads, ~WakeOne(t),
         ProgramStep(t) \/ LockStep(t) \/ UnlockStep(t)
  PROVE  WakeDue'
<1> USE DEF TypeOK, WakeDue, LockedAndContended, Running, At, Goto, segmentVars
<1>1. CASE TryOnce(t) \/ Spin(t) \/ Trylock(t)
  <2>1. PICK l \in {"cs", "spin", "swap", "idle"} :
          /\ locked' = LOCKED /\ UNCHANGED <<contended, waitq>>
          /\ pc' = [pc EXCEPT ![t] = l]
    BY <1>1 DEF TryOnce, Spin, Trylock, SwapLocked
  <2>2. pc[t] \in {"try8", "spin", "idle"}
    BY <1>1 DEF TryOnce, Spin, Trylock
  <2> QED
    BY <2>1, <2>2
<1>2. CASE AnnounceWait(t) \/ UntimedSwap(t)
  BY <1>2 DEF AnnounceWait, UntimedSwap, SwapContended
<1>3. CASE TimedWait(t) \/ UntimedWait(t)
  <2>1. CASE LockedAndContended
    BY <1>3, <2>1 DEF TimedWait, UntimedWait, FutexWait
  <2>2. CASE ~LockedAndContended
    BY <1>3, <2>2 DEF TimedWait, UntimedWait, FutexWait
  <2> QED
    BY <2>1, <2>2
<1>4. CASE TimedReturn(t) \/ Lock(t) \/ UnlockSlow(t)
  BY <1>4 DEF TimedReturn, Lock, UnlockSlow
<1>5. CASE UnlockFast(t)
  BY <1>5 DEF UnlockFast, LockedOnly
<1>6. CASE Release(t)
  BY <1>6 DEF Release
<1>7. CASE CheckAtOnce(t)
  BY <1>7 DEF CheckAtOnce, LeaveIfTaken
<1>8. CASE CheckAfterDelay(t)
  BY <1>8 DEF CheckAfterDelay, LeaveIfTaken
<1>9. CASE ClearContended(t)
  BY <1>9 DEF ClearContended
<1>10. CASE EnterSegment(t) \/ LeaveSegment(t)
  BY <1>10 DEF EnterSegment, LeaveSegment
<1> QED
  BY <1>1, <1>2, <1>3, <1>4, <1>5, <1>6, <1>7, <1>8, <1>9, <1>10
  DEF ProgramStep, LockStep, UnlockStep

\* Nobody is in a segment, or in the loop of those who are.
NoSegments == \A t \in Threads : ~inSegment[t] /\ pc[t] \notin {"tpark", "tret"}

LEMMA NoSegmentsStep ==
  ASSUME EpochThreads = {}
  PROVE  TypeOK /\ NoSegments /\ [Next]_vars => NoSegments'
<1> SUFFICES ASSUME TypeOK, NoSegments, [Next]_vars PROVE NoSegments'
  OBVIOUS
<1> USE DEF TypeOK, NoSegments, Goto, At, segmentVars
<1>1. CASE UNCHANGED vars
  BY <1>1 DEF vars
<1>2. ASSUME NEW t \in Threads, LockStep(t) PROVE NoSegments'
  BY <1>2 DEF LockStep, TryOnce, Spin, AnnounceWait, TimedWait, TimedReturn,
     UntimedSwap, UntimedWait, SwapLocked, SwapContended, FutexWait
<1>3. ASSUME NEW t \in Threads, UnlockStep(t) PROVE NoSegments'
  BY <1>3 DEF UnlockStep, Release, CheckAtOnce, CheckAfterDelay, LeaveIfTaken,
     ClearContended, WakeOne
<1>4. ASSUME NEW t \in Threads, ProgramStep(t) PROVE NoSegments'
  BY <1>4 DEF ProgramStep, Lock, Trylock, SwapLocked, UnlockFast, UnlockSlow,
     EnterSegment, LeaveSegment
<1>5. ASSUME NEW t \in Threads, Expire(t) \/ Interrupt(t) PROVE NoSegments'
  BY <1>5 DEF Expire, Interrupt
<1> QED
  BY <1>1, <1>2, <1>3, <1>4, <1>5 DEF Next

\* Then every sleeper sleeps in the loop that marks the word contended again as
\* soon as it runs.
PlainInv == NoSegments /\ \A t \in waitq : pc[t] = "uswap"

LEMMA PlainStep ==
  ASSUME EpochThreads = {}
  PROVE  TypeOK /\ PlainInv /\ [Next]_vars => PlainInv'
<1> SUFFICES ASSUME TypeOK, PlainInv, [Next]_vars
             PROVE  \A u \in waitq' : pc'[u] = "uswap"
  BY NoSegmentsStep DEF PlainInv
<1> USE DEF TypeOK, PlainInv, NoSegments, Running, Goto, At
<1>1. CASE UNCHANGED vars
  BY <1>1 DEF vars
<1>2. ASSUME NEW t \in Threads, LockStep(t)
      PROVE  \A u \in waitq' : pc'[u] = "uswap"
  BY <1>2 DEF LockStep, TryOnce, Spin, AnnounceWait, TimedWait, TimedReturn,
     UntimedSwap, UntimedWait, SwapLocked, SwapContended, FutexWait
<1>3. ASSUME NEW t \in Threads, UnlockStep(t)
      PROVE  \A u \in waitq' : pc'[u] = "uswap"
  BY <1>3 DEF UnlockStep, Release, CheckAtOnce, CheckAfterDelay, LeaveIfTaken,
     ClearContended, WakeOne
<1>4. ASSUME NEW t \in Threads, ProgramStep(t)
      PROVE  \A u \in waitq' : pc'[u] = "uswap"
  BY <1>4 DEF ProgramStep, Lock, Trylock, SwapLocked, UnlockFast, UnlockSlow,
     EnterSegment, LeaveSegment
<1>5. ASSUME NEW t \in Threads, Expire(t) \/ Interrupt(t)
      PROVE  \A u \in waitq' : pc'[u] = "uswap"
  BY <1>5 DEF Expire, Interrupt
<1> QED
  BY <1>1, <1>2, <1>3, <1>4, <1>5 DEF Next

WakeInv == PlainInv /\ NoLostWakeup

LEMMA WakeStep ==
  ASSUME EpochThreads = {}
  PROVE  TypeOK /\ WakeInv /\ [Next]_vars => WakeInv'
<1> SUFFICES ASSUME TypeOK, WakeInv, [Next]_vars, UntimedSleepers' # {}
             PROVE  WakeDue'
  BY PlainStep DEF WakeInv, NoLostWakeup
<1> USE DEF WakeInv, PlainInv, NoLostWakeup, UntimedSleepers
<1>1. CASE UNCHANGED vars
  BY <1>1 DEF vars, WakeDue, LockedAndContended, Running
<1>2. ASSUME NEW t \in Threads, UntimedWait(t) PROVE WakeDue'
  \* It sleeps because the word is 257; otherwise it is about to swap again.
  <2>1. CASE LockedAndContended
    BY <1>2, <2>1 DEF UntimedWait, FutexWait, WakeDue, LockedAndContended
  <2>2. CASE ~LockedAndContended
    BY <1>2, <2>2 DEF UntimedWait, FutexWait, WakeDue, Running, At, Goto, TypeOK
  <2> QED
    BY <2>1, <2>2
<1>3. ASSUME NEW t \in Threads, WakeOne(t) PROVE WakeDue'
  <2>1. PICK w \in waitq : waitq' = waitq \ {w}
    BY <1>3 DEF WakeOne
  <2>2. w \in Threads /\ w # t /\ pc[w] = "uswap"
    BY <1>3, <2>1 DEF WakeOne, At, Running, TypeOK
  <2> QED
    BY <1>3, <2>1, <2>2 DEF WakeOne, WakeDue, Running, Goto, TypeOK
<1>4. ASSUME NEW t \in Threads, Expire(t) \/ Interrupt(t) PROVE WakeDue'
  BY <1>4 DEF Expire, Interrupt, WakeDue, Running
<1>5. ASSUME NEW t \in Threads, ProgramStep(t) \/ LockStep(t) \/ UnlockStep(t),
             ~UntimedWait(t), ~WakeOne(t)
      PROVE  WakeDue'
  <2>1. waitq' \subseteq waitq
    BY <1>5 DEF ProgramStep, Lock, Trylock, UnlockFast, UnlockSlow, EnterSegment,
       LeaveSegment, LockStep, TryOnce, Spin, AnnounceWait, TimedWait, TimedReturn,
       UntimedSwap, SwapLocked, SwapContended, UnlockStep, Release, CheckAtOnce,
       CheckAfterDelay, LeaveIfTaken, ClearContended, NoSegments, At
  <2> QED
    BY <1>5, <2>1, DutyPassesOn
<1> QED
  BY <1>1, <1>2, <1>3, <1>4, <1>5 DEF Next

\* Without segments a thread asleep on the mutex always has somebody bound to
\* wake it, for any number of threads: the early returns of the unlock and its
\* late clear of the contended byte lose no wake-up.
THEOREM NoLostWakeupHolds ==
  ASSUME EpochThreads = {}
  PROVE  Spec => []NoLostWakeup
<1>1. Init => WakeInv
  BY DEF Init, WakeInv, PlainInv, NoSegments, NoLostWakeup, UntimedSleepers
<1>2. TypeOK /\ WakeInv /\ [Next]_vars => WakeInv'
  BY WakeStep
<1>3. WakeInv => NoLostWakeup
  BY DEF WakeInv
<1> QED
  BY <1>1, <1>2, <1>3, TypeCorrect, PTL DEF Spec

-----------------------------------------------------------------------------
(* Whose use of the mutex is all of one kind strands nobody.               *)

\* Without plain locking whoever waits does so inside a segment, for so long
\* and no longer.
TimedInv ==
  \A t \in Threads :
    /\ pc[t] \notin {"uswap", "upark"}
    /\ pc[t] \in Waiting => inSegment[t]

LEMMA TimedStep ==
  ASSUME PlainThreads = {}
  PROVE  TypeOK /\ TimedInv /\ [Next]_vars => TimedInv'
<1> SUFFICES ASSUME TypeOK, TimedInv, [Next]_vars PROVE TimedInv'
  OBVIOUS
<1> USE DEF TypeOK, TimedInv, Waiting, Goto, At, segmentVars
<1>1. CASE UNCHANGED vars
  BY <1>1 DEF vars
<1>2. ASSUME NEW t \in Threads, LockStep(t) PROVE TimedInv'
  BY <1>2 DEF LockStep, TryOnce, Spin, AnnounceWait, TimedWait, TimedReturn,
     UntimedSwap, UntimedWait, SwapLocked, SwapContended, FutexWait
<1>3. ASSUME NEW t \in Threads, UnlockStep(t) PROVE TimedInv'
  BY <1>3 DEF UnlockStep, Release, CheckAtOnce, CheckAfterDelay, LeaveIfTaken,
     ClearContended, WakeOne
<1>4. ASSUME NEW t \in Threads, ProgramStep(t) PROVE TimedInv'
  BY <1>4 DEF ProgramStep, Lock, Trylock, SwapLocked, UnlockFast, UnlockSlow,
     EnterSegment, LeaveSegment
<1>5. ASSUME NEW t \in Threads, Expire(t) \/ Interrupt(t) PROVE TimedInv'
  BY <1>5 DEF Expire, Interrupt
<1> QED
  BY <1>1, <1>2, <1>3, <1>4, <1>5 DEF Next

\* The fast path leaves nobody asleep on a free mutex that is locked outside of
\* segments only, or inside of them only: it takes a timed waiter that uses up
\* the wake-up of an untimed one.
THEOREM NoStrandedSleeperHolds ==
  ASSUME EpochThreads = {} \/ PlainThreads = {}
  PROVE  Spec => []NoStrandedSleeper
<1>1. CASE EpochThreads = {}
  <2>1. Init => WakeInv
    BY DEF Init, WakeInv, PlainInv, NoSegments, NoLostWakeup, UntimedSleepers
  <2>2. TypeOK /\ WakeInv /\ [Next]_vars => WakeInv'
    BY <1>1, WakeStep
  <2>3. TypeOK /\ WakeInv => NoStrandedSleeper
    BY DEF TypeOK, WakeInv, PlainInv, NoLostWakeup, WakeDue, LockedAndContended,
       Running, NoStrandedSleeper, LOCKED, UNLOCKED
  <2> QED
    BY <2>1, <2>2, <2>3, TypeCorrect, PTL DEF Spec
<1>2. CASE PlainThreads = {}
  <2>1. Init => TimedInv
    BY DEF Init, TimedInv, Waiting
  <2>2. TypeOK /\ TimedInv /\ [Next]_vars => TimedInv'
    BY <1>2, TimedStep
  <2>3. TypeOK /\ TimedInv => NoStrandedSleeper
    BY DEF TypeOK, TimedInv, NoStrandedSleeper, UntimedSleepers
  <2> QED
    BY <2>1, <2>2, <2>3, TypeCorrect, PTL DEF Spec
<1> QED
  BY <1>1, <1>2

-----------------------------------------------------------------------------
(* The code implements the abstract mutex.                                 *)

\* What the program sees of the mutex.
ViewOf == [t \in Threads |-> View(pc[t])]

\* A step of one thread changes only what the program sees of that thread.
LEMMA ViewMoves ==
  ASSUME TypeOK, NEW t \in Threads, NEW l, pc' = [pc EXCEPT ![t] = l]
  PROVE  /\ ViewOf[t] = View(pc[t])
         /\ ViewOf' = [ViewOf EXCEPT ![t] = View(l)]
BY DEF TypeOK, ViewOf

\* A step between two places the program cannot tell apart.
LEMMA Invisible ==
  ASSUME TypeOK, NEW t \in Threads, NEW l, pc' = [pc EXCEPT ![t] = l],
         View(l) = View(pc[t])
  PROVE  ViewOf' = ViewOf
BY DEF TypeOK, ViewOf

\* With the low byte clear nobody holds the mutex in the abstract either.
LEMMA UnlockedIsFree ==
  ASSUME TypeOK, HolderInv, locked = UNLOCKED
  PROVE  Mutex!Free
<1>1. locked # LOCKED
  OBVIOUS
<1>2. \A t \in Threads : pc[t] \notin Holding
  BY <1>1 DEF HolderInv, LockedIffHeld, Holder
<1>3. \A t \in Threads : View(pc[t]) # "holding"
  BY <1>2 DEF View
<1> QED
  BY <1>3 DEF Mutex!Free

\* An exchange by a waiter either grants it the mutex or is not seen.
LEMMA WaiterSwaps ==
  ASSUME TypeOK, HolderInv, NEW t \in Threads, pc[t] \in Waiting,
         NEW l, pc' = [pc EXCEPT ![t] = l],
         \/ locked = UNLOCKED /\ l = "cs"
         \/ l \in Waiting
  PROVE  Mutex!Next \/ ViewOf' = ViewOf
<1>1. CASE locked = UNLOCKED /\ l = "cs"
  <2>1. View(pc[t]) = "waiting" /\ View(l) = "holding"
    BY <1>1 DEF View, Waiting, Holding
  <2>2. ViewOf[t] = "waiting" /\ ViewOf' = [ViewOf EXCEPT ![t] = "holding"]
    BY <2>1, ViewMoves
  <2>3. Mutex!Grant(t)
    BY <1>1, <2>2, UnlockedIsFree DEF Mutex!Grant, Mutex!Move, ViewOf
  <2> QED
    BY <2>3 DEF Mutex!Next
<1>2. CASE l \in Waiting
  BY <1>2, Invisible DEF View
<1> QED
  BY <1>1, <1>2

LEMMA RefinementStep ==
  TypeOK /\ HolderInv /\ [Next]_vars => [Mutex!Next]_Mutex!vars
<1> SUFFICES ASSUME TypeOK, HolderInv, [Next]_vars
             PROVE  Mutex!Next \/ ViewOf' = ViewOf
  BY DEF ViewOf, Mutex!vars
<1> USE DEF At, Goto
<1>1. CASE UNCHANGED vars
  BY <1>1 DEF vars, ViewOf
<1>2. ASSUME NEW t \in Threads, LockStep(t)
      PROVE  Mutex!Next \/ ViewOf' = ViewOf
  <2> USE DEF Waiting
  <2>1. CASE TryOnce(t)
    BY <2>1, WaiterSwaps DEF TryOnce, SwapLocked
  <2>2. CASE Spin(t)
    <3>1. PICK l \in {"cs", "spin", "swap"} :
             /\ pc' = [pc EXCEPT ![t] = l]
             /\ l = "cs" => locked = UNLOCKED
      BY <2>2 DEF Spin, SwapLocked
    <3> QED
      BY <2>2, <3>1, WaiterSwaps DEF Spin
  <2>3. CASE AnnounceWait(t) \/ UntimedSwap(t)
    <3>1. PICK l \in {"cs", "tpark", "uswap", "upark"} :
             /\ pc' = [pc EXCEPT ![t] = l]
             /\ l = "cs" => locked = UNLOCKED
      BY <2>3 DEF AnnounceWait, UntimedSwap, SwapContended
    <3> QED
      BY <2>3, <3>1, WaiterSwaps DEF AnnounceWait, UntimedSwap
  <2>4. CASE TimedWait(t) \/ TimedReturn(t) \/ UntimedWait(t)
    BY <2>4, Invisible
    DEF TimedWait, TimedReturn, UntimedWait, FutexWait, View
  <2> QED
    BY <1>2, <2>1, <2>2, <2>3, <2>4 DEF LockStep
<1>3. ASSUME NEW t \in Threads, UnlockStep(t)
      PROVE  Mutex!Next \/ ViewOf' = ViewOf
  <2>1. CASE Release(t)
    <3> View("rel") = "holding" /\ View("chk1") = "out"
      BY DEF View, Waiting, Holding
    <3>1. ViewOf[t] = "holding" /\ ViewOf' = [ViewOf EXCEPT ![t] = "out"]
      BY <2>1, ViewMoves DEF Release
    <3>2. Mutex!Unlock(t)
      BY <3>1 DEF Mutex!Unlock, Mutex!Move, ViewOf
    <3> QED
      BY <3>2 DEF Mutex!Next
  <2>2. CASE CheckAtOnce(t) \/ CheckAfterDelay(t)
    BY <2>2, Invisible
    DEF CheckAtOnce, CheckAfterDelay, LeaveIfTaken, View, Waiting, Holding
  <2>3. CASE ClearContended(t) \/ WakeOne(t)
    BY <2>3, Invisible DEF ClearContended, WakeOne, View, Waiting, Holding
  <2> QED
    BY <1>3, <2>1, <2>2, <2>3 DEF UnlockStep
<1>4. ASSUME NEW t \in Threads, ProgramStep(t)
      PROVE  Mutex!Next \/ ViewOf' = ViewOf
  <2>1. CASE Lock(t)
    <3>1. ViewOf[t] = "out" /\ ViewOf' = [ViewOf EXCEPT ![t] = "waiting"]
      BY <2>1, ViewMoves DEF Lock, View, Waiting, Holding
    <3>2. Mutex!Call(t)
      BY <3>1 DEF Mutex!Call, Mutex!Move, ViewOf
    <3> QED
      BY <3>2 DEF Mutex!Next
  <2>2. CASE Trylock(t)
    <3>1. CASE locked = UNLOCKED
      <4>1. ViewOf[t] = "out" /\ ViewOf' = [ViewOf EXCEPT ![t] = "holding"]
        BY <2>2, <3>1, ViewMoves DEF Trylock, SwapLocked, View, Waiting, Holding
      <4>2. Mutex!TryLock(t)
        BY <3>1, <4>1, UnlockedIsFree DEF Mutex!TryLock, Mutex!Move, ViewOf
      <4> QED
        BY <4>2 DEF Mutex!Next
    <3>2. CASE locked # UNLOCKED
      BY <2>2, <3>2, Invisible DEF Trylock, SwapLocked
    <3> QED
      BY <3>1, <3>2
  <2>3. CASE UnlockFast(t)
    <3> View("cs") = "holding" /\ View("idle") = "out"
      BY DEF View, Waiting, Holding
    <3>1. ViewOf[t] = "holding" /\ ViewOf' = [ViewOf EXCEPT ![t] = "out"]
      BY <2>3, ViewMoves DEF UnlockFast
    <3>2. Mutex!Unlock(t)
      BY <3>1 DEF Mutex!Unlock, Mutex!Move, ViewOf
    <3> QED
      BY <3>2 DEF Mutex!Next
  <2>4. CASE UnlockSlow(t)
    BY <2>4, Invisible DEF UnlockSlow, View, Waiting, Holding
  <2>5. CASE EnterSegment(t) \/ LeaveSegment(t)
    BY <2>5 DEF EnterSegment, LeaveSegment, ViewOf
  <2> QED
    BY <1>4, <2>1, <2>2, <2>3, <2>4, <2>5 DEF ProgramStep
<1>5. ASSUME NEW t \in Threads, Expire(t) \/ Interrupt(t)
      PROVE  Mutex!Next \/ ViewOf' = ViewOf
  BY <1>5 DEF Expire, Interrupt, ViewOf
<1> QED
  BY <1>1, <1>2, <1>3, <1>4, <1>5 DEF Next

\* The HTLL mutex implements the abstract Pthread mutex, with any mix of
\* threads inside and outside segments.
THEOREM ImplementsMutexHolds == Spec => ImplementsMutex
<1>1. Init => Mutex!Init
  BY DEF Init, Mutex!Init, View, Waiting, Holding
<1>2. TypeOK /\ HolderInv /\ [Next]_vars => [Mutex!Next]_Mutex!vars
  BY RefinementStep
<1>3. Spec => []HolderInv
  BY HolderCorrect DEF HolderInv
<1> QED
  BY <1>1, <1>2, <1>3, TypeCorrect, PTL DEF Spec, ImplementsMutex, Mutex!Spec
=============================================================================
