----------------------- MODULE PthreadInterposeProofs -----------------------
(***************************************************************************)
(* Theorems about the pass-through lock, for any threads and for the       *)
(* builds with one and with two C-library mutexes.                         *)
(***************************************************************************)
EXTENDS PthreadInterpose, TLAPS

USE NoneIsNoThread DEF Outer, Inner

-----------------------------------------------------------------------------
(* Who owns which mutex at which place.  HolderOwns is not inductive: a    *)
(* step of a thread that does not hold the lock may release a mutex, and   *)
(* only the places outside of Holding say that it releases its own.        *)

OwnsInner == Holding \cup {"unlock_inner"}
OwnsOuter ==
  {"lock2", "try2", "cs", "broadcast", "wait1", "unlock2", "lock_inner"}

\* Places of a build with one mutex.
SinglePlaces == {"idle", "lock1", "cs", "broadcast", "wait2", "asleep", "relock"}

OwnersMatch ==
  \A t \in Threads :
    /\ condVar => (owner[Inner] = t <=> pc[t] \in OwnsInner)
    /\ condVar => (owner[Outer] = t <=> pc[t] \in OwnsOuter)
    /\ ~condVar => (owner[Outer] = t <=> pc[t] \in Holding)
    /\ ~condVar => pc[t] \in SinglePlaces

SleepersMatch == \A t \in Threads : t \in condq <=> pc[t] = "asleep"

OwnerInv == TypeOK /\ OwnersMatch /\ SleepersMatch

\* No C-library mutex is taken, nobody sleeps.
LEMMA OwnerInit == Init => OwnerInv
BY DEF Init, OwnerInv, TypeOK, OwnersMatch, SleepersMatch, Labels, Holding,
   OwnsInner, OwnsOuter, SinglePlaces

\* Every call of the C library keeps owners and places in step.
LEMMA OwnerStep == OwnerInv /\ [Next]_vars => OwnerInv'
<1> SUFFICES ASSUME OwnerInv, [Next]_vars PROVE OwnerInv'
  OBVIOUS
<1> USE DEF OwnerInv, TypeOK, OwnersMatch, SleepersMatch, Labels, Locking,
        Holding, Returning, OwnsInner, OwnsOuter, SinglePlaces, At, Goto,
        Acquire, Release
<1>1. CASE UNCHANGED vars
  BY <1>1 DEF vars
<1>2. ASSUME NEW t \in Threads, ProgramStep(t) PROVE OwnerInv'
  <2>1. CASE Lock(t) \/ CondWait(t)
    BY <2>1 DEF Lock, CondWait
  <2>2. CASE Trylock(t)
    BY <2>2 DEF Trylock
  <2>3. CASE Unlock(t)
    BY <2>3 DEF Unlock
  <2>4. CASE RaiseFlag(t)
    BY <2>4 DEF RaiseFlag
  <2>5. CASE LowerFlag(t)
    BY <2>5 DEF LowerFlag
  <2> QED
    BY <1>2, <2>1, <2>2, <2>3, <2>4, <2>5 DEF ProgramStep
<1>3. ASSUME NEW t \in Threads, LibraryStep(t) PROVE OwnerInv'
  <2>1. CASE LockOuter(t)
    BY <2>1 DEF LockOuter
  <2>2. CASE LockInner(t) \/ TrylockInner(t) \/ WaitLockInner(t)
    BY <2>2 DEF LockInner, TrylockInner, WaitLockInner
  <2>3. CASE UnlockOuter(t) \/ WaitUnlockOuter(t)
    BY <2>3 DEF UnlockOuter, WaitUnlockOuter
  <2>4. CASE WaitSleep(t)
    BY <2>4 DEF WaitSleep
  <2>5. CASE WaitRelock(t)
    BY <2>5 DEF WaitRelock
  <2>6. CASE WaitUnlockInnerAgain(t)
    BY <2>6 DEF WaitUnlockInnerAgain
  <2>7. CASE WaitLockOuter(t)
    BY <2>7 DEF WaitLockOuter
  <2>8. CASE Broadcast(t)
    BY <2>8 DEF Broadcast, Wake
  <2> QED
    BY <1>3, <2>1, <2>2, <2>3, <2>4, <2>5, <2>6, <2>7, <2>8 DEF LibraryStep
<1>4. ASSUME NEW t \in Threads, WakeOne(t) PROVE OwnerInv'
  BY <1>4 DEF WakeOne, Wake
<1> QED
  BY <1>1, <1>2, <1>3, <1>4 DEF Next

\* Owners and places match in every state.
LEMMA OwnersCorrect == Spec => []OwnerInv
BY OwnerInit, OwnerStep, PTL DEF Spec

\* Between lock and unlock a thread owns what the build locks, also on its way
\* into and out of a condition wait, in both builds.
THEOREM HolderOwnsHolds == Spec => []HolderOwns
<1>1. OwnerInv => HolderOwns
  BY DEF OwnerInv, OwnersMatch, HolderOwns, Holder, Holding, OwnsInner, OwnsOuter
<1> QED
  BY <1>1, OwnersCorrect, PTL

\* The mutex that guards the critical section has one owner.
LEMMA OneHolder ==
  ASSUME OwnerInv, NEW t \in Threads, NEW u \in Threads, Holder(t), Holder(u)
  PROVE  t = u
BY DEF OwnerInv, TypeOK, OwnersMatch, Holder, Holding, OwnsInner

-----------------------------------------------------------------------------
(* Waiters and the flag.                                                   *)

\* A flag raised with somebody about to sleep or asleep is a broadcast's that
\* is still to come; nobody else can be about to sleep, for that is done in the
\* critical section, which the broadcaster is in.
LEMMA FlagStep ==
  OwnerInv /\ NoWaiterForgotten /\ [Next]_vars => NoWaiterForgotten'
<1> SUFFICES ASSUME OwnerInv, NoWaiterForgotten, [Next]_vars
             PROVE  NoWaiterForgotten'
  OBVIOUS
<1> USE DEF NoWaiterForgotten, OwnerInv, TypeOK, At, Goto
<1>1. CASE UNCHANGED vars
  BY <1>1 DEF vars
<1>2. ASSUME NEW t \in Threads, ProgramStep(t) PROVE NoWaiterForgotten'
  BY <1>2 DEF ProgramStep, Lock, Trylock, Unlock, CondWait, RaiseFlag, LowerFlag
<1>3. ASSUME NEW t \in Threads, LibraryStep(t) PROVE NoWaiterForgotten'
  <2>1. CASE Broadcast(t)
    <3>1. \A u \in Threads : pc[u] \notin {"wait1", "wait2"}
      BY <2>1, OneHolder DEF Broadcast, Holder, Holding
    <3> QED
      BY <2>1, <3>1 DEF Broadcast
  <2>2. CASE LockOuter(t) \/ LockInner(t) \/ TrylockInner(t) \/ UnlockOuter(t)
    BY <2>2 DEF LockOuter, LockInner, TrylockInner, UnlockOuter
  <2>3. CASE WaitUnlockOuter(t) \/ WaitSleep(t)
    BY <2>3 DEF WaitUnlockOuter, WaitSleep
  <2>4. CASE WaitRelock(t) \/ WaitUnlockInnerAgain(t) \/ WaitLockOuter(t)
             \/ WaitLockInner(t)
    BY <2>4 DEF WaitRelock, WaitUnlockInnerAgain, WaitLockOuter, WaitLockInner
  <2> QED
    BY <1>3, <2>1, <2>2, <2>3, <2>4 DEF LibraryStep
<1>4. ASSUME NEW t \in Threads, WakeOne(t) PROVE NoWaiterForgotten'
  BY <1>4 DEF WakeOne, Wake, SleepersMatch
<1> QED
  BY <1>1, <1>2, <1>3, <1>4 DEF Next

\* No wait sleeps through the flag, for any number of waiters, whichever of the
\* two mutexes a wait gives up first.
THEOREM NoWaiterForgottenHolds == Spec => []NoWaiterForgotten
<1>1. Init => NoWaiterForgotten
  BY DEF Init, NoWaiterForgotten
<1> QED
  BY <1>1, FlagStep, OwnersCorrect, PTL DEF Spec

-----------------------------------------------------------------------------
(* Refinement.  A thread is given the lock by the step that takes the      *)
(* mutex guarding the critical section, which nobody owned.                *)

\* Nobody holds the lock while the mutex the build takes last is free.
LEMMA FreeWhenUnowned ==
  ASSUME OwnerInv, owner[IF condVar THEN Inner ELSE Outer] = None
  PROVE  Mutex!Free
BY DEF OwnerInv, TypeOK, OwnersMatch, Holding, OwnsInner, Mutex!Free, View

\* Every step of the two mutexes is one of the mutex the program sees, or none.
LEMMA RefinementStep ==
  ASSUME OwnerInv, [Next]_vars
  PROVE  [Mutex!Next]_Mutex!vars
<1> USE DEF OwnerInv, TypeOK, At, Goto, Labels, Locking, Holding, Returning, View,
        Mutex!Move, Mutex!vars
<1>1. CASE UNCHANGED vars
  BY <1>1 DEF vars
<1>2. ASSUME NEW t \in Threads, ProgramStep(t)
      PROVE  Mutex!Next \/ UNCHANGED Mutex!vars
  <2>1. CASE Lock(t)
    <3>1. Mutex!Call(t)
      BY <2>1 DEF Lock, Mutex!Call
    <3> QED
      BY <3>1 DEF Mutex!Next
  <2>2. CASE Trylock(t)
    <3>1. CASE condVar
      BY <2>2, <3>1 DEF Trylock
    <3>2. CASE ~condVar
      <4>1. Mutex!TryLock(t)
        BY <2>2, <3>2, FreeWhenUnowned DEF Trylock, Acquire, Mutex!TryLock
      <4> QED
        BY <4>1 DEF Mutex!Next
    <3> QED
      BY <3>1, <3>2
  <2>3. CASE Unlock(t)
    <3>1. Mutex!Unlock(t)
      BY <2>3 DEF Unlock, Mutex!Unlock
    <3> QED
      BY <3>1 DEF Mutex!Next
  <2>4. CASE CondWait(t) \/ RaiseFlag(t) \/ LowerFlag(t)
    BY <2>4 DEF CondWait, RaiseFlag, LowerFlag
  <2> QED
    BY <1>2, <2>1, <2>2, <2>3, <2>4 DEF ProgramStep
<1>3. ASSUME NEW t \in Threads, LibraryStep(t)
      PROVE  Mutex!Next \/ UNCHANGED Mutex!vars
  <2>1. CASE LockOuter(t)
    <3>1. CASE condVar
      BY <2>1, <3>1 DEF LockOuter
    <3>2. CASE ~condVar
      <4>1. Mutex!Grant(t)
        BY <2>1, <3>2, FreeWhenUnowned DEF LockOuter, Acquire, Mutex!Grant
      <4> QED
        BY <4>1 DEF Mutex!Next
    <3> QED
      BY <3>1, <3>2
  <2>2. CASE LockInner(t) \/ WaitLockInner(t)
    <3>1. condVar
      BY <2>2 DEF LockInner, WaitLockInner, OwnersMatch, SinglePlaces
    <3>2. Mutex!Grant(t)
      BY <2>2, <3>1, FreeWhenUnowned
      DEF LockInner, WaitLockInner, Acquire, Mutex!Grant
    <3> QED
      BY <3>2 DEF Mutex!Next
  <2>3. CASE TrylockInner(t)
    <3>1. condVar
      BY <2>3 DEF TrylockInner, OwnersMatch, SinglePlaces
    <3>2. Mutex!TryLock(t)
      BY <2>3, <3>1, FreeWhenUnowned DEF TrylockInner, Acquire, Mutex!TryLock
    <3> QED
      BY <3>2 DEF Mutex!Next
  <2>4. CASE WaitSleep(t)
    <3>1. Mutex!CondWait(t)
      BY <2>4 DEF WaitSleep, Mutex!CondWait
    <3> QED
      BY <3>1 DEF Mutex!Next
  <2>5. CASE WaitRelock(t)
    <3>1. CASE condVar
      BY <2>5, <3>1 DEF WaitRelock
    <3>2. CASE ~condVar
      <4>1. Mutex!Grant(t)
        BY <2>5, <3>2, FreeWhenUnowned DEF WaitRelock, Acquire, Mutex!Grant
      <4> QED
        BY <4>1 DEF Mutex!Next
    <3> QED
      BY <3>1, <3>2
  <2>6. CASE UnlockOuter(t) \/ WaitUnlockOuter(t) \/ WaitUnlockInnerAgain(t)
             \/ WaitLockOuter(t)
    BY <2>6 DEF UnlockOuter, WaitUnlockOuter, WaitUnlockInnerAgain, WaitLockOuter
  <2>7. CASE Broadcast(t)
    BY <2>7 DEF Broadcast, SleepersMatch
  <2> QED
    BY <1>3, <2>1, <2>2, <2>3, <2>4, <2>5, <2>6, <2>7 DEF LibraryStep
<1>4. ASSUME NEW t \in Threads, WakeOne(t)
      PROVE  UNCHANGED Mutex!vars
  BY <1>4 DEF WakeOne, Wake, SleepersMatch
<1> QED
  BY <1>1, <1>2, <1>3, <1>4 DEF Next

\* In both builds and for any threads the calls are those of one Pthread mutex.
THEOREM ImplementsMutexHolds == Spec => ImplementsMutex
<1>1. Init => Mutex!Init
  BY DEF Init, Mutex!Init, View, Holding, Returning
<1>2. OwnerInv /\ [Next]_vars => [Mutex!Next]_Mutex!vars
  BY RefinementStep
<1> QED
  BY <1>1, <1>2, OwnersCorrect, PTL DEF Spec, ImplementsMutex, Mutex!Spec
=============================================================================
