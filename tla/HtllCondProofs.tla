--------------------------- MODULE HtllCondProofs ---------------------------
(***************************************************************************)
(* Theorems about the condition variable and its mutex, for any threads.   *)
(*                                                                         *)
(* Most steps are, to the mutex, steps of its own or none; what HtllMutex's*)
(* lemmas say of those is used again here.  The rest are the five steps a  *)
(* waiter and a broadcaster take on the mutex's word and queue themselves. *)
(***************************************************************************)
EXTENDS HtllCond, HtllMutexProofs

USE DEF condVars, segmentVars

\* The steps on the word or on its queue that HtllMutex does not have.
OwnMutexStep(t) ==
  Relock(t) \/ RelockWait(t) \/ RelockReturn(t) \/ BroadcastRequeue(t)
    \/ CondExpire(t)

\* All other steps are the mutex's, or do not touch it.
LEMMA StepsOnTheMutex ==
  ASSUME CondNext
  PROVE  [Next]_vars \/ \E t \in Threads : OwnMutexStep(t)
<1>1. PICK t \in Threads :
        CondProgramStep(t) \/ MutexStep(t) \/ CondStep(t) \/ CondExpire(t)
          \/ KernelStep(t)
  BY DEF CondNext
<1>2. CASE CondProgramStep(t)
  BY <1>2 DEF CondProgramStep, WaitStart, TimedStart, Begin, Signal, Broadcast,
     Next
<1>3. CASE MutexStep(t)
  BY <1>3 DEF MutexStep, Next
<1>4. CASE CondStep(t)
  <2>1. CASE WaitUnlock(t)
    BY <2>1 DEF WaitUnlock, Next, ProgramStep
  <2>2. CASE ~WaitUnlock(t) /\ ~OwnMutexStep(t)
    BY <1>4, <2>2 DEF CondStep, OwnMutexStep, WaitBind, TimedBind, Bind,
       WaitSleep, TimedSleep, Sleep, TimedTooLate, TimedCheck, SignalWake,
       BroadcastAdvance
  <2> QED
    BY <2>1, <2>2
<1>5. CASE CondExpire(t)
  BY <1>5 DEF OwnMutexStep
<1>6. CASE KernelStep(t)
  BY <1>6 DEF KernelStep, CondInterrupt, Next
<1> QED
  BY <1>1, <1>2, <1>3, <1>4, <1>5, <1>6

-----------------------------------------------------------------------------
(* Types.                                                                  *)

LEMMA MutexTypeStep ==
  CondTypeOK /\ [CondNext]_allVars => TypeOK'
<1> SUFFICES ASSUME CondTypeOK, [CondNext]_allVars PROVE TypeOK'
  OBVIOUS
<1> USE DEF CondTypeOK
<1>1. CASE [Next]_vars
  BY <1>1, TypeStep
<1>2. ASSUME NEW t \in Threads, OwnMutexStep(t) PROVE TypeOK'
  <2> USE DEF TypeOK, Labels, Holding, Goto
  <2>1. CASE Relock(t)
    BY <2>1 DEF Relock, SwapContended
  <2>2. CASE RelockWait(t)
    BY <2>2 DEF RelockWait, FutexWait
  <2>3. CASE RelockReturn(t)
    BY <2>3 DEF RelockReturn
  <2>4. CASE BroadcastRequeue(t)
    BY <2>4 DEF BroadcastRequeue
  <2>5. CASE CondExpire(t)
    BY <2>5 DEF CondExpire
  <2> QED
    BY <1>2, <2>1, <2>2, <2>3, <2>4, <2>5 DEF OwnMutexStep
<1> QED
  BY <1>1, <1>2, StepsOnTheMutex DEF allVars

\* Every step keeps the types of the condition variable's own state.
LEMMA CondTypeStep == CondTypeOK /\ [CondNext]_allVars => CondTypeOK'
<1> SUFFICES ASSUME CondTypeOK, [CondNext]_allVars PROVE CondTypeOK'
  OBVIOUS
<1>0. TypeOK'
  BY MutexTypeStep
<1> USE <1>0, TimedWaitersAssumption DEF CondTypeOK, WaitLabels, SignalLabels, CGoto
<1>1. CASE UNCHANGED allVars
  BY <1>1 DEF allVars
<1>2. ASSUME NEW t \in Threads, CondProgramStep(t) PROVE CondTypeOK'
  <2>1. CASE Begin(t)
    BY <2>1 DEF Begin
  <2>2. CASE Signal(t) \/ Broadcast(t)
    BY <2>2 DEF Signal, Broadcast, AdvanceSeq, Committed
  <2>3. CASE UNCHANGED condVars
    BY <2>3
  <2> QED
    BY <1>2, <2>1, <2>2, <2>3 DEF CondProgramStep, WaitStart, TimedStart
<1>3. ASSUME NEW t \in Threads, CondStep(t) PROVE CondTypeOK'
  <2>1. CASE Bind(t)
    BY <2>1 DEF Bind
  <2>2. CASE WaitUnlock(t)
    BY <2>2 DEF WaitUnlock
  <2>3. CASE Sleep(t, "relock") \/ Sleep(t, "check")
    BY <2>3 DEF Sleep
  <2>4. CASE TimedTooLate(t) \/ TimedCheck(t)
    BY <2>4 DEF TimedTooLate, TimedCheck
  <2>5. CASE Relock(t) \/ RelockWait(t) \/ RelockReturn(t)
    BY <2>5 DEF Relock, RelockWait, RelockReturn
  <2>6. CASE SignalWake(t) \/ BroadcastRequeue(t)
    BY <2>6 DEF SignalWake, BroadcastRequeue
  <2>7. CASE BroadcastAdvance(t)
    BY <2>7 DEF BroadcastAdvance, AdvanceSeq, Committed
  <2> QED
    BY <1>3, <2>1, <2>2, <2>3, <2>4, <2>5, <2>6, <2>7
    DEF CondStep, WaitBind, TimedBind, WaitSleep, TimedSleep
<1>4. ASSUME NEW t \in Threads,
             MutexStep(t) \/ CondExpire(t) \/ KernelStep(t)
      PROVE  CondTypeOK'
  BY <1>4 DEF MutexStep, CondExpire, KernelStep, CondInterrupt
<1> QED
  BY <1>1, <1>2, <1>3, <1>4 DEF CondNext

LEMMA CondTypeCorrect == CondSpec => []CondTypeOK
<1>1. CondInit => CondTypeOK
  BY DEF CondInit, Init, CondTypeOK, TypeOK, Labels
<1> QED
  BY <1>1, CondTypeStep, PTL DEF CondSpec

-----------------------------------------------------------------------------
(* The mutex stays a mutex.                                                *)

LEMMA CondHolderStep ==
  CondTypeOK /\ HolderInv /\ [CondNext]_allVars => HolderInv'
<1> SUFFICES ASSUME CondTypeOK, HolderInv, [CondNext]_allVars PROVE HolderInv'
  OBVIOUS
<1> USE DEF CondTypeOK
<1>1. CASE [Next]_vars
  BY <1>1, HolderStep
<1>2. ASSUME NEW t \in Threads, OwnMutexStep(t) PROVE HolderInv'
  <2>1. CASE Relock(t)
    BY <2>1, SwapContendedKeepsHolder
    DEF Relock, CondAt, At, Holder, Holding
  <2>2. CASE RelockWait(t)
    BY <2>2, SameHoldersKeepHolder
    DEF RelockWait, CondAt, FutexWait, At, Goto, Holder, Holding, TypeOK
  <2>3. CASE RelockReturn(t) \/ BroadcastRequeue(t) \/ CondExpire(t)
    BY <2>3, SameHoldersKeepHolder
    DEF RelockReturn, BroadcastRequeue, CondExpire, Holder
  <2> QED
    BY <1>2, <2>1, <2>2, <2>3 DEF OwnMutexStep
<1> QED
  BY <1>1, <1>2, StepsOnTheMutex DEF allVars

LEMMA CondHolderCorrect == CondSpec => []HolderInv
<1>1. CondInit => HolderInv
  BY DEF CondInit, Init, HolderInv, MutualExclusion, LockedIffHeld, Holder, Holding,
     LOCKED, UNLOCKED
<1> QED
  BY <1>1, CondHolderStep, CondTypeCorrect, PTL DEF CondSpec

\* Waiters that a broadcast moved to the mutex, and waiters on their way back
\* by an exchange of their own, take it one at a time like everybody else.
THEOREM CondMutualExclusionHolds == CondSpec => []MutualExclusion
<1>1. HolderInv => MutualExclusion
  BY DEF HolderInv
<1> QED
  BY <1>1, CondHolderCorrect, PTL

-----------------------------------------------------------------------------
(* Where waiters are.                                                      *)

\* A thread asleep on seq has given the mutex up and marked where it goes on; a
\* thread on its way in or out of a wait is not in the mutex's own code, except
\* to give the mutex up; a call that is past its binding has bound the variable.
PlacesInv ==
  /\ \A t \in condq :
       cpc[t] \in {"check", "relock"} /\ pc[t] = "idle" /\ t \notin waitq
  /\ \A t \in Threads :
       /\ cpc[t] \in {"check", "relock", "repark", "reret"} => pc[t] = "idle"
       /\ pc[t] \in Waiting => cpc[t] = "app"
       /\ cpc[t] \in (WaitLabels \ {"bind"}) \cup {"bcast", "bcwake"} => bound
       /\ t \in waitq => \/ pc[t] \in {"tret", "uswap"}
                         \/ pc[t] = "idle" /\ cpc[t] \in {"check", "relock", "reret"}

\* The value of seq a waiter is about to sleep on is from before it gave up the
\* mutex, and no later signal is outstanding.
SeqInv ==
  /\ \A t \in Threads : fresh[t] => ~missed[t]
  /\ NoSignalSleptThrough

\* A thread in the mutex's own code moves on.
LEMMA MoveKeepsPlaces ==
  ASSUME CondTypeOK, PlacesInv, NEW t \in Threads, Running(t), pc[t] # "idle",
         NEW l, pc' = [pc EXCEPT ![t] = l], l \in Waiting => pc[t] \in Waiting,
         UNCHANGED <<waitq, condVars>>
  PROVE  PlacesInv'
<1> USE DEF CondTypeOK, TypeOK, PlacesInv, Running
<1>1. \A u \in condq' :
        cpc'[u] \in {"check", "relock"} /\ pc'[u] = "idle" /\ u \notin waitq'
  OBVIOUS
<1>2. \A u \in Threads :
        cpc'[u] \in {"check", "relock", "repark", "reret"} => pc'[u] = "idle"
  OBVIOUS
<1>3. \A u \in Threads : pc'[u] \in Waiting => cpc'[u] = "app"
  OBVIOUS
<1> QED
  BY <1>1, <1>2, <1>3

LEMMA PlacesStep ==
  CondTypeOK /\ PlacesInv /\ [CondNext]_allVars => PlacesInv'
<1> SUFFICES ASSUME CondTypeOK, PlacesInv, [CondNext]_allVars PROVE PlacesInv'
  OBVIOUS
<1> USE DEF CondTypeOK, TypeOK, PlacesInv, WaitLabels, Waiting, At, CGoto, Goto
<1>1. CASE UNCHANGED allVars
  BY <1>1 DEF allVars, vars
<1>2. ASSUME NEW t \in Threads, CondProgramStep(t) PROVE PlacesInv'
  <2>1. CASE Begin(t)
    BY <2>1 DEF Begin, vars
  <2>2. CASE Signal(t) \/ Broadcast(t)
    BY <2>2 DEF Signal, Broadcast, MayCall, vars
  <2>3. CASE cpc[t] = "app" /\ (Lock(t) \/ UnlockFast(t) \/ UnlockSlow(t))
             /\ UNCHANGED condVars
    BY <2>3 DEF Lock, UnlockFast, UnlockSlow
  <2>4. CASE cpc[t] = "app" /\ Trylock(t) /\ UNCHANGED condVars
    BY <2>4 DEF Trylock, SwapLocked
  <2>5. CASE cpc[t] = "app" /\ (EnterSegment(t) \/ LeaveSegment(t))
             /\ UNCHANGED condVars
    BY <2>5 DEF EnterSegment, LeaveSegment
  <2> QED
    BY <1>2, <2>1, <2>2, <2>3, <2>4, <2>5
    DEF CondProgramStep, ProgramStep, WaitStart, TimedStart
<1>3. ASSUME NEW t \in Threads, MutexStep(t) PROVE PlacesInv'
  <2> USE MoveKeepsPlaces DEF Running
  <2>1. CASE TryOnce(t) \/ Spin(t)
    <3>1. PICK l \in {"cs", "spin", "swap"} : pc' = [pc EXCEPT ![t] = l]
      BY <2>1 DEF TryOnce, Spin, SwapLocked
    <3> QED
      BY <1>3, <2>1, <3>1 DEF MutexStep, TryOnce, Spin, SwapLocked
  <2>2. CASE AnnounceWait(t) \/ UntimedSwap(t)
    <3>1. PICK l \in {"cs", "tpark", "uswap", "upark"} : pc' = [pc EXCEPT ![t] = l]
      BY <2>2 DEF AnnounceWait, UntimedSwap, SwapContended
    <3> QED
      BY <1>3, <2>2, <3>1 DEF MutexStep, AnnounceWait, UntimedSwap, SwapContended
  <2>3. CASE TimedWait(t) \/ UntimedWait(t)
    BY <1>3, <2>3 DEF MutexStep, TimedWait, UntimedWait, FutexWait
  <2>4. CASE TimedReturn(t)
    BY <1>3, <2>4 DEF MutexStep, TimedReturn
  <2>5. CASE UnlockStep(t)
    BY <1>3, <2>5 DEF MutexStep, UnlockStep, Release, CheckAtOnce,
       CheckAfterDelay, LeaveIfTaken, ClearContended, WakeOne
  <2> QED
    BY <1>3, <2>1, <2>2, <2>3, <2>4, <2>5 DEF MutexStep, LockStep
<1>4. ASSUME NEW t \in Threads, CondStep(t) PROVE PlacesInv'
  <2> USE DEF CondAt, vars
  <2>1. CASE Bind(t)
    BY <2>1 DEF Bind
  <2>2. CASE WaitUnlock(t)
    BY <2>2 DEF WaitUnlock, UnlockFast, UnlockSlow
  <2>3. CASE Sleep(t, "relock") \/ Sleep(t, "check")
    BY <2>3 DEF Sleep
  <2>4. CASE TimedTooLate(t) \/ TimedCheck(t)
    BY <2>4 DEF TimedTooLate, TimedCheck
  <2>5. CASE Relock(t)
    <3>1. PICK l \in {"cs", "idle"}, c \in {"app", "repark"} :
            /\ pc' = [pc EXCEPT ![t] = l] /\ cpc' = [cpc EXCEPT ![t] = c]
            /\ l = "cs" => c = "app"
      BY <2>5 DEF Relock, SwapContended
    <3>2. /\ cpc[t] = "relock" /\ t \notin condq /\ t \notin waitq
          /\ UNCHANGED <<waitq, condq, bound>>
      BY <2>5 DEF Relock, SwapContended, Running
    <3> QED
      BY <3>1, <3>2
  <2>6. CASE RelockWait(t)
    BY <2>6 DEF RelockWait, FutexWait
  <2>7. CASE RelockReturn(t)
    BY <2>7 DEF RelockReturn
  <2>8. CASE SignalWake(t) \/ BroadcastAdvance(t)
    BY <2>8 DEF SignalWake, BroadcastAdvance
  <2>9. CASE BroadcastRequeue(t)
    <3>1. waitq' \subseteq waitq \cup condq /\ condq' = {}
      BY <2>9 DEF BroadcastRequeue
    <3>2. t \notin condq
      BY <2>9 DEF BroadcastRequeue
    <3> QED
      BY <2>9, <3>1, <3>2 DEF BroadcastRequeue
  <2> QED
    BY <1>4, <2>1, <2>2, <2>3, <2>4, <2>5, <2>6, <2>7, <2>8, <2>9
    DEF CondStep, WaitBind, TimedBind, WaitSleep, TimedSleep
<1>5. ASSUME NEW t \in Threads,
             CondExpire(t) \/ KernelStep(t)
      PROVE  PlacesInv'
  BY <1>5 DEF CondExpire, KernelStep, CondInterrupt, Expire,
     Interrupt, vars
<1> QED
  BY <1>1, <1>2, <1>3, <1>4, <1>5 DEF CondNext

LEMMA PlacesCorrect == CondSpec => []PlacesInv
<1>1. CondInit => PlacesInv
  BY DEF CondInit, Init, PlacesInv, WaitLabels, Waiting
<1> QED
  BY <1>1, PlacesStep, CondTypeCorrect, PTL DEF CondSpec

\* "No mutex means that there are no waiters": a broadcast that finds none
\* leaves nobody asleep, nor anybody about to sleep.
THEOREM NoMutexNoWaitersHolds == CondSpec => []NoMutexNoWaiters
<1>1. CondTypeOK /\ PlacesInv => NoMutexNoWaiters
  BY DEF CondTypeOK, PlacesInv, WaitLabels, NoMutexNoWaiters, Blocked, Committed
<1> QED
  BY <1>1, PlacesCorrect, CondTypeCorrect, PTL

-----------------------------------------------------------------------------
(* Refinement.                                                             *)

CondViewOf == [t \in Threads |-> CondView(t)]

\* The program sees at most one thread move, and only as a Pthread mutex lets
\* it.
LEMMA OneThreadMoves ==
  ASSUME NEW t \in Threads,
         \A u \in Threads \ {t} : CondView(u)' = CondView(u),
         \/ CondView(t)' = CondView(t)
         \/ CondView(t) = "out" /\ CondView(t)' = "waiting"
         \/ /\ CondView(t) \in {"out", "waiting"} /\ CondView(t)' = "holding"
            /\ CondMutex!Free
         \/ CondView(t) = "holding" /\ CondView(t)' \in {"out", "waiting"}
  PROVE  CondMutex!Next \/ CondViewOf' = CondViewOf
<1> DEFINE to == CondView(t)'
<1>1. CondViewOf' = [CondViewOf EXCEPT ![t] = to]
  BY DEF CondViewOf
<1>2. CondViewOf[t] = CondView(t)
  BY DEF CondViewOf
<1>3. CASE CondView(t)' = CondView(t)
  BY <1>3 DEF CondViewOf
<1>4. CASE \/ CondMutex!Call(t) \/ CondMutex!Grant(t) \/ CondMutex!TryLock(t)
           \/ CondMutex!Unlock(t) \/ CondMutex!CondWait(t)
  BY <1>4 DEF CondMutex!Next
<1> QED
  BY <1>1, <1>2, <1>3, <1>4 DEF CondViewOf, CondMutex!Call, CondMutex!Grant,
     CondMutex!TryLock, CondMutex!Unlock, CondMutex!CondWait, CondMutex!Move

LEMMA UnlockedIsCondFree ==
  ASSUME CondTypeOK, HolderInv, locked = UNLOCKED
  PROVE  CondMutex!Free
<1>1. locked # LOCKED
  BY DEF LOCKED, UNLOCKED
<1>2. \A t \in Threads : pc[t] \notin Holding
  BY <1>1 DEF HolderInv, LockedIffHeld, Holder
<1> QED
  BY <1>2 DEF CondMutex!Free, CondView, View, Holder

LEMMA CondRefinementStep ==
  CondTypeOK /\ HolderInv /\ PlacesInv /\ [CondNext]_allVars
    => [CondMutex!Next]_CondMutex!vars
<1> SUFFICES ASSUME CondTypeOK, HolderInv, PlacesInv, [CondNext]_allVars
             PROVE  CondMutex!Next \/ CondViewOf' = CondViewOf
  BY DEF CondViewOf, CondMutex!vars
<1> USE OneThreadMoves, UnlockedIsCondFree
    DEF CondTypeOK, TypeOK, CondView, Holder, View, At, Goto, CGoto
<1>1. CASE UNCHANGED <<pc, cpc>>
  BY <1>1 DEF CondViewOf
\* A step inside the mutex code.
<1>2. ASSUME NEW t \in Threads, NEW l, pc' = [pc EXCEPT ![t] = l], cpc' = cpc,
             \/ pc[t] \in Waiting /\ l \in Waiting
             \/ pc[t] \in Waiting /\ l = "cs" /\ locked = UNLOCKED
             \/ pc[t] = "idle" /\ l \in Waiting /\ cpc[t] = "app"
             \/ pc[t] = "idle" /\ l = "idle"
             \/ pc[t] = "idle" /\ l = "cs" /\ locked = UNLOCKED /\ cpc[t] = "app"
             \/ pc[t] \in Holding /\ l \in Holding
             \/ pc[t] \in Holding /\ l \in {"idle"} \cup Leaving
             \/ pc[t] \in Leaving /\ l \in {"idle"} \cup Leaving
      PROVE  CondMutex!Next \/ CondViewOf' = CondViewOf
  <2>1. \A u \in Threads \ {t} : CondView(u)' = CondView(u)
    BY <1>2
  <2>2. pc'[t] = l /\ cpc'[t] = cpc[t]
    BY <1>2
  <2>3. pc[t] \in Waiting => cpc[t] = "app"
    BY DEF PlacesInv
  <2> QED
    BY <1>2, <2>1, <2>2, <2>3 DEF Waiting, Holding, Leaving, WaitLabels
<1>3. ASSUME NEW t \in Threads, LockStep(t), cpc' = cpc
      PROVE  CondMutex!Next \/ CondViewOf' = CondViewOf
  <2>1. PICK l \in Waiting \cup {"cs"} :
          pc' = [pc EXCEPT ![t] = l] /\ (l = "cs" => locked = UNLOCKED)
    <3>1. CASE TryOnce(t) \/ Spin(t)
      BY <3>1 DEF TryOnce, Spin, SwapLocked, Waiting
    <3>2. CASE AnnounceWait(t) \/ UntimedSwap(t)
      BY <3>2 DEF AnnounceWait, UntimedSwap, SwapContended, Waiting
    <3>3. CASE TimedWait(t) \/ UntimedWait(t) \/ TimedReturn(t)
      BY <3>3 DEF TimedWait, UntimedWait, FutexWait, TimedReturn, Waiting
    <3> QED
      BY <1>3, <3>1, <3>2, <3>3 DEF LockStep
  <2>2. pc[t] \in Waiting
    BY <1>3 DEF LockStep, TryOnce, Spin, AnnounceWait, TimedWait, TimedReturn,
       UntimedSwap, UntimedWait, Waiting
  <2> QED
    BY <1>2, <1>3, <2>1, <2>2
<1>4. ASSUME NEW t \in Threads, UnlockStep(t), cpc' = cpc
      PROVE  CondMutex!Next \/ CondViewOf' = CondViewOf
  <2>1. PICK l \in {"idle"} \cup Leaving : pc' = [pc EXCEPT ![t] = l]
    BY <1>4 DEF UnlockStep, Release, CheckAtOnce, CheckAfterDelay, LeaveIfTaken,
       ClearContended, WakeOne, Leaving
  <2>2. pc[t] \in Holding \cup Leaving
    BY <1>4 DEF UnlockStep, Release, CheckAtOnce, CheckAfterDelay, ClearContended,
       WakeOne, Holding, Leaving
  <2> QED
    BY <1>2, <1>4, <2>1, <2>2
<1>5. ASSUME NEW t \in Threads, UnlockFast(t) \/ UnlockSlow(t), cpc' = cpc
      PROVE  CondMutex!Next \/ CondViewOf' = CondViewOf
  BY <1>2, <1>5 DEF UnlockFast, UnlockSlow, Holding
<1>6. ASSUME NEW t \in Threads, ProgramStep(t), cpc[t] = "app", cpc' = cpc
      PROVE  CondMutex!Next \/ CondViewOf' = CondViewOf
  <2>1. CASE Lock(t)
    BY <1>2, <1>6, <2>1 DEF Lock, Waiting
  <2>2. CASE Trylock(t)
    BY <1>2, <1>6, <2>2 DEF Trylock, SwapLocked
  <2>3. CASE EnterSegment(t) \/ LeaveSegment(t)
    BY <1>1, <1>6, <2>3 DEF EnterSegment, LeaveSegment
  <2> QED
    BY <1>5, <1>6, <2>1, <2>2, <2>3 DEF ProgramStep
\* A step inside a call on the condition variable.
<1>7. ASSUME NEW t \in Threads, NEW l, cpc' = [cpc EXCEPT ![t] = l], pc' = pc,
             \/ cpc[t] \in WaitLabels /\ l \in WaitLabels
             \/ cpc[t] \notin WaitLabels /\ l \notin WaitLabels
             \/ pc[t] \in Holding
      PROVE  CondMutex!Next \/ CondViewOf' = CondViewOf
  BY <1>7 DEF CondViewOf
<1>8. ASSUME NEW t \in Threads, CondProgramStep(t)
      PROVE  CondMutex!Next \/ CondViewOf' = CondViewOf
  BY <1>6, <1>7, <1>8 DEF CondProgramStep, WaitStart, TimedStart, Begin, Signal,
     Broadcast, MayCall, vars, Holding, WaitLabels
<1>9. ASSUME NEW t \in Threads, CondStep(t)
      PROVE  CondMutex!Next \/ CondViewOf' = CondViewOf
  <2>1. CASE WaitUnlock(t)
    BY <1>5, <2>1 DEF WaitUnlock
  <2>2. CASE Relock(t)
    <3>1. CASE locked = UNLOCKED
      <4>1. /\ pc[t] = "idle" /\ pc' = [pc EXCEPT ![t] = "cs"]
            /\ cpc[t] = "relock" /\ cpc' = [cpc EXCEPT ![t] = "app"]
        BY <2>2, <3>1 DEF Relock, CondAt, SwapContended
      <4>2. CondView(t) = "waiting" /\ CondView(t)' = "holding"
        BY <4>1 DEF WaitLabels, Holding, Waiting
      <4>3. \A u \in Threads \ {t} : CondView(u)' = CondView(u)
        BY <4>1
      <4> QED
        BY <3>1, <4>2, <4>3
    <3>2. CASE locked # UNLOCKED
      <4>1. pc' = pc /\ cpc[t] = "relock" /\ cpc' = [cpc EXCEPT ![t] = "repark"]
        BY <2>2, <3>2 DEF Relock, CondAt, SwapContended
      <4> QED
        BY <1>7, <4>1 DEF WaitLabels
    <3> QED
      BY <3>1, <3>2
  <2>3. CASE Bind(t) \/ Sleep(t, "relock") \/ Sleep(t, "check")
             \/ TimedTooLate(t) \/ TimedCheck(t) \/ RelockReturn(t)
    BY <1>7, <2>3 DEF Bind, Sleep, TimedTooLate, TimedCheck, RelockReturn, CondAt,
       vars, WaitLabels
  <2>4. CASE RelockWait(t)
    <3>1. pc' = pc /\ cpc[t] = "repark" /\ cpc' = [cpc EXCEPT ![t] = "reret"]
      BY <2>4 DEF RelockWait, FutexWait, CondAt
    <3> QED
      BY <1>7, <3>1 DEF WaitLabels
  <2>5. CASE SignalWake(t) \/ BroadcastAdvance(t) \/ BroadcastRequeue(t)
    BY <1>7, <2>5 DEF SignalWake, BroadcastAdvance, BroadcastRequeue, vars,
       WaitLabels
  <2> QED
    BY <1>9, <2>1, <2>2, <2>3, <2>4, <2>5
    DEF CondStep, WaitBind, TimedBind, WaitSleep, TimedSleep
<1>10. ASSUME NEW t \in Threads,
              MutexStep(t) \/ CondExpire(t) \/ KernelStep(t)
       PROVE  CondMutex!Next \/ CondViewOf' = CondViewOf
  BY <1>1, <1>3, <1>4, <1>10 DEF MutexStep, CondExpire,
     KernelStep, CondInterrupt, Expire, Interrupt, vars
<1> QED
  BY <1>1, <1>8, <1>9, <1>10 DEF CondNext, allVars, vars

\* To the program the mutex of a condition variable is a Pthread mutex: a wait
\* gives it up as its holder and is granted it again.
THEOREM CondImplementsMutexHolds == CondSpec => CondImplementsMutex
<1>1. CondInit => CondMutex!Init
  BY DEF CondInit, Init, CondMutex!Init, CondView, View, WaitLabels, Waiting,
     Holding
<1> QED
  BY <1>1, CondRefinementStep, CondTypeCorrect, CondHolderCorrect, PlacesCorrect,
     PTL DEF CondSpec, CondImplementsMutex, CondMutex!Spec

-----------------------------------------------------------------------------
(* Signals.                                                                *)

\* Only signals and broadcasts move seq, and they reach everyone who has read
\* it and does not sleep yet; whoever sleeps is no longer about to.
LEMMA SeqStep ==
  CondTypeOK /\ PlacesInv /\ SeqInv /\ [CondNext]_allVars => SeqInv'
<1> SUFFICES ASSUME CondTypeOK, PlacesInv, SeqInv, [CondNext]_allVars
             PROVE  SeqInv'
  OBVIOUS
<1> USE DEF CondTypeOK, SeqInv, NoSignalSleptThrough
<1>1. CASE UNCHANGED <<condq, fresh, missed>>
  BY <1>1
<1>2. CASE AdvanceSeq /\ UNCHANGED condq
  BY <1>2 DEF AdvanceSeq, PlacesInv, Committed
<1>3. ASSUME NEW t \in Threads, CondProgramStep(t) PROVE SeqInv'
  <2>1. CASE Begin(t)
    BY <2>1 DEF Begin
  <2>2. CASE Signal(t) \/ Broadcast(t)
    BY <2>2, <1>1, <1>2 DEF Signal, Broadcast
  <2> QED
    BY <1>3, <2>1, <2>2, <1>1 DEF CondProgramStep, WaitStart, TimedStart
<1>4. ASSUME NEW t \in Threads, CondStep(t) PROVE SeqInv'
  <2>1. CASE Sleep(t, "relock") \/ Sleep(t, "check")
    BY <2>1 DEF Sleep
  <2>2. CASE TimedTooLate(t)
    BY <2>2 DEF TimedTooLate
  <2>3. CASE Relock(t)
    BY <2>3 DEF Relock
  <2>4. CASE SignalWake(t) \/ BroadcastRequeue(t)
    BY <2>4 DEF SignalWake, BroadcastRequeue
  <2>5. CASE BroadcastAdvance(t)
    BY <2>5, <1>2 DEF BroadcastAdvance
  <2>6. CASE WaitBind(t) \/ TimedBind(t) \/ WaitUnlock(t) \/ TimedCheck(t)
             \/ RelockWait(t) \/ RelockReturn(t)
    BY <2>6, <1>1 DEF WaitBind, TimedBind, Bind, WaitUnlock, TimedCheck,
       RelockWait, RelockReturn
  <2> QED
    BY <1>4, <2>1, <2>2, <2>3, <2>4, <2>5, <2>6
    DEF CondStep, WaitSleep, TimedSleep
<1>5. ASSUME NEW t \in Threads,
             MutexStep(t) \/ CondExpire(t) \/ KernelStep(t)
      PROVE  SeqInv'
  BY <1>5 DEF MutexStep, CondExpire, KernelStep, CondInterrupt
<1> QED
  BY <1>1, <1>3, <1>4, <1>5 DEF CondNext, allVars

\* No waiter is asleep that a signal or broadcast should have found, however
\* long its unlock takes and whatever comes in between.
THEOREM NoSignalSleptThroughHolds == CondSpec => []NoSignalSleptThrough
<1>1. CondInit => SeqInv
  BY DEF CondInit, SeqInv, NoSignalSleptThrough
<1>2. SeqInv => NoSignalSleptThrough
  BY DEF SeqInv
<1> QED
  BY <1>1, <1>2, SeqStep, PlacesCorrect, CondTypeCorrect, PTL DEF CondSpec

-----------------------------------------------------------------------------
(* No waiter that was moved to the mutex is lost, when no thread uses      *)
(* segments.                                                               *)

\* A waiter on its way back is going to mark the word contended.
BackDue ==
  \E t \in Threads :
    Running(t) /\ t \notin condq /\ cpc[t] \in {"check", "relock", "reret"}

Sleepers == UntimedSleepers \cup Requeued

LEMMA CondNoSegmentsStep ==
  ASSUME EpochThreads = {}
  PROVE  CondTypeOK /\ NoSegments /\ [CondNext]_allVars => NoSegments'
<1> SUFFICES ASSUME CondTypeOK, NoSegments, [CondNext]_allVars PROVE NoSegments'
  OBVIOUS
<1> USE DEF CondTypeOK
<1>1. CASE [Next]_vars
  BY <1>1, NoSegmentsStep
<1>2. ASSUME NEW t \in Threads, OwnMutexStep(t) PROVE NoSegments'
  BY <1>2 DEF OwnMutexStep, Relock, SwapContended, RelockWait, FutexWait,
     RelockReturn, BroadcastRequeue, CondExpire, NoSegments, Goto, TypeOK
<1> QED
  BY <1>1, <1>2, StepsOnTheMutex DEF allVars

\* The duty to wake is passed on while nobody new goes to sleep.
LEMMA NoNewSleepers ==
  ASSUME NoRequeuedLost, waitq' \subseteq waitq,
         \A u \in waitq' : pc'[u] = pc[u] /\ cpc'[u] = cpc[u],
         WakeDue \/ BackDue => WakeDue' \/ BackDue'
  PROVE  NoRequeuedLost'
<1>1. Sleepers' \subseteq Sleepers
  BY DEF Sleepers, UntimedSleepers, Requeued
<1> QED
  BY <1>1 DEF NoRequeuedLost, CondWakeDue, Sleepers, BackDue

\* The mutex's own steps.
LEMMA MutexKeepsRequeued ==
  ASSUME CondTypeOK, PlacesInv, NoSegments, NoRequeuedLost, NEW t \in Threads,
         ProgramStep(t) \/ LockStep(t) \/ UnlockStep(t), UNCHANGED condVars
  PROVE  NoRequeuedLost'
<1> USE DEF CondTypeOK, TypeOK
<1>1. CASE WakeOne(t)
  <2>1. t \notin waitq /\ pc' = [pc EXCEPT ![t] = "idle"]
    BY <1>1 DEF WakeOne, At, Running, Goto
  <2>2. CASE waitq = {}
    BY <1>1, <2>2 DEF WakeOne, NoRequeuedLost, UntimedSleepers, Requeued
  <2>3. CASE waitq # {}
    <3>1. PICK w \in waitq : waitq' = waitq \ {w}
      BY <1>1, <2>3 DEF WakeOne
    <3>2. w # t /\ w \notin condq
      BY <2>1, <3>1 DEF PlacesInv
    <3>3. CASE pc[w] = "uswap"
      BY <2>1, <3>1, <3>2, <3>3 DEF WakeDue, Running, NoRequeuedLost, CondWakeDue
    <3>4. CASE cpc[w] \in {"check", "relock", "reret"}
      BY <3>1, <3>2, <3>4 DEF Running, NoRequeuedLost, CondWakeDue
    <3> QED
      BY <3>1, <3>3, <3>4 DEF PlacesInv, NoSegments
  <2> QED
    BY <2>2, <2>3
<1>2. CASE UntimedWait(t)
  <2>1. t \notin waitq /\ cpc[t] = "app"
    BY <1>2 DEF UntimedWait, At, Running, PlacesInv, Waiting
  <2>2. CASE LockedAndContended
    BY <1>2, <2>2
    DEF UntimedWait, FutexWait, NoRequeuedLost, CondWakeDue, WakeDue,
        LockedAndContended
  <2>3. CASE ~LockedAndContended
    BY <1>2, <2>3
    DEF UntimedWait, FutexWait, At, Running, Goto, NoRequeuedLost, CondWakeDue,
        WakeDue
  <2> QED
    BY <2>2, <2>3
<1>3. CASE ~WakeOne(t) /\ ~UntimedWait(t)
  <2>1. WakeDue => WakeDue'
    BY <1>3, DutyPassesOn
  <2>2. waitq' = waitq /\ \A u \in waitq' : pc'[u] = pc[u]
    BY <1>3 DEF ProgramStep, Lock, Trylock, UnlockFast, UnlockSlow, EnterSegment,
       LeaveSegment, LockStep, TryOnce, Spin, AnnounceWait, TimedWait, TimedReturn,
       UntimedSwap, SwapLocked, SwapContended, UnlockStep, Release, CheckAtOnce,
       CheckAfterDelay, LeaveIfTaken, ClearContended, NoSegments, At, Goto, Running
  <2>3. BackDue => BackDue'
    BY <2>2 DEF BackDue, Running
  <2> QED
    BY <2>1, <2>2, <2>3, NoNewSleepers
<1> QED
  BY <1>1, <1>2, <1>3

LEMMA RequeuedStep ==
  ASSUME EpochThreads = {}
  PROVE  CondTypeOK /\ PlacesInv /\ NoSegments /\ NoRequeuedLost
           /\ [CondNext]_allVars => NoRequeuedLost'
<1> SUFFICES ASSUME CondTypeOK, PlacesInv, NoSegments, NoRequeuedLost,
                    [CondNext]_allVars
             PROVE  NoRequeuedLost'
  OBVIOUS
<1> USE DEF CondTypeOK, TypeOK, CGoto
<1>1. CASE UNCHANGED allVars
  BY <1>1 DEF allVars, vars, NoRequeuedLost, CondWakeDue, WakeDue,
     LockedAndContended, Running, UntimedSleepers, Requeued
\* A step of a thread that sleeps nowhere and changes nothing of the mutex.
<1>2. ASSUME NEW t \in Threads, NEW l, t \notin waitq, CGoto(t, l),
             cpc[t] \in {"check", "relock", "reret"}
               => l \in {"check", "relock", "reret"},
             UNCHANGED <<locked, contended, waitq, pc>>, condq' \subseteq condq
      PROVE  NoRequeuedLost'
  <2>1. WakeDue => WakeDue'
    BY <1>2 DEF WakeDue, LockedAndContended, Running
  <2>2. BackDue => BackDue'
    BY <1>2 DEF BackDue, Running
  <2>3. \A u \in waitq' : pc'[u] = pc[u] /\ cpc'[u] = cpc[u]
    BY <1>2
  <2> QED
    BY <1>2, <2>1, <2>2, <2>3, NoNewSleepers
<1>3. ASSUME NEW t \in Threads, CondProgramStep(t) PROVE NoRequeuedLost'
  <2>1. CASE Begin(t)
    BY <2>1, <1>2 DEF Begin, vars, At, Running
  <2>2. CASE Signal(t) \/ Broadcast(t)
    BY <2>2, <1>2 DEF Signal, Broadcast, MayCall, vars, At, Running
  <2>3. CASE ProgramStep(t) /\ UNCHANGED condVars
    BY <2>3, MutexKeepsRequeued
  <2> QED
    BY <1>3, <2>1, <2>2, <2>3 DEF CondProgramStep, WaitStart, TimedStart
<1>4. ASSUME NEW t \in Threads, MutexStep(t) PROVE NoRequeuedLost'
  BY <1>4, MutexKeepsRequeued DEF MutexStep
<1>5. ASSUME NEW t \in Threads, CondStep(t) PROVE NoRequeuedLost'
  <2> USE DEF CondAt, At, Running
  <2>0. t \notin waitq
    <3>1. CASE BroadcastRequeue(t) \/ SignalWake(t) \/ BroadcastAdvance(t)
                 \/ Bind(t)
      BY <3>1 DEF BroadcastRequeue, SignalWake, BroadcastAdvance, Bind, PlacesInv,
         NoSegments, Waiting
    <3> QED
      BY <1>5, <3>1 DEF CondStep, WaitBind, TimedBind, WaitUnlock, UnlockFast,
         UnlockSlow, WaitSleep, TimedSleep, Sleep, TimedTooLate, TimedCheck,
         Relock, RelockWait, RelockReturn
  <2>1. CASE Bind(t)
    BY <2>0, <2>1, <1>2 DEF Bind, vars
  <2>2. CASE WaitUnlock(t)
    BY <2>2, MutexKeepsRequeued DEF WaitUnlock, ProgramStep
  <2>3. CASE Sleep(t, "relock") \/ Sleep(t, "check")
    <3>1. /\ cpc[t] = "unlock" /\ UNCHANGED <<locked, contended, waitq, pc>>
          /\ condq' \subseteq condq \cup {t}
          /\ \A u \in Threads \ {t} : cpc'[u] = cpc[u]
      BY <2>3 DEF Sleep, vars
    <3>2. WakeDue => WakeDue'
      BY <3>1 DEF WakeDue, LockedAndContended, Running
    <3>3. BackDue => BackDue'
      BY <3>1 DEF BackDue, Running
    <3> QED
      BY <2>0, <3>1, <3>2, <3>3, NoNewSleepers
  <2>4. CASE TimedTooLate(t) \/ TimedCheck(t)
    BY <2>0, <2>4, <1>2 DEF TimedTooLate, TimedCheck, vars
  <2>5. CASE Relock(t)
    BY <2>5 DEF Relock, SwapContended, NoRequeuedLost, CondWakeDue, WakeDue,
       LockedAndContended
  \* It goes to sleep on the word 257 or is back at the exchange.
  <2>6. CASE RelockWait(t)
    <3>1. CASE LockedAndContended
      BY <2>6, <3>1 DEF RelockWait, FutexWait, NoRequeuedLost, CondWakeDue,
         WakeDue, LockedAndContended
    <3>2. CASE ~LockedAndContended
      BY <2>6, <3>2 DEF RelockWait, FutexWait, NoRequeuedLost, CondWakeDue
    <3> QED
      BY <3>1, <3>2
  <2>7. CASE RelockReturn(t)
    BY <2>0, <2>7, <1>2 DEF RelockReturn
  <2>8. CASE SignalWake(t) \/ BroadcastAdvance(t)
    <3>1. condq' \subseteq condq
      BY <2>8 DEF SignalWake, BroadcastAdvance
    <3> QED
      BY <2>0, <2>8, <3>1, <1>2 DEF SignalWake, BroadcastAdvance, vars
  \* One of those it moves is woken instead.
  <2>9. CASE BroadcastRequeue(t)
    <3>1. CASE condq = {}
      BY <2>0, <2>9, <3>1, <1>2 DEF BroadcastRequeue
    <3>2. CASE condq # {}
      <4>1. PICK w \in condq : waitq' = waitq \cup (condq \ {w})
        BY <2>9, <3>2 DEF BroadcastRequeue
      <4>2. w \notin waitq' /\ cpc[w] \in {"check", "relock"} /\ w # t
        BY <2>9, <4>1 DEF PlacesInv, BroadcastRequeue
      <4>3. w \notin condq' /\ cpc'[w] \in {"check", "relock"}
        BY <2>9, <4>2 DEF BroadcastRequeue
      <4> QED
        BY <4>1, <4>2, <4>3 DEF NoRequeuedLost, CondWakeDue
    <3> QED
      BY <3>1, <3>2
  <2> QED
    BY <1>5, <2>1, <2>2, <2>3, <2>4, <2>5, <2>6, <2>7, <2>8, <2>9
    DEF CondStep, WaitBind, TimedBind, WaitSleep, TimedSleep
\* The kernel wakes: whoever is woken runs to the exchange.
<1>6. ASSUME NEW t \in Threads, CondExpire(t) \/ KernelStep(t)
      PROVE  NoRequeuedLost'
  <2>1. /\ UNCHANGED <<locked, contended, pc, cpc>>
        /\ waitq' \subseteq waitq /\ condq' \subseteq condq
    BY <1>6 DEF CondExpire, KernelStep, CondInterrupt, Expire, Interrupt, vars
  <2>2. WakeDue => WakeDue'
    BY <2>1 DEF WakeDue, LockedAndContended, Running
  <2>3. BackDue => BackDue'
    BY <2>1 DEF BackDue, Running
  <2> QED
    BY <2>1, <2>2, <2>3, NoNewSleepers
<1> QED
  BY <1>1, <1>3, <1>4, <1>5, <1>6 DEF CondNext

\* Without segments, a waiter that a broadcast moved to the mutex always has
\* somebody bound to wake it, although it never marked the word contended: the
\* waiter the broadcast woke carries the duty, or whoever it gave it to.
THEOREM NoRequeuedLostHolds ==
  ASSUME EpochThreads = {}
  PROVE  CondSpec => []NoRequeuedLost
<1>1. CondInit => NoSegments /\ NoRequeuedLost
  BY DEF CondInit, Init, NoSegments, NoRequeuedLost, UntimedSleepers, Requeued
<1>2. CondTypeOK /\ NoSegments /\ [CondNext]_allVars => NoSegments'
  BY CondNoSegmentsStep
<1>3. CondTypeOK /\ PlacesInv /\ NoSegments /\ NoRequeuedLost
        /\ [CondNext]_allVars => NoRequeuedLost'
  BY RequeuedStep
<1> QED
  BY <1>1, <1>2, <1>3, CondTypeCorrect, PlacesCorrect, PTL DEF CondSpec

\* Then a broadcast reaches everyone: once every call has returned and the mutex
\* is free, nobody is left asleep whom it moved there.
THEOREM BroadcastWakesEveryoneHolds ==
  ASSUME EpochThreads = {}
  PROVE  CondSpec => []BroadcastWakesEveryone
<1>1. CondTypeOK /\ PlacesInv /\ NoRequeuedLost => BroadcastWakesEveryone
  <2> SUFFICES ASSUME CondTypeOK, PlacesInv, CondWakeDue, locked = UNLOCKED,
                      \A t \in Threads \ waitq : pc[t] = "idle" /\ cpc[t] = "app"
               PROVE  FALSE
    BY DEF NoRequeuedLost, BroadcastWakesEveryone
  <2>1. \A t \in Threads : pc[t] \notin {"chk1", "chk2", "clr", "wake"}
    BY DEF PlacesInv
  <2>2. ~LockedAndContended
    BY DEF LockedAndContended, LOCKED, UNLOCKED
  <2> QED
    BY <2>1, <2>2 DEF CondWakeDue, WakeDue, Running
<1> QED
  BY <1>1, NoRequeuedLostHolds, CondTypeCorrect, PlacesCorrect, PTL

-----------------------------------------------------------------------------
(* Inside segments: who sleeps on the mutex without a limit.               *)

LEMMA CondTimedStep ==
  ASSUME PlainThreads = {}
  PROVE  CondTypeOK /\ TimedInv /\ [CondNext]_allVars => TimedInv'
<1> SUFFICES ASSUME CondTypeOK, TimedInv, [CondNext]_allVars PROVE TimedInv'
  OBVIOUS
<1> USE DEF CondTypeOK
<1>1. CASE [Next]_vars
  BY <1>1, TimedStep
<1>2. ASSUME NEW t \in Threads, OwnMutexStep(t) PROVE TimedInv'
  BY <1>2 DEF OwnMutexStep, Relock, SwapContended, RelockWait, FutexWait,
     RelockReturn, BroadcastRequeue, CondExpire, TimedInv, Waiting, Goto, TypeOK
<1> QED
  BY <1>1, <1>2, StepsOnTheMutex DEF allVars

\* Only a wait with a deadline looks at the clock again, and it goes on to the
\* mutex awake.
WaiterKinds ==
  \A t \in Threads :
    /\ cpc[t] = "check" => t \in TimedWaiters
    /\ cpc[t] = "relock" /\ t \in condq \cup waitq => t \notin TimedWaiters

LEMMA WaiterKindsStep ==
  CondTypeOK /\ PlacesInv /\ WaiterKinds /\ [CondNext]_allVars => WaiterKinds'
<1> SUFFICES ASSUME CondTypeOK, PlacesInv, WaiterKinds, [CondNext]_allVars
             PROVE  WaiterKinds'
  OBVIOUS
<1> USE DEF CondTypeOK, TypeOK, WaiterKinds, CGoto
<1>1. CASE UNCHANGED cpc /\ condq' \cup waitq' \subseteq condq \cup waitq
  BY <1>1
<1>2. ASSUME NEW t \in Threads, NEW l, l # "check", CGoto(t, l),
             condq' \cup waitq' \subseteq condq \cup waitq,
             l = "relock" => t \notin condq \cup waitq
      PROVE  WaiterKinds'
  BY <1>2
<1>3. ASSUME NEW t \in Threads, CondProgramStep(t) PROVE WaiterKinds'
  <2>1. CASE Begin(t) \/ Signal(t) \/ Broadcast(t)
    BY <2>1, <1>2 DEF Begin, Signal, Broadcast, vars
  <2>2. CASE ProgramStep(t) /\ UNCHANGED condVars
    BY <2>2, <1>1 DEF ProgramStep, Lock, Trylock, SwapLocked, UnlockFast, UnlockSlow,
       EnterSegment, LeaveSegment
  <2> QED
    BY <1>3, <2>1, <2>2 DEF CondProgramStep, WaitStart, TimedStart
<1>4. ASSUME NEW t \in Threads, MutexStep(t) PROVE WaiterKinds'
  <2>1. CASE LockStep(t)
    <3>1. cpc[t] = "app" /\ UNCHANGED <<cpc, condq>> /\ waitq' \subseteq waitq \cup {t}
      BY <1>4, <2>1
      DEF MutexStep, LockStep, TryOnce, Spin, AnnounceWait, TimedWait, TimedReturn,
          UntimedSwap, UntimedWait, SwapLocked, SwapContended, FutexWait, At,
          PlacesInv, Waiting
    <3> QED
      BY <3>1
  <2>2. CASE UnlockStep(t)
    BY <1>4, <2>2, <1>1 DEF MutexStep, UnlockStep, Release, CheckAtOnce,
       CheckAfterDelay, LeaveIfTaken, ClearContended, WakeOne
  <2> QED
    BY <1>4, <2>1, <2>2 DEF MutexStep
<1>5. ASSUME NEW t \in Threads, CondStep(t) PROVE WaiterKinds'
  <2>1. CASE Bind(t)
    BY <2>1, <1>2 DEF Bind, vars
  <2>2. CASE WaitUnlock(t)
    BY <2>2, <1>1 DEF WaitUnlock, UnlockFast, UnlockSlow
  <2>3. CASE WaitSleep(t) \/ TimedSleep(t)
    BY <2>3 DEF WaitSleep, TimedSleep, Sleep, vars
  <2>4. CASE TimedTooLate(t) \/ TimedCheck(t)
    BY <2>4, <1>2 DEF TimedTooLate, TimedCheck, CondAt, At, Running, vars
  <2>5. CASE Relock(t)
    <3>1. PICK l \in {"app", "repark"} : CGoto(t, l)
      BY <2>5 DEF Relock
    <3> QED
      BY <2>5, <3>1, <1>2 DEF Relock, SwapContended
  <2>6. CASE RelockWait(t)
    <3>1. /\ cpc' = [cpc EXCEPT ![t] = "reret"] /\ UNCHANGED condq
          /\ waitq' \subseteq waitq \cup {t}
      BY <2>6 DEF RelockWait, FutexWait
    <3> QED
      BY <3>1
  <2>7. CASE RelockReturn(t)
    BY <2>7, <1>2 DEF RelockReturn, CondAt, At, Running
  <2>8. CASE SignalWake(t) \/ BroadcastAdvance(t) \/ BroadcastRequeue(t)
    <3>1. condq' \cup waitq' \subseteq condq \cup waitq /\ CGoto(t, cpc'[t])
          /\ cpc'[t] \in {"app", "bcwake"}
      BY <2>8 DEF SignalWake, BroadcastAdvance, BroadcastRequeue, vars
    <3> QED
      BY <3>1, <1>2
  <2> QED
    BY <1>5, <2>1, <2>2, <2>3, <2>4, <2>5, <2>6, <2>7, <2>8
    DEF CondStep, WaitBind, TimedBind
<1>6. ASSUME NEW t \in Threads,
             CondExpire(t) \/ KernelStep(t) \/ UNCHANGED allVars
      PROVE  WaiterKinds'
  BY <1>6, <1>1 DEF CondExpire, KernelStep, CondInterrupt, Expire,
     Interrupt, allVars, vars
<1>7. CASE UNCHANGED allVars
  BY <1>7, <1>1 DEF allVars, vars
<1> QED
  BY <1>3, <1>4, <1>5, <1>6, <1>7 DEF CondNext

\* A sleep on the mutex that the kernel ends by itself: that of a lock inside a
\* segment (htll.c:82), of the loop at the end of a wait (222, 284), or of a wait
\* with a deadline that a broadcast has moved (268).
Limited(t) ==
  \/ pc[t] = "tret" \/ cpc[t] = "reret"
  \/ cpc[t] = "check" /\ t \in TimedWaiters

OnlyRequeuedUnlimited ==
  \A t \in waitq : Limited(t) \/ t \in Requeued \ TimedWaiters

\* Where the mutex is locked inside segments only, nobody sleeps on it for good
\* but a waiter without a deadline that a broadcast has moved there; where all
\* waits have deadlines, nobody does.
THEOREM OnlyRequeuedUnlimitedHolds ==
  ASSUME PlainThreads = {}
  PROVE  CondSpec => []OnlyRequeuedUnlimited
<1>1. CondInit => TimedInv /\ WaiterKinds
  BY DEF CondInit, Init, TimedInv, Waiting, WaiterKinds
<1>2. CondTypeOK /\ TimedInv /\ [CondNext]_allVars => TimedInv'
  BY CondTimedStep
<1>3. CondTypeOK /\ PlacesInv /\ TimedInv /\ WaiterKinds => OnlyRequeuedUnlimited
  BY DEF CondTypeOK, TypeOK, PlacesInv, TimedInv, WaiterKinds, OnlyRequeuedUnlimited,
     Limited, Requeued
<1> QED
  BY <1>1, <1>2, <1>3, WaiterKindsStep, CondTypeCorrect, PlacesCorrect, PTL DEF CondSpec
=============================================================================
