------------------------------ MODULE HtllCond ------------------------------
(***************************************************************************)
(* The condition variable of src/litl/src/htll.c together with the mutex   *)
(* it is used with: a sequence number that signallers advance and waiters  *)
(* sleep on.  A broadcast wakes one waiter and moves the others onto the   *)
(* futex of the mutex, whose unlocker then has to wake them.               *)
(*                                                                         *)
(* The mutex is HtllMutex, step by step.  cpc says where a thread is in a  *)
(* call on the condition variable; "app" means in none.                    *)
(*                                                                         *)
(* Abstracted: the value of seq, to whether it still is the one a waiter   *)
(* read (its 2^32 values do not wrap between the read and the sleep); the  *)
(* clocks of timedwait, of which the kernel's timer may end the sleep at   *)
(* any moment and each look at the wall clock may say anything, so that    *)
(* its result, which decides nothing here, is not followed.  One mutex is  *)
(* used with the variable: with a second one wait returns EINVAL and does  *)
(* nothing.                                                                *)
(***************************************************************************)
EXTENDS HtllMutex

CONSTANT TimedWaiters   \* the threads that wait with htll_cond_timedwait

ASSUME TimedWaitersAssumption == TimedWaiters \subseteq Threads

VARIABLES
  bound,       \* c->m # NULL
  condq,       \* threads asleep in the kernel on the futex of c->seq
  cpc,         \* where each thread is in a condition-variable call
  fresh,       \* c->seq still has the value the waiter is about to sleep on
  missed       \* history: seq moved after the waiter gave up the mutex

condVars == <<bound, condq, cpc, fresh, missed>>
allVars  == <<vars, condVars>>

WaitLabels   == {"bind", "unlock", "check", "relock", "repark", "reret"}
SignalLabels == {"sigwake", "bcast", "bcwake"}

\* A waiter has given up the mutex and is about to sleep, or sleeps.
Committed(w) == cpc[w] = "unlock" /\ ~Holder(w)
Blocked(w)   == w \in condq \/ Committed(w)

CondTypeOK ==
  /\ TypeOK
  /\ bound \in BOOLEAN
  /\ condq \subseteq Threads
  /\ cpc \in [Threads -> {"app"} \cup WaitLabels \cup SignalLabels]
  /\ fresh \in [Threads -> BOOLEAN]
  /\ missed \in [Threads -> BOOLEAN]

\* upmutex_cond1_init: no mutex, no waiters.
CondInit ==
  /\ Init
  /\ bound = FALSE
  /\ condq = {}
  /\ cpc = [t \in Threads |-> "app"]
  /\ fresh = [t \in Threads |-> FALSE]
  /\ missed = [t \in Threads |-> FALSE]

CGoto(t, l) == cpc' = [cpc EXCEPT ![t] = l]

\* t is inside a condition-variable call, awake, and not inside the mutex code.
CondAt(t, l) == cpc[t] = l /\ At(t, "idle") /\ t \notin condq

\* t may call a condition-variable operation, holding the mutex or not.
MayCall(t) == cpc[t] = "app" /\ (At(t, "idle") \/ At(t, "cs"))

-----------------------------------------------------------------------------
(* upmutex_cond1_wait and htll_cond_timedwait.                             *)

\* The caller holds the mutex; remember seq.
Begin(t) ==
  /\ cpc[t] = "app"
  /\ At(t, "cs")
  /\ CGoto(t, "bind")
  /\ fresh' = [fresh EXCEPT ![t] = TRUE]
  /\ missed' = [missed EXCEPT ![t] = FALSE]
  /\ UNCHANGED <<vars, bound, condq>>

WaitStart(t)  == t \notin TimedWaiters /\ Begin(t)
TimedStart(t) == t \in TimedWaiters /\ Begin(t)

\* Bind the variable to the mutex; the unlock comes next.
Bind(t) ==
  /\ cpc[t] = "bind"
  /\ bound' = TRUE
  /\ CGoto(t, "unlock")
  /\ UNCHANGED <<vars, condq, fresh, missed>>

WaitBind(t)  == t \notin TimedWaiters /\ Bind(t)
TimedBind(t) == t \in TimedWaiters /\ Bind(t)

WaitUnlock(t) ==
  /\ cpc[t] = "unlock"
  /\ UnlockFast(t) \/ UnlockSlow(t)
  /\ UNCHANGED condVars

\* Seeded fault: seq is read after the unlock, so the kernel's look at it
\* always succeeds.
SleepLateRead(t, next) ==
  /\ CondAt(t, "unlock")
  /\ condq' = condq \cup {t}
  /\ fresh' = [fresh EXCEPT ![t] = FALSE]
  /\ CGoto(t, next)
  /\ UNCHANGED <<vars, bound, missed>>

\* FUTEX_WAIT on seq: sleep unless seq moved.
Sleep(t, next) ==
  /\ CondAt(t, "unlock")
  /\ condq' = IF fresh[t] THEN condq \cup {t} ELSE condq
  /\ fresh' = [fresh EXCEPT ![t] = FALSE]
  /\ CGoto(t, next)
  /\ UNCHANGED <<vars, bound, missed>>

WaitSleep(t) == t \notin TimedWaiters /\ Sleep(t, "relock")

\* Seeded fault: the sleep is given no limit.
TimedSleepNoLimit(t) == t \in TimedWaiters /\ Sleep(t, "relock")

\* The wall clock says that there is time left, and the sleep is limited to it.
TimedSleep(t) == t \in TimedWaiters /\ Sleep(t, "check")

\* The wall clock says before the sleep that the deadline has passed.
TimedTooLate(t) ==
  /\ CondAt(t, "unlock")
  /\ t \in TimedWaiters
  /\ fresh' = [fresh EXCEPT ![t] = FALSE]
  /\ CGoto(t, "relock")
  /\ UNCHANGED <<vars, bound, condq, missed>>

\* Whatever ended the sleep, the wall clock is asked for the result.
TimedCheck(t) ==
  /\ CondAt(t, "check")
  /\ CGoto(t, "relock")
  /\ UNCHANGED <<vars, bound, condq, fresh, missed>>

\* Seeded faults: a woken waiter takes the mutex for handed over, or locks it
\* like a spinner.
RelockHandover(t) ==
  /\ CondAt(t, "relock")
  /\ SwapContended(t, "cs", "cs")
  /\ CGoto(t, "app")
  /\ missed' = [missed EXCEPT ![t] = FALSE]
  /\ UNCHANGED <<bound, condq, fresh>>

RelockLowByte(t) ==
  /\ CondAt(t, "relock")
  /\ SwapLocked(t, "cs", {"idle"})
  /\ CGoto(t, IF locked = UNLOCKED THEN "app" ELSE "repark")
  /\ missed' = [missed EXCEPT ![t] = FALSE]
  /\ UNCHANGED <<bound, condq, fresh>>

\* Exchange the whole word until it was free, sleeping in between.
Relock(t) ==
  /\ CondAt(t, "relock")
  /\ SwapContended(t, "cs", "idle")
  /\ CGoto(t, IF locked = UNLOCKED THEN "app" ELSE "repark")
  /\ missed' = [missed EXCEPT ![t] = FALSE]
  /\ UNCHANGED <<bound, condq, fresh>>

RelockWait(t) ==
  /\ CondAt(t, "repark")
  /\ FutexWait(t, "idle")
  /\ CGoto(t, "reret")
  /\ UNCHANGED <<bound, condq, fresh, missed>>

\* Seeded fault: sleep again without a new exchange.
RelockResleeps(t) ==
  /\ CondAt(t, "reret")
  /\ CGoto(t, "repark")
  /\ UNCHANGED <<vars, bound, condq, fresh, missed>>

\* Outside any segment the flag is written in front of the segment array.
RelockReturn(t) ==
  /\ CondAt(t, "reret")
  /\ hasWaiter' = [hasWaiter EXCEPT ![t] = @ \/ inSegment[t]]
  /\ CGoto(t, "relock")
  /\ UNCHANGED <<locked, contended, waitq, pc, inSegment>>
  /\ UNCHANGED <<bound, condq, fresh, missed>>

-----------------------------------------------------------------------------
(* upmutex_cond1_signal and upmutex_cond1_broadcast.                       *)

\* seq moves: whoever has read it but does not sleep yet will not sleep.
AdvanceSeq ==
  /\ fresh' = [w \in Threads |-> FALSE]
  /\ missed' = [w \in Threads |-> missed[w] \/ Committed(w)]

Signal(t) ==
  /\ MayCall(t)
  /\ AdvanceSeq
  /\ CGoto(t, "sigwake")
  /\ UNCHANGED <<vars, bound, condq>>

\* FUTEX_WAKE of one.
SignalWake(t) ==
  /\ cpc[t] = "sigwake"
  /\ CGoto(t, "app")
  /\ \/ condq = {} /\ condq' = condq
     \/ \E w \in condq : condq' = condq \ {w}
  /\ UNCHANGED <<vars, bound, fresh, missed>>

\* Without a mutex there is nothing to do.
Broadcast(t) ==
  /\ MayCall(t)
  /\ bound
  /\ CGoto(t, "bcast")
  /\ UNCHANGED <<vars, bound, condq, fresh, missed>>

BroadcastAdvance(t) ==
  /\ cpc[t] = "bcast"
  /\ AdvanceSeq
  /\ CGoto(t, "bcwake")
  /\ UNCHANGED <<vars, bound, condq>>

\* Seeded fault: forget the mutex, everyone having been woken.
BroadcastUnbinds(t) ==
  /\ cpc[t] = "bcwake"
  /\ CGoto(t, "app")
  /\ condq' = {}
  /\ bound' = FALSE
  /\ \/ condq = {} /\ waitq' = waitq
     \/ \E w \in condq : waitq' = waitq \cup (condq \ {w})
  /\ UNCHANGED <<locked, contended, pc, segmentVars, fresh, missed>>

\* FUTEX_REQUEUE: wake one, move the rest to the futex of the mutex.
BroadcastRequeue(t) ==
  /\ cpc[t] = "bcwake"
  /\ CGoto(t, "app")
  /\ condq' = {}
  /\ \/ condq = {} /\ waitq' = waitq
     \/ \E w \in condq : waitq' = waitq \cup (condq \ {w})
  /\ UNCHANGED <<locked, contended, pc, segmentVars>>
  /\ UNCHANGED <<bound, fresh, missed>>

-----------------------------------------------------------------------------
(* The kernel.                                                             *)

\* A sleeper of the relock loop is timed; a waiter with a deadline is, on
\* either futex.  The kernel's timer knows nothing of the wall clock.
CondExpire(t) ==
  /\ \/ cpc[t] = "reret" /\ t \in waitq
     \/ cpc[t] = "check" /\ t \in waitq \cup condq
  /\ waitq' = waitq \ {t}
  /\ condq' = condq \ {t}
  /\ UNCHANGED <<locked, contended, pc, segmentVars>>
  /\ UNCHANGED <<bound, cpc, fresh, missed>>

\* A signal interrupts the sleep on seq.
CondInterrupt(t) ==
  /\ t \in condq
  /\ condq' = condq \ {t}
  /\ UNCHANGED <<vars, bound, cpc, fresh, missed>>

-----------------------------------------------------------------------------
\* What the program may do next, or leave undone for ever.
CondProgramStep(t) ==
  \/ cpc[t] = "app" /\ ProgramStep(t) /\ UNCHANGED condVars
  \/ WaitStart(t) \/ TimedStart(t) \/ Signal(t) \/ Broadcast(t)

MutexStep(t) == (LockStep(t) \/ UnlockStep(t)) /\ UNCHANGED condVars

CondStep(t) ==
  \/ WaitBind(t) \/ TimedBind(t) \/ WaitUnlock(t) \/ WaitSleep(t)
  \/ TimedSleep(t) \/ TimedTooLate(t) \/ TimedCheck(t)
  \/ Relock(t) \/ RelockWait(t) \/ RelockReturn(t)
  \/ SignalWake(t) \/ BroadcastAdvance(t) \/ BroadcastRequeue(t)

KernelStep(t) ==
  \/ (Expire(t) \/ Interrupt(t)) /\ UNCHANGED condVars
  \/ CondInterrupt(t)

CondNext ==
  \E t \in Threads :
    CondProgramStep(t) \/ MutexStep(t) \/ CondStep(t) \/ CondExpire(t)
      \/ KernelStep(t)

CondSpec == CondInit /\ [][CondNext]_allVars

\* Threads inside the library run and their timers fire; no thread has to
\* signal, and no waiter has to be given the mutex.
CondFairSpec ==
  /\ CondSpec
  /\ \A t \in Threads :
       WF_allVars(MutexStep(t)) /\ WF_allVars(CondStep(t)) /\ WF_allVars(CondExpire(t))

-----------------------------------------------------------------------------
(* Properties.                                                             *)

\* Nobody sleeps through a signal or broadcast that came after it gave up the
\* mutex: seq is read before the unlock (htll.c:205, 235), and the kernel looks
\* at it again before the sleep (219, 268), so the window between unlock and
\* sleep, however long the unlock takes to wake others, is closed.
NoSignalSleptThrough == \A w \in condq : ~missed[w]

\* "No mutex means that there are no waiters" (htll.c:189), which is why a
\* broadcast may return without looking at the queue.
NoMutexNoWaiters == ~bound => \A t \in Threads : ~Blocked(t)

\* A waiter that a broadcast moved to the mutex has no timed retry of its own:
\* somebody is bound to wake it there, as for the untimed sleepers of the lock.
Requeued == {t \in waitq : cpc[t] \in {"check", "relock"}}

CondWakeDue ==
  \/ WakeDue
  \/ \E t \in Threads :
       Running(t) /\ t \notin condq /\ cpc[t] \in {"check", "relock", "reret"}

NoRequeuedLost == UntimedSleepers \cup Requeued # {} => CondWakeDue

\* A wait with a deadline comes back to the mutex though nobody signals, on
\* whichever futex it sleeps: the broadcast that moves it to the mutex
\* (htll.c:197), where its first sleep had no business, leaves it the limit it
\* set for seq (268).
TimedWaitEnds ==
  \A t \in TimedWaiters : Blocked(t) ~> CondAt(t, "relock")

\* "We are waking everyone up" (htll.c:193): when every call has returned and
\* the mutex is free, no waiter of a broadcast is asleep for good.
BroadcastWakesEveryone ==
  (/\ locked = UNLOCKED
   /\ condq = {}
   /\ \A t \in Threads \ waitq : pc[t] = "idle" /\ cpc[t] = "app")
    => Requeued \ TimedWaiters = {}

\* What the mutex means to the program: in a wait, from the moment it is given
\* up, the thread wants it back.
CondView(t) ==
  IF cpc[t] \in WaitLabels /\ ~Holder(t) THEN "waiting" ELSE View(pc[t])

CondMutex == INSTANCE PthreadMutex WITH st <- [t \in Threads |-> CondView(t)]

\* Waits and broadcasts leave the mutex a Pthread mutex (htll.c:160-292): a wait
\* gives it up once, as its holder, and returns with it, granted when nobody
\* held it, whether it slept on seq, on the mutex or not at all.
CondImplementsMutex == CondMutex!Spec

\* t is waiting for the mutex, in a lock or at the end of a wait.
Wants(t) ==
  \/ pc[t] \in Waiting
  \/ cpc[t] \in {"check", "relock", "repark", "reret"} /\ t \notin condq

\* A free mutex that a locker or a waiter on its way back wants is taken in the
\* end, with waiters asleep on it that a broadcast put there (htll.c:197) and
\* never marked the word contended themselves.
CondProgress ==
  (locked = UNLOCKED /\ \E t \in Threads : Wants(t)) ~> locked = LOCKED
=============================================================================
