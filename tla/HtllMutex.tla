------------------------------ MODULE HtllMutex ------------------------------
(***************************************************************************)
(* The HTLL mutex of src/litl/src/htll.c: a spin-then-park lock over one   *)
(* 32-bit word whose low byte says "locked" and second byte "contended".   *)
(* Waiters outside any segment sleep without a limit; waiters inside a     *)
(* segment sleep for at most the segment's reorder window and then retry.  *)
(*                                                                         *)
(* One action per atomic access to the word or per system call; pc names   *)
(* the access a thread makes next.  A thread asleep in FUTEX_WAIT on the   *)
(* word is in waitq and its pc is where it resumes.                        *)
(*                                                                         *)
(* Abstracted: the time a spin loop lasts (it may end after any failed     *)
(* exchange) and with it ticks_spin, cnt_unlock and cnt_wake, which feed   *)
(* back only into that time and are HtllBudget's; cur_segment_id, to       *)
(* whether it is -1, Segment having the rest.                              *)
(***************************************************************************)
EXTENDS Naturals

CONSTANTS
  Threads,         \* the threads that use the mutex
  EpochThreads,    \* those that bracket work with segment_start/segment_end
  PlainThreads     \* those that may lock the mutex outside any segment

ASSUME ThreadsAssumption ==
  EpochThreads \subseteq Threads /\ PlainThreads \subseteq Threads

VARIABLES
  locked,      \* l.b.locked
  contended,   \* l.b.contended
  waitq,       \* threads asleep in the kernel on the word's futex
  pc,          \* next access of each thread
  inSegment,   \* cur_segment_id # -1
  hasWaiter    \* has_waiter of the thread's segment

segmentVars == <<inSegment, hasWaiter>>
vars == <<locked, contended, waitq, pc, inSegment, hasWaiter>>

UNLOCKED    == 0
LOCKED      == 1
UNCONTENDED == 0
CONTENDED   == 1

\* The three values of the word the code compares against: 1, and 257 with
\* both bytes set.
LockedOnly         == locked = LOCKED /\ contended = UNCONTENDED
LockedAndContended == locked = LOCKED /\ contended = CONTENDED

Waiting == {"try8", "spin", "swap", "tpark", "tret", "uswap", "upark"}
Holding == {"cs", "rel"}
Leaving == {"chk1", "chk2", "clr", "wake"}
Labels  == {"idle"} \cup Waiting \cup Holding \cup Leaving

Running(t) == t \notin waitq
Holder(t)  == pc[t] \in Holding
At(t, l)   == pc[t] = l /\ Running(t)
Goto(t, l) == pc' = [pc EXCEPT ![t] = l]

TypeOK ==
  /\ locked \in {UNLOCKED, LOCKED}
  /\ contended \in {UNCONTENDED, CONTENDED}
  /\ waitq \subseteq Threads
  /\ pc \in [Threads -> Labels]
  /\ inSegment \in [Threads -> BOOLEAN]
  /\ hasWaiter \in [Threads -> BOOLEAN]

\* htll_mutex_create: the word starts unlocked and uncontended.
Init ==
  /\ locked = UNLOCKED
  /\ contended = UNCONTENDED
  /\ waitq = {}
  /\ pc = [t \in Threads |-> "idle"]
  /\ inSegment = [t \in Threads |-> FALSE]
  /\ hasWaiter = [t \in Threads |-> FALSE]

-----------------------------------------------------------------------------
(* Accesses to the word.                                                   *)

\* Seeded fault: an atomic increment of the byte instead of the exchange.
SwapLockedByAdd(t, got, missed) ==
  /\ locked' = locked + 1
  /\ \/ locked = UNLOCKED /\ Goto(t, got)
     \/ locked # UNLOCKED /\ \E l \in missed : Goto(t, l)
  /\ UNCHANGED <<contended, waitq, segmentVars>>

\* xchgb of LOCKED into the low byte: `got` follows when the old value was
\* UNLOCKED, one of the labels in `missed` when it was not.
SwapLocked(t, got, missed) ==
  /\ locked' = LOCKED
  /\ \/ locked = UNLOCKED /\ Goto(t, got)
     \/ locked # UNLOCKED /\ \E l \in missed : Goto(t, l)
  /\ UNCHANGED <<contended, waitq, segmentVars>>

\* xchgl of 257 into the whole word.
SwapContended(t, got, missed) ==
  /\ locked' = LOCKED
  /\ contended' = CONTENDED
  /\ Goto(t, IF locked = UNLOCKED THEN got ELSE missed)
  /\ UNCHANGED <<waitq, segmentVars>>

\* FUTEX_WAIT with expected value 257: the kernel compares and enqueues in
\* one step; with any other value in the word the call returns at once.
FutexWait(t, resume) ==
  /\ waitq' = IF LockedAndContended THEN waitq \cup {t} ELSE waitq
  /\ Goto(t, resume)
  /\ UNCHANGED <<locked, contended, segmentVars>>

-----------------------------------------------------------------------------
(* htll_mutex_lock.                                                        *)

Lock(t) ==
  /\ At(t, "idle")
  /\ inSegment[t] \/ t \in PlainThreads
  /\ Goto(t, "try8")
  /\ UNCHANGED <<locked, contended, waitq, segmentVars>>

TryOnce(t) == At(t, "try8") /\ SwapLocked(t, "cs", {"spin"})

\* One round of HTLL_FOR_N_CYCLES: an exchange comes before every look at the
\* clock, and the budget may be used up after any of them.
Spin(t) == At(t, "spin") /\ SwapLocked(t, "cs", {"spin", "swap"})

\* Announce the wait, unless the mutex turns out to be free.
AnnounceWait(t) ==
  /\ At(t, "swap")
  /\ SwapContended(t, "cs", IF inSegment[t] THEN "tpark" ELSE "uswap")

\* Inside a segment: sleep for at most the reorder window, note that this
\* segment had to wait, and start over.
TimedWait(t) == At(t, "tpark") /\ FutexWait(t, "tret")

\* Seeded fault: sleep again without a new exchange.
TimedReturnResleeps(t) == At(t, "tret") /\ FutexWait(t, "tret")

TimedReturn(t) ==
  /\ At(t, "tret")
  /\ hasWaiter' = [hasWaiter EXCEPT ![t] = TRUE]
  /\ Goto(t, "try8")
  /\ UNCHANGED <<locked, contended, waitq, inSegment>>

\* Seeded faults: a woken waiter locks as a spinner does and forgets the other
\* sleepers; a woken waiter takes the wake-up for a hand-over.
UntimedSwapLowByte(t)  == At(t, "uswap") /\ SwapLocked(t, "cs", {"upark"})
UntimedWaitHandover(t) == At(t, "upark") /\ FutexWait(t, "cs")

\* Outside: exchange and sleep until the exchange finds the mutex free.
UntimedSwap(t) == At(t, "uswap") /\ SwapContended(t, "cs", "upark")
UntimedWait(t) == At(t, "upark") /\ FutexWait(t, "uswap")

\* htll_mutex_trylock: EBUSY leaves the caller where it was.
Trylock(t) == At(t, "idle") /\ SwapLocked(t, "cs", {"idle"})

-----------------------------------------------------------------------------
(* htll_mutex_unlock.                                                      *)

\* Seeded fault: the return after the compare-and-swap is missing.
UnlockFastFallsThrough(t) ==
  /\ At(t, "cs")
  /\ LockedOnly
  /\ locked' = UNLOCKED
  /\ Goto(t, "rel")
  /\ UNCHANGED <<contended, waitq, segmentVars>>

\* Compare-and-swap of 1 to 0.
UnlockFast(t) ==
  /\ At(t, "cs")
  /\ LockedOnly
  /\ locked' = UNLOCKED
  /\ Goto(t, "idle")
  /\ UNCHANGED <<contended, waitq, segmentVars>>

\* The word is not 1, at the first look or at the compare-and-swap.
UnlockSlow(t) ==
  /\ At(t, "cs")
  /\ ~LockedOnly
  /\ Goto(t, "rel")
  /\ UNCHANGED <<locked, contended, waitq, segmentVars>>

\* Seeded fault: the slow path releases and returns.
ReleaseWithoutWake(t) ==
  /\ At(t, "rel")
  /\ locked' = UNLOCKED
  /\ Goto(t, "idle")
  /\ UNCHANGED <<contended, waitq, segmentVars>>

Release(t) ==
  /\ At(t, "rel")
  /\ locked' = UNLOCKED
  /\ Goto(t, "chk1")
  /\ UNCHANGED <<contended, waitq, segmentVars>>

\* Another thread took the mutex: it will do the waking.
LeaveIfTaken(t, next) ==
  /\ Goto(t, IF locked = LOCKED THEN "idle" ELSE next)
  /\ UNCHANGED <<locked, contended, waitq, segmentVars>>

CheckAtOnce(t)     == At(t, "chk1") /\ LeaveIfTaken(t, "chk2")
CheckAfterDelay(t) == At(t, "chk2") /\ LeaveIfTaken(t, "clr")

\* Seeded fault: clear the whole word.
ClearWord(t) ==
  /\ At(t, "clr")
  /\ locked' = UNLOCKED
  /\ contended' = UNCONTENDED
  /\ Goto(t, "wake")
  /\ UNCHANGED <<waitq, segmentVars>>

ClearContended(t) ==
  /\ At(t, "clr")
  /\ contended' = UNCONTENDED
  /\ Goto(t, "wake")
  /\ UNCHANGED <<locked, waitq, segmentVars>>

\* FUTEX_WAKE of one: the kernel takes any thread off the queue.
WakeOne(t) ==
  /\ At(t, "wake")
  /\ Goto(t, "idle")
  /\ \/ waitq = {} /\ waitq' = waitq
     \/ \E w \in waitq : waitq' = waitq \ {w}
  /\ UNCHANGED <<locked, contended, segmentVars>>

-----------------------------------------------------------------------------
(* The kernel, and the thread's own segments.                              *)

\* The reorder window of a timed sleeper is over.
Expire(t) ==
  /\ t \in waitq
  /\ pc[t] = "tret"
  /\ waitq' = waitq \ {t}
  /\ UNCHANGED <<locked, contended, pc, segmentVars>>

\* FUTEX_WAIT may return because of a signal.
Interrupt(t) ==
  /\ t \in waitq
  /\ waitq' = waitq \ {t}
  /\ UNCHANGED <<locked, contended, pc, segmentVars>>

\* segment_start and segment_end run between lock calls or while holding the
\* mutex.  segment_end clears has_waiter except on its fast-out path.  Only
\* one level of nesting matters here.
EnterSegment(t) ==
  /\ t \in EpochThreads
  /\ ~inSegment[t]
  /\ At(t, "idle") \/ At(t, "cs")
  /\ inSegment' = [inSegment EXCEPT ![t] = TRUE]
  /\ UNCHANGED <<locked, contended, waitq, pc, hasWaiter>>

LeaveSegment(t) ==
  /\ inSegment[t]
  /\ At(t, "idle") \/ At(t, "cs")
  /\ inSegment' = [inSegment EXCEPT ![t] = FALSE]
  /\ \E kept \in {FALSE, hasWaiter[t]} :
        hasWaiter' = [hasWaiter EXCEPT ![t] = kept]
  /\ UNCHANGED <<locked, contended, waitq, pc>>

-----------------------------------------------------------------------------
LockStep(t) ==
  \/ TryOnce(t) \/ Spin(t) \/ AnnounceWait(t)
  \/ TimedWait(t) \/ TimedReturn(t)
  \/ UntimedSwap(t) \/ UntimedWait(t)

UnlockStep(t) ==
  \/ Release(t) \/ CheckAtOnce(t) \/ CheckAfterDelay(t)
  \/ ClearContended(t) \/ WakeOne(t)

\* What the program may do next, or leave undone for ever.
ProgramStep(t) ==
  \/ Lock(t) \/ Trylock(t) \/ UnlockFast(t) \/ UnlockSlow(t)
  \/ EnterSegment(t) \/ LeaveSegment(t)

Next ==
  \E t \in Threads :
    ProgramStep(t) \/ LockStep(t) \/ UnlockStep(t) \/ Expire(t) \/ Interrupt(t)

Spec == Init /\ [][Next]_vars

\* The scheduler runs a thread that is inside the library, and timers fire.
\* Nothing obliges a program to unlock, or a signal to arrive.
Fairness ==
  \A t \in Threads :
    WF_vars(LockStep(t)) /\ WF_vars(UnlockStep(t)) /\ WF_vars(Expire(t))

FairSpec == Spec /\ Fairness

-----------------------------------------------------------------------------
(* Properties.                                                             *)

\* At most one thread is between a successful lock or trylock and the store
\* that releases the mutex, although three kinds of exchange (htll.c:67-77,
\* 89, 140) and two kinds of release (110, 120) race on the same word.
MutualExclusion ==
  \A t, u \in Threads : Holder(t) /\ Holder(u) => t = u

\* The mutex word and the threads agree: the low byte is set exactly while
\* some thread holds the mutex, so neither a failed exchange (htll.c:67, 71,
\* 76, 89, 140), which writes the byte too, nor an unlocker that is past its
\* release (128-135) leaves it locked without an owner or open with one.
LockedIffHeld == locked = LOCKED <=> \E t \in Threads : Holder(t)

\* A thread that sleeps without a limit.
UntimedSleepers == {t \in waitq : pc[t] = "uswap"}

\* Someone is bound to wake a sleeper: the holder, who will not take the fast
\* path; an unlocker that has not yet given the duty away; or a thread about
\* to mark the word contended again.
WakeDue ==
  \/ LockedAndContended
  \/ contended = CONTENDED /\ \E t \in Threads : pc[t] \in {"chk1", "chk2"}
  \/ \E t \in Threads : pc[t] \in {"clr", "wake"}
  \/ \E t \in Threads : Running(t) /\ pc[t] \in {"swap", "uswap"}

\* No thread sleeps without a limit unless somebody is bound to wake it: the
\* early returns of the unlock (htll.c:110-112, 122, 128) and its late clear of
\* the contended byte (133) never lose the last wake-up.
NoLostWakeup == UntimedSleepers # {} => WakeDue

\* The plain reading of the comment at the fast path, "Locked and not
\* contended" (htll.c:109): when every call has returned and the mutex is free,
\* the fast path has not left a thread asleep for good.
NoStrandedSleeper ==
  locked = UNLOCKED /\ (\A t \in Threads \ waitq : pc[t] = "idle")
    => UntimedSleepers = {}

\* A free mutex that somebody wants is taken in the end: spinning, timed and
\* untimed waiters, unlockers that skip the wake-up and those that do it too
\* late (htll.c:62-96, 108-137) never all give up at the same time.
AcquireProgress ==
  (locked = UNLOCKED /\ \E t \in Threads : pc[t] \in Waiting)
    ~> locked = LOCKED

-----------------------------------------------------------------------------
(* What the mutex means to the program.                                    *)

View(l) == IF l \in Waiting THEN "waiting"
           ELSE IF l \in Holding THEN "holding" ELSE "out"

Mutex == INSTANCE PthreadMutex WITH st <- [t \in Threads |-> View(pc[t])]

\* Every step of the code is a step of a Pthread mutex or invisible to the
\* program: a lock call returns only to the one thread that took the free
\* mutex, and the mutex is given up only by its holder (htll.c:62-144).
ImplementsMutex == Mutex!Spec
=============================================================================
