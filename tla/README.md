# LiTL/HTLL in TLA+

The repository (`src/litl`) is a library that is preloaded into a Pthread
program and replaces the mutexes and condition variables behind the Pthread
interface. Two lock algorithms are built (`src/litl/src/Makefile`): *HTLL*, a
spin-then-park mutex whose waiters inside a *segment* (a piece of work with a
latency goal) sleep for a bounded, self-adjusting time, and
*pthreadinterpose*, which passes the calls through to the C library. This
directory specifies the library in TLA+, model-checks it with TLC and proves
theorems about it with TLAPS.

Paths below are relative to `src/litl`; "`htll.c:62`" is a line of
`src/litl/src/htll.c`.

## 1. Inventory

| Component | State | Operations | Talks to |
|---|---|---|---|
| **HTLL mutex** `src/htll.c:46-144`, `include/htll.h` | one 32-bit word, byte 0 `locked`, byte 1 `contended`; the kernel's futex queue on the word; `ticks_spin`, `cnt_unlock`, `cnt_wake` | create, lock, trylock, unlock, destroy (empty) | kernel (FUTEX_WAIT/WAKE), segments (sleep limit, `has_waiter`) |
| **HTLL condition variable** `src/htll.c:160-292` | `seq`, the mutex pointer `m`; the futex queue on `seq` | init, wait, timedwait, signal, broadcast, destroy (empty) | the mutex (unlock, relock), kernel (FUTEX_REQUEUE moves waiters to the mutex's queue) |
| **Segments** `src/htll.c:300-377` | per thread: current segment, stack of open segments, window, unit and `has_waiter` per segment | `segment_start`, `segment_end` | read and written by lock and wait |
| **Adaptive spin budget** `src/htll.c:99-106` | `ticks_spin` and two counters, shared and unprotected | adjusted every 2048th slow unlock | lock (length of the spin) |
| **Lock table and wrappers** `src/interpose.c:72-180, 404-468` | buckets of ten (key, value) slots | init, lock, trylock, unlock, timedlock (aborts), destroy (empty) | lock algorithm, every application thread |
| **Condition and rwlock wrappers** `src/interpose.c:470-570, 754-850` | none of their own | look the mutex up, call the algorithm; a read-write lock becomes a mutex | table, algorithm |
| **Start-up and threads** `src/interpose.c:253-402` | `init_spinlock`, `last_thread_id`, thread-local id | constructor, `pthread_create` wrapper, thread start | table (cleared), algorithm |
| **Pass-through lock** `src/pthreadinterpose.c` | two nested C-library mutexes (with COND_VAR), or one | lock, trylock, unlock, wait, signal, broadcast | C library |
| **Waiting policies** `src/waiting_policy.h` | a flag per waiter | sleep, wake (four variants) | kernel (FUTEX_WAIT/WAKE); the queue locks that call them are not in the repository |
| **Core types, allocation** `src/utils.c` | thread-local cached core type | is_big_core, update_core_type, aligned allocation | nothing calls the core type |
| **Micro-benchmark** `bench/bench_block.c` | counters, latency records, stop flag | worker threads, main | client of the library |
| Vendored headers, scripts, Makefiles | - | - | - |

What is hard in this code:

* *Interleaving.* Lock, trylock, unlock, wait and broadcast race on one word
  with exchanges of two widths, a compare-and-swap, a plain byte store that
  releases and another plain store by a thread that no longer holds the mutex.
* *Lost wake-ups.* The unlocker may skip the FUTEX_WAKE three times over
  (fast path, two looks at the byte), the waiter may be about to sleep, a timed
  sleeper may use up the one wake-up and come back as a spinner, and a broadcast
  puts sleepers on the mutex who never announced themselves.
* *Ordering.* A waiter reads `seq`, releases the mutex (with system calls in
  between) and only then sleeps.
* *First use.* A statically initialised mutex is entered in the table at its
  first use, by a lookup and an insertion that are two separate scans.
* *Start-up.* Constructors of other libraries may use mutexes before the table
  is cleared, and hold them then; `pthread_rwlock_init` may run the
  initialisation early, from any thread, while the loader runs it too.
* *Late calls.* A waking thread sets a flag and calls FUTEX_WAKE later, when the
  woken one may wait again (waiting policies).
* *Stale looks.* timedwait looks at the wall clock before and after a sleep that
  the kernel's timer ends; the benchmark reports counts and records that workers go on changing.
* *Bounds.* Ten slots to a bucket and no removal, thread ids never reused,
  unsigned and signed budgets that overflow, a segment stack of 30 checked
  against 256.

Correct means: the mutex excludes (also through the table), a free mutex with
somebody after it does not stay free, a sleeping thread always has somebody
bound to wake it, a condition variable loses no signal that came after the
waiter gave up the mutex, a broadcast reaches everyone, the table maps a mutex
to one lock for good and a lock to one mutex, a lookup ends, a wait with a
deadline ends, a wait on a flag ends when it is woken and not before, a segment's
window and stack match what the program has open, the
library is initialised once before anybody relies on it, thread ids are
distinct, and the benchmark's figures agree with what its workers did.

`PROJECT.json` lists the components, what of each is modelled, and the hazards,
each at its line with the properties that watch it.

## 2. Modules

```
PthreadMutex     what the program is promised: call, grant, trylock, unlock, wait
   ^  implemented by      HtllMutex, HtllCond, PthreadInterpose,
                          LockTable, Startup (per mutex)
   ^  used by             Bench

HtllMutex        <- HtllCond, HtllBudget (extend it), HtllMutexProofs
HtllCond         <- HtllCondProofs (with HtllMutexProofs)
HtllBudget       <- HtllBudgetProofs (with HtllMutexProofs)
LockTable        <- LockTableProofs
PthreadInterpose <- PthreadInterposeProofs
Startup          <- StartupProofs
Segment          <- SegmentProofs
Bench            <- BenchProofs
WaitingPolicy
```

**`PthreadMutex`** is the abstract specification: a thread is out, waiting or
holding; a grant needs that nobody holds.

**`HtllMutex`** is the code of `htll.c:46-144` with one action per atomic access
or system call. `locked` and `contended` are the bytes of the word, `waitq` is
the kernel's queue on it, and `pc` names the access a thread makes next:

| pc | code | action |
|---|---|---|
| `try8` | 67 | `TryOnce`, exchange of the low byte |
| `spin` | 71-73 | `Spin`, one round of the timed loop: an exchange, then maybe the end of the budget |
| `swap` | 76 | `AnnounceWait`, exchange of the word with 257 |
| `tpark`, `tret` | 82-87 | `TimedWait`, `TimedReturn` inside a segment |
| `uswap`, `upark` | 89-90 | `UntimedSwap`, `UntimedWait` outside |
| `cs` | 110 | `UnlockFast`, `UnlockSlow` |
| `rel`, `chk1`, `chk2`, `clr`, `wake` | 120, 122, 128, 133, 135 | `Release` ... `WakeOne` |

`Trylock` is one exchange. `EnterSegment` and `LeaveSegment` are what lock needs
of the segments: whether the thread is inside one and its `has_waiter` flag.
`Expire` and `Interrupt` are the kernel ending a FUTEX_WAIT early. `Threads` are
split by two constants that may overlap: `EpochThreads` may enter segments,
`PlainThreads` may lock outside of them.

**`HtllBudget`** extends it with the spin budget (`htll.c:63, 87, 99-106,
114-117, 134`): `ticks_spin`, the two counters, each call's `spin_ticks`, with
the widths of `unsigned` and `int` and the two halves of the unprotected
`cnt_wake++`. Its steps are HtllMutex's; a spin with a budget below zero, which
the loop compares as a huge unsigned number, does not end in a sleep.

**`HtllCond`** extends HtllMutex with `htll.c:160-292`: `bound` is `c->m # NULL`,
`condq` the queue on `seq`, `cpc` the place in a condition-variable call. The
unlock inside a wait is the mutex's own unlock, step by step; a requeued waiter
sits in `waitq` with `cpc` at `relock` or, if it is a timed waiter, at `check`.
The value of `seq` is reduced to whether it is still the one a waiter read
(`fresh`); `missed` is a history variable that remembers a signal after the
waiter gave up the mutex. `TimedWaiters` use timedwait, with its look at the clock
before the sleep (`TimedTooLate`, or `TimedSleep` when there is time left) and
after it (`TimedCheck`). `CondView` is what the
mutex means to the program here: a thread in a wait wants it back from the
moment the wait's unlock has given it up.

**`Segment`** is one thread's `htll.c:26-38, 150-156, 300-377`: the stack of open
segments, window, unit and `has_waiter` per id. `open` remembers what the program
has open, `paid` which ids waited since their last adjustment. The clock is a
choice between late and in time. A thread is a wrapped one, with the defaults of
`htll_thread_start`, or the main thread, with zeros.

**`LockTable`** is one bucket of `interpose.c:59-178` and the calls that go
through it: mutex calls (404-468), condition waits (486-511), which release and
retake the lock they looked up once, and read-write lock calls (754-850), which
are mutex calls. `hash_get` and `hash_put` are scanned one slot at a time, a key
is claimed and its value stored later. The process ends when the bucket is full,
when an allocation fails and in the timed lock calls. Locks are numbered as they
are allocated and are atomic here; their steps are HtllMutex's. `Racy` are the
statically initialised mutexes whose first uses the program does not order; they
are never passed to `pthread_mutex_init`.

**`Startup`** is `interpose_init` from both its callers, `pthread_create` with
`lp_start_routine`, and mutex calls before, during and after (`interpose.c:
253-402, 429-468, 757-770`). Mutex calls look at nothing but the table, so they may
come before, while and after it is cleared, and a thread may hold a mutex
meanwhile. The table is a map here, its clearing one step and the lock atomic;
`View` is what the program sees of a mutex, as in LockTable. The history variable
`divided` remembers which mutexes were in use when the table was first cleared.

**`PthreadInterpose`** is `pthreadinterpose.c`, with one C-library mutex or, with
COND_VAR, two nested ones (the variable `condVar`), one action per library call.
Its program waits for a flag.

**`Bench`** is `bench_block.c`: workers, their barrier, the stop flag, counts,
latency records and the main thread's report, on the abstract mutex. The number
of workers and of those on the short memory area are chosen at the start, as the
options do. The figures are read one by one while the workers go on.

**`WaitingPolicy`** is `waiting_policy.h`: a flag per thread,
`waiting_policy_sleep` and `waiting_policy_wake` under the four policies (`policy`,
chosen in `Init`), with the kernel's comparison in FUTEX_WAIT, signals, and the
store and the FUTEX_WAKE of the waker apart. `Prepare` and `StartWake` are the
caller, which is not in the repository: the flag is LOCKED when a wait begins, each
wait is woken once, and somebody is left who does not wait. The comment at line 38
says "wait until *var is 0"; the code waits until it is 1.

**`HtllMutexProofs`**, **`HtllCondProofs`**, **`HtllBudgetProofs`**,
**`SegmentProofs`**, **`LockTableProofs`**, **`PthreadInterposeProofs`**,
**`StartupProofs`** and **`BenchProofs`** hold the theorems.

Operators marked "Seeded fault" are broken variants of the action they stand
beside (a dropped return, a wrong exchange, a missing wake-up). No specification
uses them; they exist to show that each property fails when the code does
(section 6).

### What the models abstract

* *Time.* In HtllMutex and HtllCond a spin loop may end after any failed exchange
  and a timed sleep at any moment. This covers every value of `ticks_spin` and of
  the window, also the overflowed ones; HtllBudget and Segment follow the values.
* *Memory order.* Accesses are sequentially consistent. The word is `volatile`,
  the exchanges are `xchg` (full barriers on x86), the release is followed by
  `mfence` (`htll.c:121`), and the calls in between are to functions a shared
  object may interpose, so the compiler does not move accesses across them.
* *Futex.* FUTEX_WAIT compares and enqueues in one step; FUTEX_WAKE takes any
  one sleeper. FUTEX_REQUEUE wakes one and moves the rest.
* *Condition variables.* One mutex per variable (with a second one the wait
  returns EINVAL and changes nothing), and no re-initialisation. A waiter's
  `seq` does not wrap within one wait.
* *Outside a segment* the code indexes `segment[-1]` after a condition wait
  (`htll.c:223, 226`), before the array. The read limits a sleep the model lets
  end at any time; the write is to memory the model does not have.
* *Array bounds.* Segment's program gives ids below `MAX_SEGMENT` and nests at
  most `MAX_DEPTH` deep; Bench's stays within its record arrays. What lies beyond
  depends on the memory layout.
* *Clocks.* The kernel's timer that ends a timed wait's sleep and the wall clock
  that timedwait asks before and after it (`htll.c:249-280`) are different clocks;
  the second may be set. Each look may say anything. The result that the last look
  decides, 0 or ETIMEDOUT, changes nothing else and is not followed: a wait that was
  signalled may report ETIMEDOUT, and one its deadline ended may report 0.
* *The caller.* A thread unlocks only what it holds and does not lock what it
  holds (except a read lock, which LockTable lets a reader take again and then
  wait for itself); segments are entered and left between lock calls or in the
  critical section. In Startup a thread holds one mutex at a time, and a thread
  that creates others has seen initialisation over (before, `pthread_create` of the
  C library is not loaded).
* *Clearing the table* is one step in Startup, and so is a lookup with what it
  enters. In the code the clearing goes from slot to slot and may meet a lookup
  half way (hazard at `interpose.c:277`).
* *Allocation, symbol lookup, formatting* are left out but for their failure
  (`MakeFails`) and their being done (`loaded`).

## 3. Properties and runs

| Run | Instance | Checks | Shows |
|---|---|---|---|
| `htll_untimed` | 4 threads, no segments, fair; 40 k states | `TypeOK`, `MutualExclusion`, `NoLostWakeup`, `ImplementsMutex`, `AcquireProgress` | the spin-then-park protocol is a mutex and loses no wake-up |
| `htll_timed` | 3 threads, locking in segments only, fair; 93 k states | `LockedIffHeld`, `AcquireProgress` | the word tells the truth and a free mutex is taken although wake-ups go to sleepers that time out |
| `budget` | 1 thread in segments and 2 outside, words of 1 bit, fair; 684 k states | `BudgetTypeOK`, `TrapIsFinal`, `BudgetProgress` | a budget below zero is never raised again, and a free mutex does not stay free beside a running waiter |
| `cond_plain` | 3 threads, one waits with a deadline, fair; 119 k states | `NoSignalSleptThrough`, `NoMutexNoWaiters`, `NoRequeuedLost`, `CondImplementsMutex`, `CondProgress`, `TimedWaitEnds` | no signal slept through, no requeued waiter lost, the mutex is one across waits, a wait with a deadline ends |
| `cond_epoch` | 3 threads in segments only | `BroadcastWakesEveryone` (violated) | finding 1 |
| `segments` | 2 ids, depth 3, windows up to 12; 108 k states | `NestingMatches`, `WaitsAreSeen`, `WindowsUsable` | nesting, waits and windows match the program's executions |
| `table_ordered` | 2 threads; a mutex and a read-write lock used in order, a statically initialised mutex raced for; 2 slots, fair; 330 k states | `TypeOK`, `StableLock`, `NoAliasing`, `EntriesAreFinal`, `ImplementsMutexes`, `LookupEnds` | an ordered mutex is one mutex through the table, whatever race goes on beside it in its bucket |
| `table_race` | 2 threads, 1 statically initialised mutex | `SameLock` (violated) | finding 2 |
| `startup` | main, a foreign and two wrapped threads, 2 mutexes, 2 ids, fair; 736 k states | `InitOnce`, `EntriesSurvive`, `ImplementsMutexes`, `InitEnds` | one initialisation, before anybody relies on it, and mutexes that go through it unharmed unless in use when the table is cleared |
| `passthrough` | 3 threads, one or two C-library mutexes, fair; 1.7 k states | `HolderOwns`, `NoWaiterForgotten`, `AcquireProgress`, `ImplementsMutex` | the pass-through lock is a mutex and its waits neither block each other nor miss the flag |
| `bench` | 1 to 3 workers, 2 requests each, fair; 858 k states | `ReportsAgree`, `OnlyLastUnwritten`, `SharedDataKept`, `BenchEnds` | the reports differ from each other by at most one request per worker |
| `waiting_policy` | 3 threads, each of the 4 policies, fair; 3.5 k states | `WakeFindsLocked`, `NoEarlyReturn`, `GrantedReturns` | a wait returns when it was woken and not before, also when a FUTEX_WAKE comes late |

`AdjustmentPaid`, `DistinctIds`, `StartTogether` and the statements of section 5 that
no run names are proved only.

The central ones:

* `NoLostWakeup`: whenever a thread sleeps without a limit, somebody still has
  the duty to wake it: the word is 257 (so the holder cannot take the fast
  path), or an unlocker is before its second look with the contended byte still
  set, or one is about to clear it or to wake, or a running waiter is about to
  mark the word again. This is the invariant behind the early returns of the
  unlock.
* `NoRequeuedLost`: the same for waiters a broadcast moved to the mutex, who
  never wrote 257 themselves. The waiter the broadcast woke carries the duty.
* `CondImplementsMutex`: with waits and broadcasts the mutex still is a Pthread
  mutex. A wait gives it up once, as its holder, and comes back as a holder only
  when nobody else is one, through whichever of its exits.
* `NoSignalSleptThrough`: nobody is asleep on `seq` although it moved after that
  thread gave up the mutex.
* `TimedWaitEnds`: a wait with a deadline ends though nobody signals, also when a
  broadcast has moved it from `seq` to the mutex's queue: the limit of its sleep goes
  with it.
* `TrapIsFinal`: once the budget and those of all calls in progress are below
  zero and nobody is past the spin, nothing leads out. No unlock is slow any
  more, so none is counted, so the budget is never adjusted again.
* `StableLock`, `ImplementsMutexes`: lookups of one mutex meet on the lock of its
  first entry for ever, and so the two levels together are a mutex.
* `BudgetProgress`: whoever is awake and wants a free mutex gets it or another does,
  with any budget and whether threads are in segments or not. Sleepers are the
  concern of `NoLostWakeup` and `AcquireProgress`.
* `EntriesSurvive`, `ImplementsMutexes` (Startup): the table is cleared before
  initialisation is over for anybody and never again; to the program each mutex
  stays one Pthread mutex, but for those that were in use at that moment
  (section 4, last paragraph).
* `NoEarlyReturn`: a waker that has stored the flag and not yet called FUTEX_WAKE may
  end the next sleep of the same thread. The last loop of the sleep
  (`waiting_policy.h:149, 191`) holds it then. The comment there asks whether memory
  reordering is the reason that the flag is not set yet; the late call is one
  without it.
* `WaitsAreSeen`: `has_waiter` belongs to the id and not to the execution; inner
  executions do not lose the outer one's wait (of other ids). What the fast-out
  path keeps is charged to a later execution, once (`AdjustmentPaid`, proved).
* `OnlyLastUnwritten`, `ReportsAgree`: the main thread does not join the workers
  it reports on; it may print a latency that is not recorded, the last only.
* `SharedDataKept`: an access reads one word of a line to write the other, twice,
  with nothing but the mutex around it. Whenever nobody holds the mutex the line
  has grown by two for each request of its area's workers: no access was lost.

**Bounds.** Four threads are a holder or an unlocker in its late phase, a new
holder, and two sleepers: every duty of `NoLostWakeup` can be in different hands
while two threads sleep. Three in segments give an unlocker, a timed waiter that
uses up its wake-up, and another that sleeps. Three threads around the condition
variable give two waiters and a broadcaster, the fewest with a requeue. In
LockTable `made` is bounded by the slots: a thread that does not find a slot ends
the process. Two slots let a mutex be entered twice or beside another, and let
the bucket run full; ten differ only in length, and the theorems hold for any
length. The budget's word has one bit, so that a budget is 0 or below zero, with an
adjustment every second slow unlock and thresholds of 1: wrapping, both
adjustments and lost increments all happen, with two threads that may sleep beside
a third; the theorems hold for any width. `cnt_wake` is followed up
to one past the upper threshold, since it is only compared with it. Segment's
windows grow up to `MaxWindow`, three times the default, enough for halving to
end above and below the floor; a halved window's unit is a third of it instead
of a 99th. Startup has one wrapped thread more than ids. WaitingPolicy's three threads are a
waiter, a waker that is late and one that wakes the next wait. Bench's workers make at most
`MaxRequests` requests each: a worker that has made them waits for the stop flag.
No symmetry is used: most passing runs check liveness, and the others are small.

**Deadlock** is checked in HtllMutex, HtllBudget, HtllCond, Segment,
PthreadInterpose and WaitingPolicy. In LockTable and Startup the process may end (bucket full, too
many threads), and in Bench it ends, so there it is not. In LockTable a reader
that takes a read lock twice waits for itself besides.

**Fairness.** The scheduler runs a thread that is inside the library, so the
steps of lock, unlock, lookup, initialisation and of the condition-variable calls
are weakly fair, each thread's apart; the kernel's timers fire, so `Expire` and
`CondExpire` are too.
Nothing obliges the program to unlock, to signal or to call anything; trylock,
segment calls and `Interrupt` are unfair. No strong fairness is assumed: a
particular waiter may starve, and the code does not promise otherwise, so
`AcquireProgress` speaks of the mutex being taken by somebody. Lock operations in
LockTable and Startup are not assumed fair at all. In WaitingPolicy the steps inside
the two functions are fair, and nothing obliges a caller to wake. In Bench every thread is
scheduled (it is a closed program), but who waits for the lock need not get it,
and the main thread ends all the same.

## 4. Findings

1. **A broadcast's waiter left behind** (`cond_epoch`). Threads lock inside
   segments only. A requeued waiter sleeps on the mutex with no limit (it went to
   sleep in the wait on `seq`). The unlock clears `contended` and wakes a timed
   locker instead; that one starts over at `htll.c:67` with the low-byte exchange
   and holds the mutex with the word at 1. Its unlock is "Locked and not contended"
   (109) and fast: no wake-up. The comment at `htll.c:193` says "We are waking
   everyone up". Without segments it does (`BroadcastWakesEveryoneHolds`). Inside
   segments no other sleeper is in danger, and none at all if every wait has a
   deadline (`OnlyRequeuedUnlimitedHolds`). The same loss strands an untimed locker
   where threads inside and outside segments share a mutex, and nowhere else: that
   is why `NoStrandedSleeperHolds` and the runs `htll_untimed` and `htll_timed` keep
   the two apart.
2. **Two locks for one mutex** (`table_race`). `hash_put` does not look for its
   key, so two first uses at once each enter a lock and each thread goes on with
   its own. The comment at `interpose.c:157-161` describes a table in which one
   of the two insertions fails.

Facts of the code that the models state and that no text of the repository denies:
a spin budget below zero is for good (`TrapIsFinal`); the main thread's windows
are zero until it is late once (`WindowsUsable`); a reader waits for itself; the
thread id meant for the main thread goes to whoever initialises.

A mutex that somebody holds, or has looked up and is about to take, when
`interpose.c:277` clears the table is divided: the next thread to lock it gets a new
lock and holds the mutex too, and the first one's unlock releases that lock. This
can happen when a thread holds a mutex and initialises a read-write lock
(`interpose.c:757-763`), or when one keeps it from a constructor on. Startup has
these behaviours and remembers the mutexes in `divided`; no other mutex is ever held
twice (`ExclusiveUnlessDividedHolds`).

## 5. Theorems

| Theorem | Statement | For |
|---|---|---|
| `HtllMutexProofs!TypeCorrect` | `Spec => []TypeOK` | any threads |
| `HtllMutexProofs!HolderCorrect` | `Spec => [](MutualExclusion /\ LockedIffHeld)` | any threads, in and out of segments |
| `HtllMutexProofs!MutualExclusionHolds` | `Spec => []MutualExclusion` | same |
| `HtllMutexProofs!NoLostWakeupHolds` | `Spec => []NoLostWakeup` | any threads, none of which enters a segment |
| `HtllMutexProofs!ImplementsMutexHolds` | `Spec => ImplementsMutex` | any threads |
| `HtllMutexProofs!NoStrandedSleeperHolds` | `Spec => []NoStrandedSleeper` | any threads, if none enters a segment or none locks outside of one |
| `HtllCondProofs!CondMutualExclusionHolds` | `CondSpec => []MutualExclusion` | any threads, in and out of segments, with and without deadlines |
| `HtllCondProofs!CondImplementsMutexHolds` | `CondSpec => CondImplementsMutex` | same |
| `HtllCondProofs!NoMutexNoWaitersHolds` | `CondSpec => []NoMutexNoWaiters` | same |
| `HtllCondProofs!NoSignalSleptThroughHolds` | `CondSpec => []NoSignalSleptThrough` | same |
| `HtllCondProofs!NoRequeuedLostHolds` | `CondSpec => []NoRequeuedLost` | any threads, none of which enters a segment |
| `HtllCondProofs!BroadcastWakesEveryoneHolds` | `CondSpec => []BroadcastWakesEveryone` | same |
| `HtllCondProofs!OnlyRequeuedUnlimitedHolds` | `CondSpec => []OnlyRequeuedUnlimited` | any threads, none of which locks outside segments |
| `SegmentProofs!TypeCorrect` | `Spec => []TypeOK` | any ids, depth, window constants |
| `SegmentProofs!NestingMatchesHolds` | `Spec => []NestingMatches` | same |
| `SegmentProofs!WaitsAreSeenHolds` | `Spec => []WaitsAreSeen` | same |
| `SegmentProofs!WindowsUsableHolds` | `Spec => []WindowsUsable` | same |
| `SegmentProofs!AdjustmentPaidHolds` | `Spec => AdjustmentPaid` | same |
| `LockTableProofs!TypeCorrect` | `Spec => []TypeOK` | any threads, mutexes, bucket length |
| `LockTableProofs!NoAliasingHolds` | `Spec => []NoAliasing` | same, raced first uses included |
| `LockTableProofs!EntriesAreFinalHolds` | `Spec => EntriesAreFinal` | same |
| `LockTableProofs!StableLockHolds` | `Spec => []StableLock` | same, for the mutexes whose first use is ordered |
| `LockTableProofs!SameLockUnlessRacedHolds` | `Spec => []SameLockUnlessRaced` | same |
| `LockTableProofs!AwaitedSlotHasClaimerHolds` | `Spec => []AwaitedSlotHasClaimer` | all mutexes, raced first uses included |
| `LockTableProofs!ImplementsMutexesHolds` | `Spec => ImplementsMutexes` | for the mutexes whose first use is ordered |
| `HtllBudgetProofs!BudgetImplementsMutex` | `BudgetSpec => Spec /\ ImplementsMutex /\ []MutualExclusion` | any threads, widths, units, thresholds |
| `HtllBudgetProofs!BudgetLosesNoWakeup` | `BudgetSpec => []NoLostWakeup` | same, if no thread enters a segment |
| `HtllBudgetProofs!BudgetTypeCorrect` | `BudgetSpec => []BudgetTypeOK` | any threads, widths, units, thresholds |
| `HtllBudgetProofs!TrapIsFinalHolds` | `BudgetSpec => TrapIsFinal` | same |
| `PthreadInterposeProofs!HolderOwnsHolds` | `Spec => []HolderOwns` | any threads, both builds |
| `PthreadInterposeProofs!NoWaiterForgottenHolds` | `Spec => []NoWaiterForgotten` | same |
| `PthreadInterposeProofs!ImplementsMutexHolds` | `Spec => ImplementsMutex` | same |
| `StartupProofs!InitOnceHolds` | `Spec => []InitOnce` | any threads, mutexes, thread limit |
| `StartupProofs!EntriesSurviveHolds` | `Spec => EntriesSurvive` | same |
| `StartupProofs!DistinctIdsHolds` | `Spec => []DistinctIds` | same |
| `StartupProofs!ExclusiveUnlessDividedHolds` | `Spec => []ExclusiveUnlessDivided` | same |
| `StartupProofs!AwaitedInitialiserIsThereHolds` | `Spec => []AwaitedInitialiserIsThere` | same |
| `StartupProofs!ImplementsMutexesHolds` | `Spec => ImplementsMutexes` | same |
| `BenchProofs!TypeCorrect` | `Spec => []TypeOK` | any numbers of threads and requests |
| `BenchProofs!StartTogetherHolds` | `Spec => []StartTogether` | same |
| `BenchProofs!BarrierAwaitsSomebodyHolds` | `Spec => []BarrierAwaitsSomebody` | same |
| `BenchProofs!ReportsAgreeHolds` | `Spec => []ReportsAgree` | same |
| `BenchProofs!OnlyLastUnwrittenHolds` | `Spec => []OnlyLastUnwritten` | same |
| `BenchProofs!SharedDataKeptHolds` | `Spec => []SharedDataKept` | same |

Assumptions on the constants are those of the modules: who may be what
(`ThreadsAssumption`, `TimedWaitersAssumption`, `TableAssumption`,
`StartupAssumption`), null pointers that are no value (`NullAssumption`,
`NoneIsNoImpl`, `NoneIsNoThread`), numbers that are numbers, with floors not above
defaults (`BudgetAssumption`, `WindowAssumption`) or with a largest one
(`BenchAssumption`). `EpochThreads = {}` in `NoLostWakeupHolds`,
`NoRequeuedLostHolds`, `BroadcastWakesEveryoneHolds` and `BudgetLosesNoWakeup` says that no thread uses
segments; without it the loss of finding 1 refutes them.
The bounds that are constants (`MaxWindow`, `MaxRequests`) may have any value.

*Mutex.* Neither mutual exclusion nor the truth of the low byte is inductive
alone: an exchange that finds 0 makes a second holder unless 0 means nobody
holds, and that stays true only if a release comes from the one holder. Their
conjunction `HolderInv` is inductive. The exchanges of both widths and the
releases are each one lemma, cited for every action that performs one.

*Wake-ups.* `WakeInv` adds `PlainInv`: without segments nobody is ever at
`tpark` or `tret`, and a thread asleep resumes at `uswap`, so the queue consists
of untimed sleepers. The proof goes through the ways the duty passes on: a
low-byte exchange keeps `contended`; a word exchange sets it; the early returns
of the unlock are taken only when `locked` is set, which with `contended` is the
first kind of duty; and a woken thread is at `uswap`. These steps are the lemma
`DutyPassesOn`, which the condition variable uses again. Where nobody locks
outside segments, nobody ever is at `uswap` (`TimedInv`), so that in either case a
free mutex has no sleeper without a limit.

*Refinement.* `Spec => ImplementsMutex` maps `pc` to out, waiting and holding.
A step is a grant exactly when an exchange finds 0, which by `HolderInv` means
that nobody holds; every other step moves no thread between the three.

*Condition variable.* All of it rests on `PlacesInv`: whoever sleeps on `seq` has
left the mutex's code, a thread on its way back is not in it either, and a call
past its binding has bound the variable, which is `NoMutexNoWaiters` when nothing
is bound. `HolderInv` survives because a waiter on its way back takes the mutex by
the exchange of the lock. `SeqInv` says that a value of `seq` that is still fresh
has missed nothing: a signal makes every value read before it stale, and the
kernel's comparison lets only a thread with a fresh one sleep. `NoRequeuedLost` is
inductive with `NoSegments` and `PlacesInv`: a broadcast wakes one waiter and moves
the others, and the one it wakes, being at `check` or `relock`, owes them the
exchange that marks the word; from then on the duty passes on as above, also
within the unlock of another wait. Inside segments the duty can be lost (finding
1), but `TimedInv` and `WaiterKinds` (a wait with a deadline sleeps at `check`
only, whichever queue it is in) say whom that can leave behind:
`OnlyRequeuedUnlimited`.

*Segments.* `NestingMatches` compares sequences. `Aligned` says the same place by
place (each open segment but the innermost has its id on the stack one place
up), which a push and a pop preserve. For `WaitsAreSeen` the end of a segment may
clear only its own id's flag, so an open segment of that id has to know that it
shares it: `SharedKnown`. `FlagPaid` (a set flag was paid for) gives
`AdjustmentPaid`; `WindowsUsable` is inductive, by the arithmetic of halving.

*Table.* `NoAliasing` needs who owns what on the way into the table:
`SlotsFilled` (a value has a key), `FreshLocks` (a lock not yet published is in no
slot and with one thread), `ClaimsHold` (a claimed slot is its claimer's alone),
`UsesEntered` (a lock in use is in the table under the mutex of the call) and
`OnePlace`. `EntriesAreFinal` follows step by step from the same invariant.

`StableLock` is about time: a mutex is looked up again and again while entries
are added, by others and for itself. `StableInv` says that slots are claimed from
the first (`ClaimsInOrder`), that a thread which enters an ordered mutex by using
it is alone with it and finds it unentered when it publishes (`FirstUses`), and
that a lookup does not pass the first entry (`FirstEntries`); with `HeldInv`, the
lock of the first entry is taken while somebody holds the mutex, the refinement
follows: `TakeLock` grants only what nobody holds, and an unlock frees the lock its
own thread took. `SameLockUnlessRaced` is finding 2 from the other side: a mutex
has one first entry, so only first uses that cross can divide its users.

*Budget.* Every step of HtllBudget is a step of HtllMutex or leaves its variables
alone, so all invariants of the mutex hold with any budget, overflowed or not.
The trap needs one of them: out of it leads only a slow unlock, and an unlock is
slow when the word is not 1. `LockedIffHeld` gives the holder a set low byte, the
trap that nobody has set the high one.

*Pass-through lock.* `OwnerInv` says who owns which of the two C-library mutexes
at which place, in either build. That whoever is between lock and unlock owns
what the build locks follows from it at once, and so does the refinement: a
thread becomes holder by the lock of the mutex that has one owner among the
holders. For `NoWaiterForgotten` the step that counts is the broadcast: the
broadcaster is in the critical section, so nobody else is on the way from it into
the sleep, and everybody asleep is woken.

*Start-up.* `InitOnce` does not say that `init_spinlock` never goes back nor who
may set it to 2. `OneInitialises` does: at most one thread is busy initialising,
none while it is 0 or 2, and nobody is through before it is 2. The step that
clears the table is taken by the busy one, hence before anybody is through;
that is `EntriesSurvive`. Thread numbers differ because all of them are below
the counter (`IdsInv`). `ExclusiveUnlessDivided` rests
on `HeldByEntry`: a held mutex that is not divided has an entry of its own, whose
lock is taken. Clearing breaks that for the mutexes in use, and puts them among the
divided; it can do so only while nobody is through, which `OneInitialises`
says. The same invariant gives the refinement: clearing moves no
thread in the view of any mutex, and whoever finds the lock of the entry free, old
or new, finds a mutex that is not divided free.

*Benchmark.* The barrier knows how many have come, not who. `BarrierInv` equates
its count with the cardinality of those past it, all of them among the
created; when the count is full the two sets are equal. The report follows from
two bookkeeping invariants: a worker's count is one ahead of its records exactly
between counting and recording (`CountsInv`), and after the stop flag a count
grows by one at most, since a worker that has grown it is past the test
(`ReadsInv`). For `SharedDataKept` the requests of an area are a set of pairs, of
worker and number, rather than a sum; `SharedInv` says that one worker holds the
mutex at a time and that a line is two behind its requests exactly while a worker
of its area is between counting and the second write. Counting adds one pair
(`CountAdds`), and the two writes, made from each other, add two.

*Waiting.* Liveness under fairness is beyond the prover, but the part of it that is
about the state is not: whoever waits in a lookup, in `interpose_init` or at the
benchmark's barrier waits for somebody else who can go on
(`AwaitedSlotHasClaimer`, `AwaitedInitialiserIsThere`, `BarrierAwaitsSomebody`), and
a sleeper on the mutex has somebody bound to wake it (`NoLostWakeup`). For the
barrier this takes one more invariant, that workers are created in order
(`CreatedInv`).

Every invariant and every action property of the other modules' passing runs is
proved (`LockedIffHeld` within `HolderCorrect`; `NoLostWakeup`, `NoRequeuedLost` without
segments, as in their runs). Only model-checked is liveness: `AcquireProgress`,
`CondProgress`, `TimedWaitEnds`, `LookupEnds`, `BudgetProgress`, `InitEnds`,
`BenchEnds`, `GrantedReturns`; and all of WaitingPolicy, whose states are few.

## 6. Seeded faults

Every property of every passing run has a fault in the code's terms that breaks
it, listed under "mutants" in `PROJECT.json`. Examples: an untimed waiter that
locks with the low-byte exchange (`NoLostWakeup`), an unlock that falls through
after the compare-and-swap (`ImplementsMutex`), `seq` read after the unlock
(`NoSignalSleptThrough`), a timed sleep without its limit (`TimedWaitEnds`), a
FUTEX_WAKE before the store (`GrantedReturns`), a store
instead of the compare-and-swap on the key (`StableLock`), a slot taken without
comparing the key (`NoAliasing`), a look and a store instead of the
compare-and-swap of the initialisation (`EntriesSurvive`), `has_waiter` cleared
after the pop (`WaitsAreSeen`), the two mutexes of a wait released in the wrong
order (`HolderOwns`), a flag that is not read anew (`ReportsAgree`).

## 7. Not modelled

Not modelled, with the reason:

* The queue locks that `compile_commands.json` lists and that would call
  `waiting_policy.h` are not in the repository. Both algorithms of the Makefile are
  built with WAITING_ORIGINAL, under which the header defines no function.
* `interpose.c:591-752`, the read-write try lock, is compiled only with RWTAS
  defined, which no Makefile target does; its lock is not in the repository.
* The core type functions of `utils.c` have no callers.
* The commented-out spin locks of `interpose.c:531-589`.
* Vendored headers (`atomic_ops.h`, `platform_defs.h`, `utils.h`, `padding.h`)
  have no state; `mcssteal.h` declares a lock whose code is missing; scripts and
  Makefiles do not run with the program.
* Hazards without a property (`PROJECT.json`, each with a note): accesses beyond
  an array (`segment[-1]`, id 256, depth 31, record arrays) and reads of freed
  thread-local storage, whose outcome depends on the memory layout; the EINVAL of
  a second mutex, which changes nothing; a read lock taken twice; the slot-by-slot
  clearing of the table; and behaviour that the models have but nothing in the
  repository judges: a full bucket that ends the process, lost increments of
  `cnt_wake`, a stale `has_waiter`, a segment closed by a wrong id, a window without
  a cap, the result of a timed wait.
