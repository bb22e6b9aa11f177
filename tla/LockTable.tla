------------------------------ MODULE LockTable ------------------------------
(***************************************************************************)
(* The table of src/litl/src/interpose.c that finds the lock behind an     *)
(* application's mutex or read-write lock, and the calls that go through   *)
(* it: those on mutexes and read-write locks, and waits on conditions.     *)
(*                                                                         *)
(* One bucket is modelled: slots are claimed by a compare-and-swap on the  *)
(* key, filled afterwards, and never given back (destroy does nothing).    *)
(* A mutex that was not initialised by a call is entered at its first use. *)
(* A read-write lock is a mutex here, for its readers too.  The locks      *)
(* themselves are atomic here; HtllMutex has their steps.                  *)
(***************************************************************************)
EXTENDS Naturals

CONSTANTS
  Threads,
  Mutexes,        \* addresses of application locks that share a bucket
  Rwlocks,        \* those that are read-write locks
  Racy,           \* statically initialised ones, which several threads may use
                  \* for the first time at once; the others have an init call
                  \* or a first use that is ordered before every other use
  BucketLength,   \* slots of a bucket
  None            \* a null key, value or argument

ASSUME TableAssumption ==
  /\ Racy \subseteq Mutexes /\ Rwlocks \subseteq Mutexes
  /\ None \notin Mutexes
  /\ BucketLength \in Nat \ {0}

Slots == 1 .. BucketLength
Impls == Nat \ {0}      \* lock_transparent_mutex_t, numbered as allocated
Ops   == {"init", "lock", "trylock", "unlock", "wait"}

ASSUME NullAssumption == None \notin Impls \cup Ops

VARIABLES
  key, value,   \* of each slot
  made,         \* how many locks have been allocated
  taken,        \* the locks whose word says locked
  holds,        \* history: the mutexes each thread was given
  pc,           \* next step of each thread
  op, arg,      \* the call it is in, and the mutex passed
  at,           \* index of its scan of the bucket
  impl,         \* the lock it found or made
  exited        \* the process has ended: no room, no memory, or a timed call

table    == <<key, value>>
locks    == <<taken, holds>>
call     == <<op, arg>>
vars     == <<key, value, made, taken, holds, pc, op, arg, at, impl, exited>>

Labels == {"idle", "get", "value", "make", "put", "publish", "use", "asleep"}

TypeOK ==
  /\ key \in [Slots -> Mutexes \cup {None}]
  /\ value \in [Slots -> Impls \cup {None}]
  /\ made \in Nat
  /\ taken \subseteq Impls
  /\ holds \in [Threads -> SUBSET Mutexes]
  /\ pc \in [Threads -> Labels]
  /\ op \in [Threads -> Ops \cup {None}]
  /\ arg \in [Threads -> Mutexes \cup {None}]
  /\ at \in [Threads -> 1 .. BucketLength + 1]
  /\ impl \in [Threads -> Impls \cup {None}]
  /\ exited \in BOOLEAN

Init ==
  /\ key = [i \in Slots |-> None]
  /\ value = [i \in Slots |-> None]
  /\ made = 0
  /\ taken = {}
  /\ holds = [t \in Threads |-> {}]
  /\ pc = [t \in Threads |-> "idle"]
  /\ op = [t \in Threads |-> None]
  /\ arg = [t \in Threads |-> None]
  /\ at = [t \in Threads |-> 1]
  /\ impl = [t \in Threads |-> None]
  /\ exited = FALSE

Goto(t, l) == pc' = [pc EXCEPT ![t] = l]

\* The call is over; its arguments and locals are gone.
Return(t) ==
  /\ Goto(t, "idle")
  /\ op' = [op EXCEPT ![t] = None]
  /\ arg' = [arg EXCEPT ![t] = None]
  /\ at' = [at EXCEPT ![t] = 1]
  /\ impl' = [impl EXCEPT ![t] = None]

-----------------------------------------------------------------------------
(* The program: what it may call, and when.                                *)

\* Nobody holds m or is in a call on it.
Quiet(m) == \A u \in Threads : arg[u] # m /\ m \notin holds[u]

\* m has an entry, and no (re-)initialisation is going on.
Known(m) ==
  /\ \E i \in Slots : key[i] = m /\ value[i] # None
  /\ \A u \in Threads : ~(op[u] = "init" /\ arg[u] = m)

MayUse(m) == m \in Racy \/ Known(m) \/ Quiet(m)

Call(t, o, m, first) ==
  /\ pc[t] = "idle"
  /\ op' = [op EXCEPT ![t] = o]
  /\ arg' = [arg EXCEPT ![t] = m]
  /\ Goto(t, first)
  /\ UNCHANGED <<table, made, locks, at, impl, exited>>

\* pthread_mutex_init, also of a mutex initialised before and destroyed since:
\* destroy does nothing.  A mutex initialised statically is never passed to it.
MutexInit(t, m) == m \notin Racy /\ Quiet(m) /\ Call(t, "init", m, "make")

MutexLock(t, m)    == m \notin holds[t] /\ MayUse(m) /\ Call(t, "lock", m, "get")
MutexTrylock(t, m) == m \notin holds[t] /\ MayUse(m) /\ Call(t, "trylock", m, "get")
MutexUnlock(t, m)  == m \in holds[t] /\ Call(t, "unlock", m, "get")

\* pthread_cond_wait and pthread_cond_timedwait.
CondWait(t, m) == m \in holds[t] /\ Call(t, "wait", m, "get")

\* pthread_rwlock_init, _wrlock, _trywrlock, _tryrdlock and _unlock do what the
\* mutex calls do.  So does _rdlock, but a reader may call it once more.
RwlockInit(t, m)   == MutexInit(t, m)
RwlockWrlock(t, m) == MutexLock(t, m)
RwlockTry(t, m)    == MutexTrylock(t, m)
RwlockUnlock(t, m) == MutexUnlock(t, m)
RwlockRdlock(t, m) == MayUse(m) /\ Call(t, "lock", m, "get")

EndProcess ==
  /\ exited' = TRUE
  /\ UNCHANGED <<table, made, locks, pc, call, at, impl>>

\* pthread_mutex_timedlock, pthread_rwlock_timedrdlock and _timedwrlock abort.
MutexTimedlock(t)  == pc[t] = "idle" /\ EndProcess
RwlockTimedlock(t) == MutexTimedlock(t)

-----------------------------------------------------------------------------
(* hash_get.                                                               *)

NextSlot(t) ==
  /\ at' = [at EXCEPT ![t] = @ + 1]
  /\ UNCHANGED <<table, made, locks, pc, call, impl, exited>>

\* Seeded fault: the scan goes on one slot past the bucket.
GetSkipPastEnd(t) ==
  /\ pc[t] = "get"
  /\ at[t] \in 1 .. BucketLength + 1
  /\ at[t] \in Slots => key[at[t]] # arg[t]
  /\ NextSlot(t)

GetSkip(t) ==
  /\ pc[t] = "get"
  /\ at[t] \in Slots
  /\ key[at[t]] # arg[t]
  /\ NextSlot(t)

\* Seeded fault: a slot is taken for a hit without comparing the key.
GetHitAnyKey(t) ==
  /\ pc[t] = "get"
  /\ at[t] \in Slots
  /\ key[at[t]] # None
  /\ Goto(t, "value")
  /\ UNCHANGED <<table, made, locks, call, at, impl, exited>>

GetHit(t) ==
  /\ pc[t] = "get"
  /\ at[t] \in Slots
  /\ key[at[t]] = arg[t]
  /\ Goto(t, "value")
  /\ UNCHANGED <<table, made, locks, call, at, impl, exited>>

\* The slot was claimed; wait until it is filled.
GetValue(t) ==
  /\ pc[t] = "value"
  /\ value[at[t]] # None
  /\ impl' = [impl EXCEPT ![t] = value[at[t]]]
  /\ Goto(t, "use")
  /\ UNCHANGED <<table, made, locks, call, at, exited>>

\* ht_lock_get creates a lock for a mutex it does not find.
GetMiss(t) ==
  /\ pc[t] = "get"
  /\ at[t] \notin Slots
  /\ Goto(t, "make")
  /\ UNCHANGED <<table, made, locks, call, at, impl, exited>>

-----------------------------------------------------------------------------
(* ht_lock_create and hash_put.                                            *)

MakeLock(t) ==
  /\ pc[t] = "make"
  /\ made' = made + 1
  /\ impl' = [impl EXCEPT ![t] = made + 1]
  /\ at' = [at EXCEPT ![t] = 1]
  /\ Goto(t, "put")
  /\ UNCHANGED <<table, locks, call, exited>>

\* alloc_cache_align gets no memory.
MakeFails(t) == pc[t] = "make" /\ EndProcess

\* Seeded faults: a plain store after the look at the key, which loses to a
\* claim in between; the mutex's own entry is claimed again.
PutClaimByStore(t) ==
  /\ pc[t] = "put"
  /\ at[t] \in Slots
  /\ \/ key[at[t]] = None
     \/ \E u \in Threads : pc[u] = "publish" /\ at[u] = at[t]
  /\ key' = [key EXCEPT ![at[t]] = arg[t]]
  /\ Goto(t, "publish")
  /\ UNCHANGED <<value, made, locks, call, at, impl, exited>>

PutClaimAgain(t) ==
  /\ pc[t] = "put"
  /\ at[t] \in Slots
  /\ key[at[t]] \in {None, arg[t]}
  /\ key' = [key EXCEPT ![at[t]] = arg[t]]
  /\ Goto(t, "publish")
  /\ UNCHANGED <<value, made, locks, call, at, impl, exited>>

\* The look at the key and the compare-and-swap: a slot once claimed stays so.
PutClaim(t) ==
  /\ pc[t] = "put"
  /\ at[t] \in Slots
  /\ key[at[t]] = None
  /\ key' = [key EXCEPT ![at[t]] = arg[t]]
  /\ Goto(t, "publish")
  /\ UNCHANGED <<value, made, locks, call, at, impl, exited>>

PutSkip(t) ==
  /\ pc[t] = "put"
  /\ at[t] \in Slots
  /\ key[at[t]] # None
  /\ NextSlot(t)

PutFull(t) ==
  /\ pc[t] = "put"
  /\ at[t] \notin Slots
  /\ EndProcess

\* Seeded fault: the slot stays empty.
PublishNothing(t) ==
  /\ pc[t] = "publish"
  /\ \/ op[t] = "init" /\ Return(t)
     \/ op[t] # "init" /\ Goto(t, "use") /\ UNCHANGED <<call, at, impl>>
  /\ UNCHANGED <<table, made, locks, exited>>

\* The caller goes on with the lock it made, not with the one the table holds.
Publish(t) ==
  /\ pc[t] = "publish"
  /\ value' = [value EXCEPT ![at[t]] = impl[t]]
  /\ \/ op[t] = "init" /\ Return(t)
     \/ op[t] # "init" /\ Goto(t, "use") /\ UNCHANGED <<call, at, impl>>
  /\ UNCHANGED <<key, made, locks, exited>>

-----------------------------------------------------------------------------
(* The operation on the lock itself.                                       *)

TakeLock(t) ==
  /\ pc[t] = "use"
  /\ op[t] \in {"lock", "trylock"}
  /\ impl[t] \notin taken
  /\ taken' = taken \cup {impl[t]}
  /\ holds' = [holds EXCEPT ![t] = @ \cup {arg[t]}]
  /\ Return(t)
  /\ UNCHANGED <<table, made, exited>>

\* Seeded fault: the wrapper does not pass EBUSY on.
FindTakenUnnoticed(t) ==
  /\ pc[t] = "use"
  /\ op[t] = "trylock"
  /\ impl[t] \in taken
  /\ holds' = [holds EXCEPT ![t] = @ \cup {arg[t]}]
  /\ Return(t)
  /\ UNCHANGED <<table, made, taken, exited>>

\* EBUSY.
FindTaken(t) ==
  /\ pc[t] = "use"
  /\ op[t] = "trylock"
  /\ impl[t] \in taken
  /\ Return(t)
  /\ UNCHANGED <<table, made, locks, exited>>

\* The word does not say who locked it.
ReleaseLock(t) ==
  /\ pc[t] = "use"
  /\ op[t] = "unlock"
  /\ taken' = taken \ {impl[t]}
  /\ holds' = [holds EXCEPT ![t] = @ \ {arg[t]}]
  /\ Return(t)
  /\ UNCHANGED <<table, made, exited>>

\* A wait gives up the lock it looked up and retakes the same one, without a
\* second lookup.  When its sleep ends is HtllCond's matter.
WaitRelease(t) ==
  /\ pc[t] = "use"
  /\ op[t] = "wait"
  /\ taken' = taken \ {impl[t]}
  /\ holds' = [holds EXCEPT ![t] = @ \ {arg[t]}]
  /\ Goto(t, "asleep")
  /\ UNCHANGED <<table, made, call, at, impl, exited>>

WaitRetake(t) ==
  /\ pc[t] = "asleep"
  /\ impl[t] \notin taken
  /\ taken' = taken \cup {impl[t]}
  /\ holds' = [holds EXCEPT ![t] = @ \cup {arg[t]}]
  /\ Return(t)
  /\ UNCHANGED <<table, made, exited>>

-----------------------------------------------------------------------------
MutexCall(t, m) ==
  \/ MutexInit(t, m) \/ MutexLock(t, m) \/ MutexTrylock(t, m)
  \/ MutexUnlock(t, m) \/ CondWait(t, m)

RwlockCall(t, m) ==
  \/ RwlockInit(t, m) \/ RwlockWrlock(t, m) \/ RwlockTry(t, m)
  \/ RwlockUnlock(t, m) \/ RwlockRdlock(t, m)

ProgramStep(t) ==
  \/ \E m \in Mutexes \ Rwlocks : MutexCall(t, m) \/ MutexTimedlock(t)
  \/ \E m \in Rwlocks : RwlockCall(t, m) \/ RwlockTimedlock(t)

LookupStep(t) ==
  \/ GetSkip(t) \/ GetHit(t) \/ GetValue(t) \/ GetMiss(t)
  \/ MakeLock(t) \/ MakeFails(t) \/ PutClaim(t) \/ PutSkip(t) \/ PutFull(t) \/ Publish(t)

LockStep(t) ==
  \/ TakeLock(t) \/ FindTaken(t) \/ ReleaseLock(t)
  \/ WaitRelease(t) \/ WaitRetake(t)

Next ==
  /\ ~exited
  /\ \E t \in Threads : ProgramStep(t) \/ LookupStep(t) \/ LockStep(t)

Spec == Init /\ [][Next]_vars

\* A thread inside the library is scheduled until the process ends.
FairSpec ==
  /\ Spec
  /\ \A t \in Threads : WF_vars(~exited /\ LookupStep(t))

-----------------------------------------------------------------------------
(* Properties.                                                             *)

InUse(t) == pc[t] \in {"use", "asleep"}

\* "only one call to clht_put will succeed.  For the failing thread, we ...
\* retrieve the ones inserted by the successful thread" (interpose.c:157-161):
\* two threads that use a mutex at the same time use the same lock.
SameLock ==
  \A t, u \in Threads :
    InUse(t) /\ InUse(u) /\ arg[t] = arg[u] => impl[t] = impl[u]

\* The slot that every later lookup of m finds, of slots with these keys.
FirstIn(keys, m, i) == keys[i] = m /\ \A j \in 1 .. i - 1 : keys[j] # m

\* Whoever operates on a mutex, by a lookup (interpose.c:109-122) or right after
\* entering it (147-178), does so on the lock of the first entry, and goes on
\* doing so when the mutex is destroyed and initialised again (404-427) and so
\* gets further entries.
StableLock ==
  \A t \in Threads :
    InUse(t) /\ arg[t] \notin Racy
      => \E i \in Slots : FirstIn(key, arg[t], i) /\ value[i] = impl[t]

\* A lock serves one mutex: no two slots share it, and it is in use only for
\* the mutex it was entered for, although makers number, claim and fill slots
\* in any order (interpose.c:90-107, 147-178).
NoAliasing ==
  /\ \A i, j \in Slots : value[i] # None /\ value[i] = value[j] => i = j
  /\ \A t \in Threads : InUse(t) =>
       \A i \in Slots : value[i] = impl[t] => key[i] = arg[t]

\* An entry never changes: what a lookup returned stays true (the callers keep
\* it without a lock, interpose.c:429-468).
EntriesAreFinal ==
  [][\A i \in Slots :
       /\ key[i] # None => key'[i] = key[i]
       /\ value[i] # None => value'[i] = value[i]]_vars

\* A lookup does not hang: the wait for a claimed slot to be filled
\* (interpose.c:115) ends, or the process does.
LookupEnds ==
  \A t \in Threads :
    pc[t] # "idle" ~> exited \/ pc[t] = "idle" \/ InUse(t)

\* What the program sees of mutex m.
View(m) == [t \in Threads |->
  IF m \in holds[t] THEN "holding"
  ELSE IF arg[t] = m /\ (op[t] = "lock" \/ pc[t] = "asleep") THEN "waiting"
  ELSE "out"]

App(m) == INSTANCE PthreadMutex WITH st <- View(m)

\* Through the table every mutex that is not raced for is a Pthread mutex: its
\* lock and unlock calls, each with a lookup of its own, meet on one lock
\* (interpose.c:147-178, 429-468).
ImplementsMutexes ==
  /\ \A m \in Mutexes \ Racy : App(m)!Init
  /\ [][\A m \in Mutexes \ Racy : App(m)!Next \/ UNCHANGED View(m)]_vars
=============================================================================
