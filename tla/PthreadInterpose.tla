-------------------------- MODULE PthreadInterpose --------------------------
(***************************************************************************)
(* The pass-through lock of src/litl/src/pthreadinterpose.c: a mutex made  *)
(* of C-library mutexes, one of them in a build without COND_VAR, two      *)
(* nested ones with it.  With two, a condition wait gives up the outer     *)
(* mutex first and sleeps on the inner one.                                *)
(*                                                                         *)
(* One action per call of the C library.  The program is one that waits    *)
(* for a flag: it waits only after it saw the flag down, and broadcasts    *)
(* after raising it, both in the critical section.                         *)
(***************************************************************************)
CONSTANTS
  Threads,
  None       \* no owner

ASSUME NoneIsNoThread == None \notin Threads

VARIABLES
  condVar,   \* the build has COND_VAR
  owner,     \* of each C-library mutex
  condq,     \* threads asleep in the C library's condition wait
  pc,        \* next call of each thread
  flag       \* what the program waits for

vars == <<condVar, owner, condq, pc, flag>>

Outer == "lock"           \* impl->lock
Inner == "posix_lock"     \* impl->posix_lock, only with COND_VAR

Locking   == {"lock1", "lock2", "try2"}
Holding   == {"cs", "broadcast", "wait1", "wait2"}
Returning == {"asleep", "relock", "unlock_inner", "lock_outer", "lock_inner"}
Labels    == {"idle", "unlock2"} \cup Locking \cup Holding \cup Returning

TypeOK ==
  /\ condVar \in BOOLEAN
  /\ owner \in [{Outer, Inner} -> Threads \cup {None}]
  /\ condq \subseteq Threads
  /\ pc \in [Threads -> Labels]
  /\ flag \in BOOLEAN

\* pthread_interpose_mutex_create: both mutexes are initialised, nobody in.
Init ==
  /\ condVar \in BOOLEAN
  /\ owner = [m \in {Outer, Inner} |-> None]
  /\ condq = {}
  /\ pc = [t \in Threads |-> "idle"]
  /\ flag = FALSE

-----------------------------------------------------------------------------
(* The C library.                                                          *)

Goto(t, l)   == pc' = [pc EXCEPT ![t] = l]
At(t, l)     == pc[t] = l

Acquire(t, m) == owner[m] = None /\ owner' = [owner EXCEPT ![m] = t]
Release(t, m) == owner' = [owner EXCEPT ![m] = None]

\* A sleeper leaves the queue and has to get its mutex back.
Wake(ts) ==
  /\ condq' = condq \ ts
  /\ pc' = [t \in Threads |-> IF t \in ts THEN "relock" ELSE pc[t]]

-----------------------------------------------------------------------------
(* pthread_interpose_mutex_lock, _trylock, _unlock.                        *)

Lock(t) ==
  /\ At(t, "idle")
  /\ Goto(t, "lock1")
  /\ UNCHANGED <<condVar, owner, condq, flag>>

\* Seeded fault: a build with COND_VAR that leaves the inner mutex out.
LockOuterOnly(t) ==
  /\ At(t, "lock1")
  /\ Acquire(t, Outer)
  /\ Goto(t, "cs")
  /\ UNCHANGED <<condVar, condq, flag>>

LockOuter(t) ==
  /\ At(t, "lock1")
  /\ Acquire(t, Outer)
  /\ Goto(t, IF condVar THEN "lock2" ELSE "cs")
  /\ UNCHANGED <<condVar, condq, flag>>

LockInner(t) ==
  /\ At(t, "lock2")
  /\ Acquire(t, Inner)
  /\ Goto(t, "cs")
  /\ UNCHANGED <<condVar, condq, flag>>

\* EBUSY leaves the caller where it was.
Trylock(t) ==
  /\ At(t, "idle")
  /\ Acquire(t, Outer)
  /\ Goto(t, IF condVar THEN "try2" ELSE "cs")
  /\ UNCHANGED <<condVar, condq, flag>>

\* Seeded fault: one attempt at the inner mutex, its failure unnoticed.
TrylockInnerOnce(t) ==
  /\ At(t, "try2")
  /\ owner' = [owner EXCEPT ![Inner] = IF @ = None THEN t ELSE @]
  /\ Goto(t, "cs")
  /\ UNCHANGED <<condVar, condq, flag>>

\* The loop of trylocks on the inner mutex, until one succeeds.
TrylockInner(t) ==
  /\ At(t, "try2")
  /\ Acquire(t, Inner)
  /\ Goto(t, "cs")
  /\ UNCHANGED <<condVar, condq, flag>>

Unlock(t) ==
  /\ At(t, "cs")
  /\ Release(t, IF condVar THEN Inner ELSE Outer)
  /\ Goto(t, IF condVar THEN "unlock2" ELSE "idle")
  /\ UNCHANGED <<condVar, condq, flag>>

UnlockOuter(t) ==
  /\ At(t, "unlock2")
  /\ Release(t, Outer)
  /\ Goto(t, "idle")
  /\ UNCHANGED <<condVar, condq, flag>>

-----------------------------------------------------------------------------
(* pthread_interpose_cond_timedwait, _wait, _signal, _broadcast.           *)

\* The program calls wait having seen the flag down.
CondWait(t) ==
  /\ At(t, "cs")
  /\ ~flag
  /\ Goto(t, IF condVar THEN "wait1" ELSE "wait2")
  /\ UNCHANGED <<condVar, owner, condq, flag>>

\* Seeded fault: the wrong one of the two mutexes is given up first.
WaitUnlockInner(t) ==
  /\ At(t, "wait1")
  /\ Release(t, Inner)
  /\ Goto(t, "wait2")
  /\ UNCHANGED <<condVar, condq, flag>>

WaitUnlockOuter(t) ==
  /\ At(t, "wait1")
  /\ Release(t, Outer)
  /\ Goto(t, "wait2")
  /\ UNCHANGED <<condVar, condq, flag>>

\* The C library gives up the mutex and sleeps in one step.
WaitSleep(t) ==
  /\ At(t, "wait2")
  /\ Release(t, IF condVar THEN Inner ELSE Outer)
  /\ condq' = condq \cup {t}
  /\ Goto(t, "asleep")
  /\ UNCHANGED <<condVar, flag>>

\* Before it returns from the wait it takes the mutex again.
WaitRelock(t) ==
  /\ At(t, "relock")
  /\ Acquire(t, IF condVar THEN Inner ELSE Outer)
  /\ Goto(t, IF condVar THEN "unlock_inner" ELSE "cs")
  /\ UNCHANGED <<condVar, condq, flag>>

\* Seeded fault: the inner mutex is kept while the outer one is taken.
WaitKeepInner(t) ==
  /\ At(t, "unlock_inner")
  /\ Acquire(t, Outer)
  /\ Goto(t, "cs")
  /\ UNCHANGED <<condVar, condq, flag>>

WaitUnlockInnerAgain(t) ==
  /\ At(t, "unlock_inner")
  /\ Release(t, Inner)
  /\ Goto(t, "lock_outer")
  /\ UNCHANGED <<condVar, condq, flag>>

WaitLockOuter(t) ==
  /\ At(t, "lock_outer")
  /\ Acquire(t, Outer)
  /\ Goto(t, "lock_inner")
  /\ UNCHANGED <<condVar, condq, flag>>

WaitLockInner(t) ==
  /\ At(t, "lock_inner")
  /\ Acquire(t, Inner)
  /\ Goto(t, "cs")
  /\ UNCHANGED <<condVar, condq, flag>>

\* The program changes the flag in the critical section.
RaiseFlag(t) ==
  /\ At(t, "cs")
  /\ flag' = TRUE
  /\ Goto(t, "broadcast")
  /\ UNCHANGED <<condVar, owner, condq>>

LowerFlag(t) ==
  /\ At(t, "cs")
  /\ flag' = FALSE
  /\ UNCHANGED <<condVar, owner, condq, pc>>

Broadcast(t) ==
  /\ At(t, "broadcast")
  /\ condq' = {}
  /\ pc' = [u \in Threads |-> IF u = t THEN "cs"
                              ELSE IF u \in condq THEN "relock" ELSE pc[u]]
  /\ UNCHANGED <<condVar, owner, flag>>

\* A signal, which anybody may send at any time, a deadline, and a spurious
\* wake-up all end one sleep.
WakeOne(t) ==
  /\ t \in condq
  /\ Wake({t})
  /\ UNCHANGED <<condVar, owner, flag>>

-----------------------------------------------------------------------------
ProgramStep(t) ==
  \/ Lock(t) \/ Trylock(t) \/ Unlock(t) \/ CondWait(t)
  \/ RaiseFlag(t) \/ LowerFlag(t)

LibraryStep(t) ==
  \/ LockOuter(t) \/ LockInner(t) \/ TrylockInner(t) \/ UnlockOuter(t)
  \/ WaitUnlockOuter(t) \/ WaitSleep(t) \/ WaitRelock(t)
  \/ WaitUnlockInnerAgain(t) \/ WaitLockOuter(t) \/ WaitLockInner(t)
  \/ Broadcast(t)

Next == \E t \in Threads : ProgramStep(t) \/ LibraryStep(t) \/ WakeOne(t)

Spec == Init /\ [][Next]_vars

\* A thread inside a call is scheduled.  Nothing obliges the program to call or
\* a sleep to end.
FairSpec == Spec /\ \A t \in Threads : WF_vars(LibraryStep(t))

-----------------------------------------------------------------------------
(* Properties.                                                             *)

Holder(t) == pc[t] \in Holding

\* The one thread between lock and unlock owns what the build locks: both
\* mutexes, or the outer one alone; on its way into a wait it has given up the
\* outer one already (pthreadinterpose.c:117) and the inner one still keeps
\* everybody out, signallers included.
HolderOwns ==
  \A t \in Threads : Holder(t) =>
    /\ condVar => owner[Inner] = t
    /\ condVar /\ pc[t] # "wait2" => owner[Outer] = t
    /\ ~condVar => owner[Outer] = t

\* Nobody sleeps through the flag: a thread that saw it down and waits is asleep
\* before anyone can raise it and broadcast, whichever of the two mutexes it
\* gives up first (pthreadinterpose.c:116-126).
NoWaiterForgotten ==
  flag /\ (\E t \in Threads : pc[t] \in {"wait1", "wait2"} \/ t \in condq)
    => \E u \in Threads : At(u, "broadcast")

\* Two threads never hold one mutex each and want the other's: the wait gives
\* the inner mutex back before it takes them in the order of lock
\* (pthreadinterpose.c:130-136).  A mutex nobody holds and somebody wants is
\* therefore taken in the end.
Free == \A t \in Threads : ~Holder(t)

AcquireProgress ==
  (Free /\ \E t \in Threads : pc[t] \in Locking \cup (Returning \ {"asleep"}))
    ~> ~Free

View(l) == IF l \in Holding THEN "holding"
           ELSE IF l \in Returning \cup {"lock1", "lock2"} THEN "waiting"
           ELSE "out"

Mutex == INSTANCE PthreadMutex WITH st <- [t \in Threads |-> View(pc[t])]

\* In both builds, lock, trylock, unlock and wait are those of one Pthread mutex
\* (pthreadinterpose.c:56-151).
ImplementsMutex == Mutex!Spec
=============================================================================
