------------------------------- MODULE Startup -------------------------------
(***************************************************************************)
(* How the library starts and numbers threads, src/litl/src/interpose.c:   *)
(* 253-342, 367-402, 754-770.  Its constructor runs after those of the     *)
(* libraries the program links; they may use mutexes before it, hold them  *)
(* meanwhile, or have it run early by initialising a read-write lock.      *)
(* Initialisation clears the lock table, whoever uses it at the time, and  *)
(* looks up the C library's functions.                                     *)
(*                                                                         *)
(* The table is a map from addresses to locks here; a lookup with what it  *)
(* enters is one step and so is the clearing; LockTable has the slots.     *)
(* Locks are numbered as they are made.  A thread holds one mutex at a     *)
(* time.                                                                   *)
(***************************************************************************)
EXTENDS Naturals

CONSTANTS
  Main,         \* the main thread
  Foreign,      \* threads started behind the wrapper's back
  Workers,      \* threads the wrapped pthread_create may start
  Mutexes,      \* statically initialised mutexes
  Rwlocks,      \* read-write locks
  MAX_THREADS,
  None

Threads   == {Main} \cup Foreign \cup Workers
Addresses == Mutexes \cup Rwlocks
Impls     == Nat \ {0}

ASSUME StartupAssumption ==
  /\ Main \notin Foreign \cup Workers /\ Foreign \cap Workers = {}
  /\ Mutexes \cap Rwlocks = {} /\ None \notin Addresses
  /\ MAX_THREADS \in Nat \ {0}

ASSUME NoneIsNoImpl == None \notin Impls

VARIABLES
  init_spinlock,   \* 0 not initialised, 1 initialising, 2 initialised
  constructed,     \* the library's constructor was called
  last_thread_id,
  cur_thread_id,   \* of each thread; thread-local, 0 unless assigned
  numbered,        \* history: the threads that were given a number
  loaded,          \* the pointers to the C library's functions are set
  table,           \* the lock entered for each address
  made,            \* how many locks have been made
  taken,           \* the locks whose word says locked
  pc,
  arg,             \* the address of the call a thread is in
  impl,            \* the lock it is to take
  holds,           \* history: the mutex it was given
  divided,         \* history: mutexes in use when the table was cleared for
                   \* the first time
  returned,        \* history: threads for which initialisation is over
  exited           \* the process has ended: too many threads

startVars == <<init_spinlock, constructed, loaded, returned>>
ids       == <<last_thread_id, cur_thread_id, numbered>>
locks     == <<table, made, taken, impl, holds>>
vars      == <<startVars, ids, locks, divided, pc, arg, exited>>

Starting == {"init", "wait", "clear", "number", "load", "finish"}
Labels   == {"none", "start", "run", "rwlock", "take", "over"} \cup Starting

TypeOK ==
  /\ init_spinlock \in 0 .. 2
  /\ last_thread_id \in Nat
  /\ cur_thread_id \in [Threads -> Nat]
  /\ numbered \subseteq Threads /\ returned \subseteq Threads
  /\ constructed \in BOOLEAN /\ loaded \in BOOLEAN /\ exited \in BOOLEAN
  /\ table \in [Addresses -> Impls \cup {None}]
  /\ made \in Nat
  /\ taken \subseteq Impls
  /\ pc \in [Threads -> Labels]
  /\ arg \in [Threads -> Addresses \cup {None}]
  /\ impl \in [Threads -> Impls \cup {None}]
  /\ holds \in [Threads -> Mutexes \cup {None}]
  /\ divided \subseteq Mutexes

Init ==
  /\ init_spinlock = 0
  /\ constructed = FALSE /\ loaded = FALSE /\ exited = FALSE
  /\ last_thread_id = 0
  /\ cur_thread_id = [t \in Threads |-> 0]
  /\ numbered = {} /\ returned = {}
  /\ table = [a \in Addresses |-> None]
  /\ made = 0
  /\ taken = {}
  /\ pc = [t \in Threads |-> IF t \in Workers THEN "none" ELSE "run"]
  /\ arg = [t \in Threads |-> None]
  /\ impl = [t \in Threads |-> None]
  /\ holds = [t \in Threads |-> None]
  /\ divided = {}

At(t, l)   == pc[t] = l
Goto(t, l) == pc' = [pc EXCEPT ![t] = l]

-----------------------------------------------------------------------------
(* interpose_init, called by the loader or by pthread_rwlock_init.         *)

Constructor ==
  /\ ~constructed
  /\ At(Main, "run")
  /\ constructed' = TRUE
  /\ Goto(Main, "init")
  /\ UNCHANGED <<init_spinlock, loaded, returned, ids, locks, divided, arg, exited>>

RwlockInit(t, a) ==
  /\ At(t, "run")
  /\ table[a] = None /\ \A u \in Threads : arg[u] # a
  /\ arg' = [arg EXCEPT ![t] = a]
  /\ Goto(t, IF init_spinlock # 2 THEN "init" ELSE "rwlock")
  /\ UNCHANGED <<startVars, ids, locks, divided, exited>>

\* interpose_init returns to the loader or to pthread_rwlock_init.
AfterInit(t) ==
  /\ Goto(t, IF arg[t] = None THEN "run" ELSE "rwlock")
  /\ returned' = returned \cup {t}

\* Seeded fault: a look and a store in place of the compare-and-swap.
ClaimLate(t) ==
  /\ init_spinlock = 0 \/ \E u \in Threads : At(u, "clear")
  /\ init_spinlock' = 1
  /\ Goto(t, "clear")
  /\ UNCHANGED returned

Claim(t) ==
  /\ init_spinlock = 0
  /\ init_spinlock' = 1
  /\ Goto(t, "clear")
  /\ UNCHANGED returned

\* The compare-and-swap on init_spinlock and what its result decides.
EnterInit(t) ==
  /\ At(t, "init")
  /\ \/ Claim(t)
     \/ init_spinlock = 1 /\ Goto(t, "wait") /\ UNCHANGED <<init_spinlock, returned>>
     \/ init_spinlock = 2 /\ AfterInit(t) /\ UNCHANGED init_spinlock
  /\ UNCHANGED <<constructed, loaded, ids, locks, divided, arg, exited>>

\* Seeded fault: the others do not wait for the one that initialises.
WaitNot(t) ==
  /\ At(t, "wait")
  /\ AfterInit(t)
  /\ UNCHANGED <<init_spinlock, constructed, loaded, ids, locks, divided, arg, exited>>

Wait(t) ==
  /\ At(t, "wait")
  /\ init_spinlock # 1
  /\ AfterInit(t)
  /\ UNCHANGED <<init_spinlock, constructed, loaded, ids, locks, divided, arg, exited>>

\* The mutexes somebody holds or has looked up and is about to take.
InUse == {m \in Mutexes :
  \E t \in Threads : holds[t] = m \/ (At(t, "take") /\ arg[t] = m)}

\* What was entered before is gone; its lock is not freed.
ClearTable(t) ==
  /\ At(t, "clear")
  /\ table' = [a \in Addresses |-> None]
  /\ divided' = IF returned = {} THEN divided \cup InUse ELSE divided
  /\ Goto(t, "number")
  /\ UNCHANGED <<startVars, ids, made, taken, impl, holds, arg, exited>>

\* The fetch-and-add, and the end of the process when numbers run out.
TakeNumber(t, next) ==
  /\ cur_thread_id' = [cur_thread_id EXCEPT ![t] = last_thread_id]
  /\ last_thread_id' = last_thread_id + 1
  /\ numbered' = numbered \cup {t}
  /\ exited' = (last_thread_id >= MAX_THREADS)
  /\ Goto(t, next)

\* Meant for the main thread; given to the thread that initialises.
NumberInitialiser(t) ==
  /\ At(t, "number")
  /\ TakeNumber(t, "load")
  /\ UNCHANGED <<startVars, locks, divided, arg>>

LoadFunctions(t) ==
  /\ At(t, "load")
  /\ loaded' = TRUE
  /\ Goto(t, "finish")
  /\ UNCHANGED <<init_spinlock, constructed, returned, ids, locks, divided, arg, exited>>

\* Seeded fault: the last store is missing.
FinishNothing(t) ==
  /\ At(t, "finish")
  /\ AfterInit(t)
  /\ UNCHANGED <<init_spinlock, constructed, loaded, ids, locks, divided, arg, exited>>

FinishInit(t) ==
  /\ At(t, "finish")
  /\ init_spinlock' = 2
  /\ AfterInit(t)
  /\ UNCHANGED <<constructed, loaded, ids, locks, divided, arg, exited>>

\* The rest of pthread_rwlock_init.
RwlockEnter(t) ==
  /\ At(t, "rwlock")
  /\ made' = made + 1
  /\ table' = [table EXCEPT ![arg[t]] = made + 1]
  /\ arg' = [arg EXCEPT ![t] = None]
  /\ Goto(t, "run")
  /\ UNCHANGED <<startVars, ids, taken, impl, holds, divided, exited>>

-----------------------------------------------------------------------------
(* pthread_create and lp_start_routine.                                    *)

\* Before initialisation there is no function of the C library to call: a
\* thread that creates others has seen it over.
PthreadCreate(t, w) ==
  /\ At(t, "run")
  /\ t \in returned
  /\ At(w, "none")
  /\ Goto(w, "start")
  /\ UNCHANGED <<startVars, ids, locks, divided, arg, exited>>

StartRoutine(w) ==
  /\ At(w, "start")
  /\ TakeNumber(w, "run")
  /\ returned' = returned \cup {w}
  /\ UNCHANGED <<init_spinlock, constructed, loaded, locks, divided, arg>>

\* The number of a thread that is over is not used again.
EndRoutine(w) ==
  /\ w \in Workers
  /\ At(w, "run")
  /\ holds[w] = None
  /\ Goto(w, "over")
  /\ UNCHANGED <<startVars, ids, locks, divided, arg, exited>>

-----------------------------------------------------------------------------
(* Mutex calls, which do not look at init_spinlock.                        *)

\* ht_lock_get: the lock entered for a, or a new one.
Found(a) == IF table[a] # None THEN table[a] ELSE made + 1

Lookup(a) ==
  IF table[a] # None THEN UNCHANGED <<table, made>>
  ELSE made' = made + 1 /\ table' = [table EXCEPT ![a] = made + 1]

MutexLock(t, m) ==
  /\ At(t, "run")
  /\ holds[t] = None
  /\ Lookup(m)
  /\ impl' = [impl EXCEPT ![t] = Found(m)]
  /\ arg' = [arg EXCEPT ![t] = m]
  /\ Goto(t, "take")
  /\ UNCHANGED <<startVars, ids, taken, holds, divided, exited>>

TakeLock(t) ==
  /\ At(t, "take")
  /\ impl[t] \notin taken
  /\ taken' = taken \cup {impl[t]}
  /\ holds' = [holds EXCEPT ![t] = arg[t]]
  /\ impl' = [impl EXCEPT ![t] = None]
  /\ arg' = [arg EXCEPT ![t] = None]
  /\ Goto(t, "run")
  /\ UNCHANGED <<startVars, ids, table, made, divided, exited>>

MutexUnlock(t) ==
  /\ At(t, "run")
  /\ holds[t] # None
  /\ Lookup(holds[t])
  /\ taken' = taken \ {Found(holds[t])}
  /\ holds' = [holds EXCEPT ![t] = None]
  /\ UNCHANGED <<startVars, ids, impl, divided, pc, arg, exited>>

-----------------------------------------------------------------------------
InitStep(t) ==
  \/ EnterInit(t) \/ Wait(t) \/ ClearTable(t) \/ NumberInitialiser(t)
  \/ LoadFunctions(t) \/ FinishInit(t) \/ RwlockEnter(t)

ThreadStep(t) ==
  \/ \E w \in Workers : PthreadCreate(t, w)
  \/ StartRoutine(t) \/ EndRoutine(t)

CallStep(t) ==
  \/ \E a \in Rwlocks : RwlockInit(t, a)
  \/ \E m \in Mutexes : MutexLock(t, m)
  \/ TakeLock(t) \/ MutexUnlock(t)

Next ==
  /\ ~exited
  /\ Constructor \/ \E t \in Threads : InitStep(t) \/ ThreadStep(t) \/ CallStep(t)

Spec == Init /\ [][Next]_vars

\* A thread that initialises or waits for it is scheduled.
FairSpec == Spec /\ \A t \in Threads : WF_vars(~exited /\ InitStep(t))

-----------------------------------------------------------------------------
(* Properties.                                                             *)

\* "Init once, other concurrent threads wait" (interpose.c:260): whoever comes
\* back from interpose_init, or was created by one that did, finds everything
\* initialised, however the constructor and pthread_rwlock_init race.
InitOnce ==
  \A t \in returned : init_spinlock = 2 /\ loaded

\* The table is not cleared under a program that runs: what is entered after
\* initialisation was over for anybody stays (interpose.c:264-279).
EntriesSurvive ==
  [][returned # {} =>
       \A a \in Addresses : table[a] # None => table'[a] = table[a]]_vars

\* Threads that take their number from last_thread_id (interpose.c:283, 376)
\* never share one, and run only below MAX_THREADS; those that were there
\* before keep the 0 of their thread-local storage.
DistinctIds ==
  \A t, u \in numbered :
    /\ cur_thread_id[t] = cur_thread_id[u] => t = u
    /\ cur_thread_id[t] < MAX_THREADS \/ exited

\* What the program sees of mutex m.
View(m) == [t \in Threads |->
  IF holds[t] = m THEN "holding"
  ELSE IF pc[t] = "take" /\ arg[t] = m THEN "waiting"
  ELSE "out"]

App(m) == INSTANCE PthreadMutex WITH st <- View(m)

\* A mutex that was used before the table was cleared is entered anew, with
\* another lock; the program sees one Pthread mutex all along, whoever
\* initialises meanwhile (interpose.c:277, 429-438, 457-468).  Not so a mutex
\* that somebody held or was about to take when the table was cleared: the next
\* thread is given a new lock and holds it too, and the first one's unlock
\* releases that.
ImplementsMutexes ==
  /\ \A m \in Mutexes : App(m)!Init
  /\ [][\A m \in Mutexes : m \in divided \/ App(m)!Next \/ UNCHANGED View(m)]_vars

\* Nobody waits in interpose_init for ever (interpose.c:265-268).
InitEnds ==
  \A t \in Threads : pc[t] \in Starting ~> exited \/ pc[t] \notin Starting
=============================================================================
