---------------------------- MODULE StartupProofs ----------------------------
(***************************************************************************)
(* Theorems about the start of the library, for any threads, mutexes and   *)
(* number of thread ids.                                                   *)
(***************************************************************************)
EXTENDS Startup, TLAPS

-----------------------------------------------------------------------------
(* Types and arguments.                                                    *)

\* A read-write lock being initialised is one thread's and not in the table; a
\* mutex is what is waited for and held.
ArgsOK ==
  \A t \in Threads :
    /\ pc[t] \in {"none", "start", "run"} => arg[t] = None
    /\ pc[t] = "rwlock" => arg[t] \in Rwlocks
    /\ pc[t] \in Starting => arg[t] \in Rwlocks \cup {None}
    /\ pc[t] = "take" => arg[t] \in Mutexes /\ impl[t] \in Impls /\ holds[t] = None
    /\ arg[t] \in Rwlocks =>
         /\ table[arg[t]] = None
         /\ \A u \in Threads \ {t} : arg[u] # arg[t]

TypeInv == TypeOK /\ ArgsOK

\* Locks are numbered from 1.
LEMMA Numbers == \A n \in Nat : n + 1 \in Impls /\ n + 1 \in Nat
BY DEF Impls

\* Every step keeps the types, and what each place knows of its argument.
LEMMA TypeStep == TypeInv /\ [Next]_vars => TypeInv'
<1> SUFFICES ASSUME TypeInv, [Next]_vars PROVE TypeInv'
  OBVIOUS
<1> USE StartupAssumption DEF TypeInv, TypeOK, ArgsOK, At, Goto, Labels, Starting,
        Threads, Addresses, startVars, ids, locks
<1>1. CASE UNCHANGED vars
  BY <1>1 DEF vars
<1>2. CASE Constructor
  <2>1. constructed' \in BOOLEAN
    BY <1>2 DEF Constructor
  <2> QED
    BY <1>2, <2>1 DEF Constructor
<1>3. ASSUME NEW t \in Threads, InitStep(t) PROVE TypeInv'
  <2>1. CASE EnterInit(t)
    BY <2>1 DEF EnterInit, Claim, AfterInit
  <2>2. CASE Wait(t)
    BY <2>2 DEF Wait, AfterInit
  <2>3. CASE ClearTable(t)
    <3>1. divided' \subseteq Mutexes
      BY <2>3 DEF ClearTable, InUse
    <3> QED
      BY <2>3, <3>1 DEF ClearTable
  <2>4. CASE NumberInitialiser(t)
    <3>1. exited' \in BOOLEAN
      BY <2>4 DEF NumberInitialiser, TakeNumber
    <3> QED
      BY <2>4, <3>1 DEF NumberInitialiser, TakeNumber
  <2>5. CASE LoadFunctions(t)
    BY <2>5 DEF LoadFunctions
  <2>6. CASE FinishInit(t)
    BY <2>6 DEF FinishInit, AfterInit
  <2>7. CASE RwlockEnter(t)
    BY <2>7, Numbers DEF RwlockEnter
  <2> QED
    BY <1>3, <2>1, <2>2, <2>3, <2>4, <2>5, <2>6, <2>7 DEF InitStep
<1>4. ASSUME NEW t \in Threads, ThreadStep(t) PROVE TypeInv'
  <2>1. CASE StartRoutine(t)
    BY <2>1 DEF StartRoutine, TakeNumber
  <2>2. CASE EndRoutine(t)
    BY <2>2 DEF EndRoutine
  <2>3. ASSUME NEW w \in Workers, PthreadCreate(t, w) PROVE TypeInv'
    BY <2>3 DEF PthreadCreate
  <2> QED
    BY <1>4, <2>1, <2>2, <2>3 DEF ThreadStep
<1>5. ASSUME NEW t \in Threads, CallStep(t) PROVE TypeInv'
  <2>1. ASSUME NEW a \in Rwlocks, RwlockInit(t, a) PROVE TypeInv'
    BY <2>1 DEF RwlockInit
  <2>2. ASSUME NEW m \in Mutexes, MutexLock(t, m) PROVE TypeInv'
    <3>1. Found(m) \in Impls
      BY Numbers DEF Found
    <3> QED
      BY <2>2, <3>1, Numbers DEF MutexLock, Lookup
  <2>3. CASE TakeLock(t)
    BY <2>3 DEF TakeLock
  <2>4. CASE MutexUnlock(t)
    BY <2>4, Numbers DEF MutexUnlock, Lookup
  <2> QED
    BY <1>5, <2>1, <2>2, <2>3, <2>4 DEF CallStep
<1> QED
  BY <1>1, <1>2, <1>3, <1>4, <1>5 DEF Next

\* Nothing is called or entered at first.
LEMMA TypeInit == Init => TypeInv
<1> SUFFICES ASSUME Init PROVE TypeInv
  OBVIOUS
<1>1. TypeOK
  <2>1. pc \in [Threads -> Labels]
    BY DEF Init, Labels
  <2>2. table \in [Addresses -> Impls \cup {None}] /\ taken \subseteq Impls
    BY DEF Init
  <2>3. constructed \in BOOLEAN /\ loaded \in BOOLEAN /\ exited \in BOOLEAN
    BY DEF Init
  <2> QED
    BY <2>1, <2>2, <2>3 DEF Init, TypeOK
<1>2. ArgsOK
  BY StartupAssumption DEF Init, ArgsOK, Starting, Addresses
<1> QED
  BY <1>1, <1>2 DEF TypeInv

-----------------------------------------------------------------------------
(* Initialisation happens once.  InitOnce is not inductive: it does not    *)
(* say that init_spinlock never goes back, nor who may set it to 2.        *)

Busy(t) == pc[t] \in {"clear", "number", "load", "finish"}

\* Nobody is past initialisation, or about to be without having done it.
NobodyThrough ==
  returned = {} /\ \A t \in Threads : pc[t] # "start"

OneInitialises ==
  /\ init_spinlock = 0 => \A t \in Threads : ~Busy(t) /\ pc[t] # "wait"
  /\ init_spinlock # 2 => NobodyThrough
  /\ init_spinlock = 2 => loaded /\ \A t \in Threads : ~Busy(t)
  /\ \A t, u \in Threads : Busy(t) /\ Busy(u) => t = u
  /\ \A t \in Threads : pc[t] = "finish" => loaded

\* init_spinlock goes from 0 to 1 by the one that initialises, and to 2 by it.
LEMMA InitialisesStep ==
  TypeInv /\ OneInitialises /\ [Next]_vars => OneInitialises'
<1> SUFFICES ASSUME TypeInv, OneInitialises, [Next]_vars PROVE OneInitialises'
  OBVIOUS
<1> USE StartupAssumption DEF TypeInv, TypeOK, At, Goto, Starting, Labels, Threads,
        OneInitialises, NobodyThrough, Busy, startVars
<1>1. CASE UNCHANGED vars
  BY <1>1 DEF vars
<1>2. CASE Constructor
  BY <1>2 DEF Constructor
<1>3. ASSUME NEW t \in Threads, InitStep(t) PROVE OneInitialises'
  <2>1. CASE EnterInit(t)
    BY <2>1 DEF EnterInit, Claim, AfterInit
  <2>2. CASE Wait(t)
    BY <2>2 DEF Wait, AfterInit
  <2>3. CASE ClearTable(t)
    BY <2>3 DEF ClearTable
  <2>4. CASE NumberInitialiser(t)
    BY <2>4 DEF NumberInitialiser, TakeNumber
  <2>5. CASE LoadFunctions(t)
    BY <2>5 DEF LoadFunctions
  <2>6. CASE FinishInit(t)
    BY <2>6 DEF FinishInit, AfterInit
  <2>7. CASE RwlockEnter(t)
    BY <2>7 DEF RwlockEnter
  <2> QED
    BY <1>3, <2>1, <2>2, <2>3, <2>4, <2>5, <2>6, <2>7 DEF InitStep
<1>4. ASSUME NEW t \in Threads, ThreadStep(t) PROVE OneInitialises'
  <2>1. CASE StartRoutine(t)
    BY <2>1 DEF StartRoutine, TakeNumber
  <2>2. CASE EndRoutine(t)
    BY <2>2 DEF EndRoutine
  <2>3. ASSUME NEW w \in Workers, PthreadCreate(t, w) PROVE OneInitialises'
    BY <2>3 DEF PthreadCreate
  <2> QED
    BY <1>4, <2>1, <2>2, <2>3 DEF ThreadStep
<1>5. ASSUME NEW t \in Threads, CallStep(t) PROVE OneInitialises'
  <2>1. ASSUME NEW a \in Rwlocks, RwlockInit(t, a) PROVE OneInitialises'
    BY <2>1 DEF RwlockInit
  <2>2. ASSUME NEW m \in Mutexes, MutexLock(t, m) PROVE OneInitialises'
    BY <2>2 DEF MutexLock
  <2>3. CASE TakeLock(t) \/ MutexUnlock(t)
    BY <2>3 DEF TakeLock, MutexUnlock
  <2> QED
    BY <1>5, <2>1, <2>2, <2>3 DEF CallStep
<1> QED
  BY <1>1, <1>2, <1>3, <1>4, <1>5 DEF Next

\* Nobody has begun.
LEMMA InitialisesInit == Init => OneInitialises
BY DEF Init, OneInitialises, NobodyThrough, Busy

\* Whoever comes back from interpose_init, or was started by such a thread,
\* finds everything initialised, whoever else calls it at the same time.
THEOREM InitOnceHolds == Spec => []InitOnce
<1>1. TypeInv /\ OneInitialises => InitOnce
  BY DEF OneInitialises, NobodyThrough, InitOnce, TypeInv, TypeOK
<1> QED
  BY <1>1, TypeInit, TypeStep, InitialisesInit, InitialisesStep, PTL DEF Spec

\* The one step that takes entries away is taken before anybody is through;
\* all others enter what was not there.
LEMMA EntriesStep ==
  ASSUME TypeInv, OneInitialises, [Next]_vars, returned # {}, NEW a \in Addresses,
         table[a] # None
  PROVE  table'[a] = table[a]
<1> USE StartupAssumption DEF TypeInv, TypeOK, At, Addresses
<1>1. CASE UNCHANGED table
  BY <1>1
<1>2. ASSUME NEW t \in Threads, RwlockEnter(t) PROVE table'[a] = table[a]
  BY <1>2 DEF RwlockEnter, ArgsOK
<1>3. ASSUME NEW t \in Threads, ClearTable(t) PROVE FALSE
  BY <1>3 DEF ClearTable, OneInitialises, NobodyThrough, Busy
<1>4. ASSUME NEW t \in Threads, NEW m \in Mutexes, MutexLock(t, m)
      PROVE  table'[a] = table[a]
  BY <1>4 DEF MutexLock, Lookup
<1>5. ASSUME NEW t \in Threads, MutexUnlock(t) PROVE table'[a] = table[a]
  BY <1>5 DEF MutexUnlock, Lookup
<1>6. ASSUME NEW t \in Threads, InitStep(t) \/ ThreadStep(t) \/ CallStep(t)
      PROVE  \/ UNCHANGED table \/ RwlockEnter(t) \/ ClearTable(t)
             \/ \E m \in Mutexes : MutexLock(t, m)
             \/ MutexUnlock(t)
  BY <1>6
  DEF InitStep, EnterInit, Wait, NumberInitialiser, LoadFunctions, FinishInit,
      ThreadStep, PthreadCreate, StartRoutine, EndRoutine,
      CallStep, RwlockInit, TakeLock, locks
<1>7. CASE UNCHANGED vars \/ Constructor
  BY <1>1, <1>7 DEF vars, locks, Constructor
<1> QED
  BY <1>1, <1>2, <1>3, <1>4, <1>5, <1>6, <1>7 DEF Next

\* Once initialisation is over for anybody, the table keeps what is entered.
THEOREM EntriesSurviveHolds == Spec => EntriesSurvive
<1>1. TypeInv /\ OneInitialises /\ [Next]_vars =>
        [returned # {} => \A a \in Addresses :
           table[a] # None => table'[a] = table[a]]_vars
  BY EntriesStep
<1> QED
  BY <1>1, TypeInit, TypeStep, InitialisesInit, InitialisesStep, PTL
  DEF Spec, EntriesSurvive

-----------------------------------------------------------------------------
(* Thread ids.                                                             *)

\* Numbers given out are below the counter.
IdsInv ==
  /\ \A t \in numbered : cur_thread_id[t] < last_thread_id
  /\ DistinctIds

\* A fetch-and-add gives a number nobody has.
LEMMA TakeNumberKeepsIds ==
  ASSUME TypeInv, IdsInv, ~exited, NEW t \in Threads, NEW next, TakeNumber(t, next)
  PROVE  IdsInv'
<1> USE StartupAssumption DEF TypeInv, TypeOK, IdsInv, DistinctIds, TakeNumber
<1> DEFINE n == last_thread_id
<1>1. /\ \A u \in numbered : cur_thread_id[u] < n /\ cur_thread_id[u] \in Nat
      /\ numbered \subseteq Threads /\ n \in Nat
  OBVIOUS
<1>2. /\ cur_thread_id' = [cur_thread_id EXCEPT ![t] = n] /\ last_thread_id' = n + 1
      /\ numbered' = numbered \cup {t}
  OBVIOUS
<1>3. \A u \in numbered' : cur_thread_id'[u] < last_thread_id'
  BY <1>1, <1>2
<1>4. \A u, v \in numbered' : cur_thread_id'[u] = cur_thread_id'[v] => u = v
  BY <1>1, <1>2
<1>5. \A u \in numbered' : cur_thread_id'[u] < MAX_THREADS \/ exited'
  <2>1. CASE n < MAX_THREADS
    BY <1>2, <2>1
  <2>2. CASE n >= MAX_THREADS
    BY <2>2
  <2> QED
    BY <1>1, <2>1, <2>2
<1> QED
  BY <1>3, <1>4, <1>5

\* Ids change by a fetch-and-add only.
LEMMA IdsStep == TypeInv /\ IdsInv /\ [Next]_vars => IdsInv'
<1> SUFFICES ASSUME TypeInv, IdsInv, [Next]_vars PROVE IdsInv'
  OBVIOUS
<1>1. CASE UNCHANGED <<ids, exited>>
  BY <1>1 DEF ids, IdsInv, DistinctIds
<1>2. ASSUME NEW t \in Threads, InitStep(t) \/ ThreadStep(t) \/ CallStep(t)
      PROVE  \/ UNCHANGED <<ids, exited>>
             \/ \E next \in Labels : TakeNumber(t, next)
  BY <1>2
  DEF InitStep, EnterInit, Wait, ClearTable, NumberInitialiser, LoadFunctions,
      FinishInit, RwlockEnter, ThreadStep, PthreadCreate, StartRoutine, EndRoutine,
      CallStep, RwlockInit, MutexLock, TakeLock, MutexUnlock, Labels, Starting
<1>3. CASE UNCHANGED vars \/ Constructor
  BY <1>1, <1>3 DEF vars, Constructor
<1> QED
  BY <1>1, <1>2, <1>3, TakeNumberKeepsIds DEF Next

\* No two threads are given the same id, and none runs with one too large.
THEOREM DistinctIdsHolds == Spec => []DistinctIds
<1>1. Init => IdsInv
  BY DEF Init, IdsInv, DistinctIds
<1>2. IdsInv => DistinctIds
  BY DEF IdsInv
<1> QED
  BY <1>1, <1>2, TypeInit, TypeStep, IdsStep, PTL DEF Spec

-----------------------------------------------------------------------------
(* Somebody initialises while init_spinlock says so.                       *)

InitialiserIsBusy == init_spinlock = 1 => \E t \in Threads : Busy(t)

\* init_spinlock becomes 1 as somebody becomes busy, and stays so until that one
\* sets it to 2.
LEMMA BusyStep ==
  TypeInv /\ OneInitialises /\ InitialiserIsBusy /\ [Next]_vars => InitialiserIsBusy'
<1> SUFFICES ASSUME TypeInv, OneInitialises, InitialiserIsBusy, [Next]_vars
             PROVE  InitialiserIsBusy'
  OBVIOUS
<1> USE StartupAssumption DEF TypeInv, TypeOK, At, Goto, Threads, OneInitialises,
        InitialiserIsBusy, Busy, startVars
<1>1. CASE UNCHANGED vars
  BY <1>1 DEF vars
<1>2. CASE Constructor
  BY <1>2 DEF Constructor
<1>3. ASSUME NEW t \in Threads, InitStep(t) PROVE InitialiserIsBusy'
  <2>1. CASE EnterInit(t)
    BY <2>1 DEF EnterInit, Claim, AfterInit
  <2>2. CASE Wait(t) \/ FinishInit(t)
    BY <2>2 DEF Wait, FinishInit, AfterInit
  <2>3. CASE ClearTable(t) \/ LoadFunctions(t) \/ RwlockEnter(t)
    BY <2>3 DEF ClearTable, LoadFunctions, RwlockEnter
  <2>4. CASE NumberInitialiser(t)
    BY <2>4 DEF NumberInitialiser, TakeNumber
  <2> QED
    BY <1>3, <2>1, <2>2, <2>3, <2>4 DEF InitStep
<1>4. ASSUME NEW t \in Threads, ThreadStep(t) PROVE InitialiserIsBusy'
  BY <1>4 DEF ThreadStep, StartRoutine, TakeNumber, EndRoutine, PthreadCreate
<1>5. ASSUME NEW t \in Threads, CallStep(t) PROVE InitialiserIsBusy'
  BY <1>5 DEF CallStep, RwlockInit, MutexLock, TakeLock, MutexUnlock
<1> QED
  BY <1>1, <1>2, <1>3, <1>4, <1>5 DEF Next

\* Who waits in interpose_init (interpose.c:265) waits for another thread that
\* is initialising, or need not wait any more.
AwaitedInitialiserIsThere ==
  \A t \in Threads : pc[t] = "wait" =>
    init_spinlock = 2 \/ \E u \in Threads \ {t} : Busy(u)

\* So InitEnds needs of the scheduler only that the initialiser goes on.
THEOREM AwaitedInitialiserIsThereHolds == Spec => []AwaitedInitialiserIsThere
<1>1. Init => InitialiserIsBusy
  BY DEF Init, InitialiserIsBusy
<1>2. TypeInv /\ OneInitialises /\ InitialiserIsBusy => AwaitedInitialiserIsThere
  <2> SUFFICES ASSUME TypeInv, OneInitialises, InitialiserIsBusy,
                      NEW t \in Threads, pc[t] = "wait", init_spinlock # 2
               PROVE  \E u \in Threads \ {t} : Busy(u)
    BY DEF AwaitedInitialiserIsThere
  <2>1. init_spinlock = 1
    BY DEF TypeInv, TypeOK, OneInitialises
  <2> QED
    BY <2>1 DEF InitialiserIsBusy, Busy
<1> QED
  BY <1>1, <1>2, TypeInit, TypeStep, InitialisesInit, InitialisesStep, BusyStep,
     PTL DEF Spec

-----------------------------------------------------------------------------
(* Mutual exclusion.  It rests on what lies behind the mutexes in use,     *)
(* their entries and the words of their locks, which a mutex loses that is *)
(* in use when the table is cleared, and no other.                         *)

\* A lock has one entry; whoever waits for a lock, or holds one, was given that
\* of the entry, which says that it is taken when it is held.
HeldByEntry ==
  /\ \A a \in Addresses : table[a] # None => table[a] <= made
  /\ \A a, b \in Addresses : table[a] # None /\ table[a] = table[b] => a = b
  /\ \A t \in Threads : pc[t] = "take" =>
       arg[t] \in divided \/ impl[t] = table[arg[t]]
  /\ \A t \in Threads : holds[t] # None =>
       holds[t] \in divided \/ (table[holds[t]] # None /\ table[holds[t]] \in taken)

\* A mutex held by two was in use when the table was cleared.
ExclusiveUnlessDivided ==
  \A t, u \in Threads :
    holds[t] # None /\ holds[t] = holds[u] => t = u \/ holds[t] \in divided

LocksInv == HeldByEntry /\ ExclusiveUnlessDivided

LEMMA LocksInit == Init => LocksInv
BY StartupAssumption DEF Init, LocksInv, HeldByEntry, ExclusiveUnlessDivided

\* A new lock gets the entry of an address that has none, and nobody waits for
\* or holds.
LEMMA EnterKeepsHeld ==
  ASSUME TypeInv, HeldByEntry, NEW a \in Addresses, table[a] = None,
         made' = made + 1, table' = [table EXCEPT ![a] = made + 1],
         UNCHANGED <<taken, holds, divided>>,
         \A t \in Threads : pc'[t] = "take" =>
           \/ impl'[t] = made + 1 /\ arg'[t] = a
           \/ pc[t] = "take" /\ impl'[t] = impl[t] /\ arg'[t] = arg[t]
  PROVE  HeldByEntry'
<1> USE DEF TypeInv, TypeOK, HeldByEntry, Addresses
<1>1. made \in Nat /\ made + 1 # None
  BY NoneIsNoImpl DEF Impls
<1>2. \A b \in Addresses : table[b] # None => table[b] \in Nat
  BY DEF Impls
<1>3. \A b \in Addresses : table'[b] = IF b = a THEN made + 1 ELSE table[b]
  OBVIOUS
<1>4. \A b \in Addresses : table[b] # made + 1
  BY <1>1, <1>2
<1>5. \A b \in Addresses : table'[b] # None => table'[b] <= made'
  BY <1>1, <1>2, <1>3
<1>6. \A b, c \in Addresses : table'[b] # None /\ table'[b] = table'[c] => b = c
  BY <1>3, <1>4
<1>7. \A t \in Threads : pc'[t] = "take" =>
        arg'[t] \in divided' \/ impl'[t] = table'[arg'[t]]
  <2>1. \A t \in Threads : pc[t] = "take" =>
          /\ arg[t] \in Addresses
          /\ arg[t] \in divided \/ table[arg[t]] # None
    BY NoneIsNoImpl DEF ArgsOK
  <2> QED
    BY <1>3, <2>1
<1>8. \A t \in Threads : holds'[t] # None =>
        \/ holds'[t] \in divided'
        \/ table'[holds'[t]] # None /\ table'[holds'[t]] \in taken'
  BY <1>3
<1> QED
  BY <1>5, <1>6, <1>7, <1>8

LEMMA HeldStep == TypeInv /\ OneInitialises /\ LocksInv /\ [Next]_vars => LocksInv'
<1> SUFFICES ASSUME TypeInv, OneInitialises, LocksInv, [Next]_vars
             PROVE  LocksInv'
  OBVIOUS
<1> USE StartupAssumption
    DEF TypeInv, TypeOK, At, Goto, Threads, Addresses, LocksInv, locks
<1>1. CASE UNCHANGED <<locks, divided>> /\ \A t \in Threads : pc'[t] = "take" =>
                                pc[t] = "take" /\ arg'[t] = arg[t]
  BY <1>1 DEF HeldByEntry, ExclusiveUnlessDivided
<1>2. CASE UNCHANGED vars \/ Constructor
  BY <1>1, <1>2 DEF vars, Constructor
<1>3. ASSUME NEW t \in Threads, InitStep(t)
      PROVE  LocksInv'
  \* What is in use is divided from now on.
  <2>1. CASE ClearTable(t)
    <3>1. divided' = divided \cup InUse
      BY <2>1 DEF ClearTable, OneInitialises, NobodyThrough, Busy
    <3>2. \A u \in Threads :
            /\ holds'[u] # None => holds'[u] \in divided'
            /\ pc'[u] = "take" => arg'[u] \in divided'
      BY <2>1, <3>1 DEF ClearTable, InUse, ArgsOK
    <3> QED
      BY <2>1, <3>2 DEF ClearTable, HeldByEntry, ExclusiveUnlessDivided
  <2>2. CASE RwlockEnter(t)
    <3>1. arg[t] \in Addresses /\ table[arg[t]] = None
      BY <2>2 DEF RwlockEnter, ArgsOK
    <3>2. HeldByEntry'
      BY <2>2, <3>1, EnterKeepsHeld DEF RwlockEnter
    <3> QED
      BY <2>2, <3>2 DEF RwlockEnter, ExclusiveUnlessDivided
  <2>3. CASE EnterInit(t)
    BY <1>1, <2>3 DEF EnterInit, Claim, AfterInit
  <2>4. CASE Wait(t) \/ FinishInit(t)
    BY <1>1, <2>4 DEF Wait, FinishInit, AfterInit
  <2>5. CASE NumberInitialiser(t) \/ LoadFunctions(t)
    BY <1>1, <2>5 DEF NumberInitialiser, TakeNumber, LoadFunctions
  <2> QED
    BY <1>3, <2>1, <2>2, <2>3, <2>4, <2>5 DEF InitStep
<1>4. ASSUME NEW t \in Threads, ThreadStep(t)
      PROVE  LocksInv'
  BY <1>1, <1>4
  DEF ThreadStep, StartRoutine, TakeNumber, EndRoutine, PthreadCreate
<1>5. ASSUME NEW t \in Threads, CallStep(t)
      PROVE  LocksInv'
  <2>1. ASSUME NEW a \in Rwlocks, RwlockInit(t, a)
        PROVE  LocksInv'
    BY <1>1, <2>1 DEF RwlockInit
  <2>2. ASSUME NEW m \in Mutexes, MutexLock(t, m)
        PROVE  LocksInv'
    <3>1. CASE table[m] = None
      BY <2>2, <3>1, EnterKeepsHeld DEF MutexLock, Lookup, Found, ExclusiveUnlessDivided
    <3>2. CASE table[m] # None
      BY <2>2, <3>2 DEF MutexLock, Lookup, Found, HeldByEntry, ExclusiveUnlessDivided
    <3> QED
      BY <3>1, <3>2
  <2>3. CASE TakeLock(t)
    <3>1. /\ arg[t] \in Mutexes /\ impl[t] # None /\ impl[t] \notin taken
          /\ arg[t] \in divided \/ impl[t] = table[arg[t]]
      BY <2>3, NoneIsNoImpl DEF TakeLock, ArgsOK, HeldByEntry
    <3>2. \A u \in Threads : holds[u] = arg[t] => arg[t] \in divided
      BY <3>1, StartupAssumption DEF HeldByEntry
    <3>3. HeldByEntry'
      BY <2>3, <3>1 DEF TakeLock, HeldByEntry
    <3> QED
      BY <2>3, <3>2, <3>3 DEF TakeLock, ExclusiveUnlessDivided
  \* A divided mutex may be given a new lock at its unlock; no other entry has it.
  <2>4. CASE MutexUnlock(t)
    <3> DEFINE m == holds[t]
    <3>1. /\ m \in Mutexes /\ taken' = taken \ {Found(m)} /\ Lookup(m)
          /\ holds' = [holds EXCEPT ![t] = None]
          /\ UNCHANGED <<impl, pc, arg, divided>>
      BY <2>4 DEF MutexUnlock
    <3>2. \A u \in Threads : holds'[u] # None =>
            /\ holds[u] = holds'[u] /\ holds[u] \in Mutexes
            /\ holds[u] # m \/ holds[u] \in divided
      BY <3>1 DEF ExclusiveUnlessDivided
    <3>3. HeldByEntry'
      <4>1. CASE table[m] # None
        <5>1. UNCHANGED <<table, made>> /\ Found(m) = table[m]
          BY <3>1, <4>1 DEF Lookup, Found
        <5> QED
          BY <3>1, <3>2, <5>1 DEF HeldByEntry
      <4>2. CASE table[m] = None
        <5>1. /\ made' = made + 1 /\ table' = [table EXCEPT ![m] = made + 1]
              /\ Found(m) = made + 1 /\ m \in Addresses
          BY <3>1, <4>2 DEF Lookup, Found
        <5>2. \A a \in Addresses : table[a] # None => table[a] \in Nat /\ table[a] # made + 1
          BY DEF HeldByEntry, Impls
        <5>3. made + 1 # None /\ made \in Nat
          BY NoneIsNoImpl DEF Impls
        <5>4. \A a \in Addresses : table'[a] = IF a = m THEN made + 1 ELSE table[a]
          BY <5>1
        <5>5. \A a \in Addresses : table'[a] # None => table'[a] <= made'
          BY <5>1, <5>2, <5>3, <5>4 DEF HeldByEntry
        <5>6. \A a, b \in Addresses : table'[a] # None /\ table'[a] = table'[b] => a = b
          BY <5>2, <5>4 DEF HeldByEntry
        <5>7. \A u \in Threads : pc'[u] = "take" =>
                arg'[u] \in divided' \/ impl'[u] = table'[arg'[u]]
          <6>1. \A u \in Threads : pc[u] = "take" =>
                  arg[u] \in Addresses /\ impl[u] # None
            BY NoneIsNoImpl DEF ArgsOK
          <6> QED
            BY <3>1, <4>2, <5>4, <6>1 DEF HeldByEntry
        <5>8. \A u \in Threads : holds'[u] # None =>
                \/ holds'[u] \in divided'
                \/ table'[holds'[u]] # None /\ table'[holds'[u]] \in taken'
          BY <3>1, <3>2, <4>2, <5>1, <5>2, <5>4 DEF HeldByEntry
        <5> QED
          BY <5>5, <5>6, <5>7, <5>8 DEF HeldByEntry
      <4> QED
        BY <4>1, <4>2
    <3> QED
      BY <3>1, <3>2, <3>3 DEF ExclusiveUnlessDivided
  <2> QED
    BY <1>5, <2>1, <2>2, <2>3, <2>4 DEF CallStep
<1> QED
  BY <1>2, <1>3, <1>4, <1>5 DEF Next

\* No two threads hold one mutex, whoever initialises the library and clears the
\* table when (interpose.c:264-280), but one that was in use when it was first
\* cleared: its next user is given a lock of its own.
THEOREM ExclusiveUnlessDividedHolds == Spec => []ExclusiveUnlessDivided
<1>1. LocksInv => ExclusiveUnlessDivided
  BY DEF LocksInv
<1> QED
  BY <1>1, TypeInit, TypeStep, InitialisesInit, InitialisesStep, LocksInit, HeldStep,
     PTL DEF Spec

\* The table, cleared or not, does not come between the program and a mutex
\* that is not divided: only the calls that take and release it move a thread,
\* and it is free for whoever finds its lock free.
LEMMA ViewStep ==
  ASSUME TypeInv, LocksInv, [Next]_vars, NEW m \in Mutexes, m \notin divided
  PROVE  App(m)!Next \/ UNCHANGED View(m)
<1> USE StartupAssumption DEF TypeInv, TypeOK, At, Goto
<1>1. m # None /\ m \in Addresses
  BY DEF Addresses
<1>2. CASE UNCHANGED holds /\ \A t \in Threads :
             pc'[t] = "take" /\ arg'[t] = m <=> pc[t] = "take" /\ arg[t] = m
  BY <1>2 DEF View
<1>3. ASSUME NEW t \in Threads,
             \/ InitStep(t) \/ ThreadStep(t) \/ (\E a \in Rwlocks : RwlockInit(t, a))
             \/ Constructor
      PROVE  App(m)!Next \/ UNCHANGED View(m)
  <2>1. /\ UNCHANGED holds
        /\ \E u \in Threads, l \in Labels \ {"take"} :
             pc[u] # "take" /\ pc' = [pc EXCEPT ![u] = l]
        /\ \A u \in Threads : pc[u] = "take" => arg'[u] = arg[u]
    BY <1>3
    DEF InitStep, EnterInit, Claim, AfterInit, Wait, ClearTable, NumberInitialiser,
        TakeNumber, LoadFunctions, FinishInit, RwlockEnter, ThreadStep, PthreadCreate,
        StartRoutine, EndRoutine, RwlockInit, Constructor, startVars, ids, locks,
        Labels, Starting, Threads
  <2> QED
    BY <1>2, <2>1
<1>4. ASSUME NEW t \in Threads, NEW n \in Mutexes, MutexLock(t, n)
      PROVE  App(m)!Next \/ UNCHANGED View(m)
  <2>1. /\ pc[t] = "run" /\ holds[t] = None /\ UNCHANGED holds
        /\ pc' = [pc EXCEPT ![t] = "take"] /\ arg' = [arg EXCEPT ![t] = n]
    BY <1>4 DEF MutexLock
  <2>2. CASE n = m
    <3>1. View(m)[t] = "out" /\ View(m)' = [View(m) EXCEPT ![t] = "waiting"]
      BY <1>1, <2>1, <2>2 DEF View
    <3> QED
      BY <3>1 DEF App!Next, App!Call, App!Move
  <2>3. CASE n # m
    BY <1>2, <2>1, <2>3
  <2> QED
    BY <2>2, <2>3
<1>5. ASSUME NEW t \in Threads, TakeLock(t)
      PROVE  App(m)!Next \/ UNCHANGED View(m)
  <2>1. /\ pc[t] = "take" /\ pc' = [pc EXCEPT ![t] = "run"]
        /\ holds' = [holds EXCEPT ![t] = arg[t]] /\ arg' = [arg EXCEPT ![t] = None]
        /\ arg[t] \in divided \/ impl[t] = table[arg[t]]
        /\ impl[t] \notin taken /\ holds[t] = None
    BY <1>5 DEF TakeLock, LocksInv, HeldByEntry, ArgsOK
  <2>2. CASE arg[t] = m
    <3>1. App(m)!Free /\ View(m)[t] = "waiting"
      BY <1>1, <2>1, <2>2 DEF App!Free, View, LocksInv, HeldByEntry
    <3>2. View(m)' = [View(m) EXCEPT ![t] = "holding"]
      BY <1>1, <2>1, <2>2 DEF View
    <3> QED
      BY <3>1, <3>2 DEF App!Next, App!Grant, App!Move
  <2>3. CASE arg[t] # m
    BY <1>1, <2>1, <2>3 DEF View
  <2> QED
    BY <2>2, <2>3
<1>6. ASSUME NEW t \in Threads, MutexUnlock(t)
      PROVE  App(m)!Next \/ UNCHANGED View(m)
  <2>1. /\ pc[t] = "run" /\ holds' = [holds EXCEPT ![t] = None] /\ UNCHANGED <<pc, arg>>
    BY <1>6 DEF MutexUnlock
  <2>2. CASE holds[t] = m
    <3>1. View(m)[t] = "holding" /\ View(m)' = [View(m) EXCEPT ![t] = "out"]
      BY <1>1, <2>1, <2>2 DEF View
    <3> QED
      BY <3>1 DEF App!Next, App!Unlock, App!Move
  <2>3. CASE holds[t] # m
    BY <1>1, <2>1, <2>3 DEF View
  <2> QED
    BY <2>2, <2>3
<1>7. CASE UNCHANGED vars
  BY <1>2, <1>7 DEF vars, locks
<1>8. Main \in Threads
  BY DEF Threads
<1> QED
  BY <1>3, <1>4, <1>5, <1>6, <1>7, <1>8 DEF Next, CallStep

\* Each mutex is a Pthread mutex to the program, from its constructors on and
\* whoever initialises the library when, unless it was in use when the table was
\* first cleared.
THEOREM ImplementsMutexesHolds == Spec => ImplementsMutexes
<1>1. Init => \A m \in Mutexes : App(m)!Init
  BY StartupAssumption DEF Init, View, App!Init, Addresses
<1>2. TypeInv /\ OneInitialises /\ LocksInv /\ [Next]_vars =>
        [\A m \in Mutexes : m \in divided \/ App(m)!Next \/ UNCHANGED View(m)]_vars
  BY ViewStep
<1> QED
  BY <1>1, <1>2, TypeInit, TypeStep, InitialisesInit, InitialisesStep, LocksInit,
     HeldStep, PTL DEF Spec, ImplementsMutexes

=============================================================================
