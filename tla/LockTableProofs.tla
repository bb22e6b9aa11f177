-------------------------- MODULE LockTableProofs --------------------------
(***************************************************************************)
(* Theorems about the lock table, for any number of threads, mutexes and   *)
(* slots, raced for or not.                                                *)
(***************************************************************************)
EXTENDS LockTable, TLAPS

-----------------------------------------------------------------------------
(* Type correctness.                                                       *)

\* What each place of the code knows about the locals: an index of a slot, a
\* call in progress, a lock; an idle thread has none.
LocalsOK ==
  \A t \in Threads :
    /\ pc[t] = "idle" => op[t] = None /\ arg[t] = None /\ at[t] = 1
    /\ pc[t] \in {"value", "publish"} => at[t] \in Slots
    /\ pc[t] # "idle" => arg[t] \in Mutexes /\ op[t] \in Ops
    /\ pc[t] \in {"put", "publish", "use", "asleep"} => impl[t] \in Impls

TypeInv == TypeOK /\ LocalsOK

\* A returning thread is idle and has no locals left.
LEMMA ReturnTyped ==
  ASSUME TypeInv, NEW t \in Threads, Return(t)
  PROVE  /\ pc' \in [Threads -> Labels]
         /\ op' \in [Threads -> Ops \cup {None}]
         /\ arg' \in [Threads -> Mutexes \cup {None}]
         /\ at' \in [Threads -> 1 .. BucketLength + 1]
         /\ impl' \in [Threads -> Impls \cup {None}]
         /\ LocalsOK'
<1> 1 \in 1 .. BucketLength + 1
  BY TableAssumption
<1> QED
  BY DEF TypeInv, TypeOK, LocalsOK, Labels, Return, Goto

Ordered == Mutexes \ Racy    \* mutexes that are not raced for

\* A program step starts a lookup or the making of a lock, or ends the process.
\* An ordered mutex is held by the caller, unused, or initialised.
LEMMA ProgramCalls ==
  ASSUME NEW t \in Threads, ProgramStep(t)
  PROVE  \/ EndProcess
         \/ \E m \in Mutexes, o \in Ops, first \in {"get", "make"} :
              /\ Call(t, o, m, first)
              /\ first = "make" <=> o = "init"
              /\ o \in {"unlock", "wait"} => m \in holds[t]
              /\ m \in Ordered => \/ m \in holds[t] /\ o # "init"
                                  \/ Quiet(m)
                                  \/ Known(m) /\ o # "init"
<1>1. CASE \E m \in Mutexes : MutexCall(t, m)
  BY <1>1 DEF MutexCall, MutexInit, MutexLock, MutexTrylock, MutexUnlock,
     CondWait, Ops, MayUse, Ordered
<1>2. CASE \E m \in Mutexes : RwlockCall(t, m)
  BY <1>2 DEF RwlockCall, RwlockInit, RwlockWrlock, RwlockTry, RwlockUnlock,
     RwlockRdlock, MutexInit, MutexLock, MutexTrylock, MutexUnlock, Ops,
     MayUse, Ordered
<1> QED
  BY <1>1, <1>2, TableAssumption DEF ProgramStep, MutexTimedlock, RwlockTimedlock

LEMMA TypeStep == TypeInv /\ [Next]_vars => TypeInv'
<1> SUFFICES ASSUME TypeInv, [Next]_vars PROVE TypeInv'
  OBVIOUS
<1> USE DEF TypeInv, TypeOK, Labels, Goto, table, locks, call
<1>1. CASE UNCHANGED vars
  BY <1>1 DEF vars, LocalsOK
<1>2. ASSUME NEW t \in Threads, ProgramStep(t) PROVE TypeInv'
  <2>1. CASE EndProcess
    BY <2>1 DEF EndProcess, LocalsOK
  <2>2. ASSUME NEW m \in Mutexes, NEW o \in Ops, NEW first \in {"get", "make"},
               Call(t, o, m, first)
        PROVE  TypeInv'
    BY <2>2 DEF Call, LocalsOK
  <2> QED
    BY <1>2, <2>1, <2>2, ProgramCalls
<1>3. ASSUME NEW t \in Threads, LookupStep(t) PROVE TypeInv'
  <2>1. CASE GetSkip(t) \/ PutSkip(t)
    <3>1. at[t] + 1 \in 1 .. BucketLength + 1
      BY <2>1, TableAssumption DEF GetSkip, PutSkip, Slots
    <3> QED
      BY <2>1, <3>1 DEF GetSkip, PutSkip, NextSlot, LocalsOK
  <2>2. CASE GetHit(t) \/ GetMiss(t)
    BY <2>2 DEF GetHit, GetMiss, LocalsOK
  <2>3. CASE GetValue(t)
    <3>1. value[at[t]] \in Impls
      BY <2>3 DEF GetValue, LocalsOK
    <3> QED
      BY <2>3, <3>1 DEF GetValue, LocalsOK
  <2>4. CASE MakeLock(t)
    <3>1. made + 1 \in Impls /\ made + 1 \in Nat /\ 1 \in 1 .. BucketLength + 1
      BY TableAssumption DEF Impls
    <3> QED
      BY <2>4, <3>1 DEF MakeLock, LocalsOK
  <2>5. CASE PutClaim(t)
    BY <2>5 DEF PutClaim, LocalsOK
  <2>6. CASE MakeFails(t) \/ PutFull(t)
    BY <2>6 DEF MakeFails, PutFull, EndProcess, LocalsOK
  <2>7. CASE Publish(t)
    <3>1. value' \in [Slots -> Impls \cup {None}]
      BY <2>7 DEF Publish, LocalsOK
    <3>2. CASE op[t] = "init"
      BY <2>7, <3>1, <3>2, ReturnTyped DEF Publish
    <3>3. CASE op[t] # "init"
      BY <2>7, <3>1, <3>3 DEF Publish, LocalsOK
    <3> QED
      BY <3>2, <3>3
  <2> QED
    BY <1>3, <2>1, <2>2, <2>3, <2>4, <2>5, <2>6, <2>7 DEF LookupStep
<1>4. ASSUME NEW t \in Threads, LockStep(t) PROVE TypeInv'
  <2>1. arg[t] \in Mutexes /\ impl[t] \in Impls
    BY <1>4 DEF LockStep, TakeLock, FindTaken, ReleaseLock, WaitRelease,
       WaitRetake, LocalsOK
  <2>2. taken' \subseteq Impls /\ holds' \in [Threads -> SUBSET Mutexes]
    BY <1>4, <2>1 DEF LockStep, TakeLock, FindTaken, ReleaseLock, WaitRelease,
       WaitRetake
  <2>3. CASE WaitRelease(t)
    BY <2>2, <2>3 DEF WaitRelease, LocalsOK
  <2>4. CASE ~WaitRelease(t)
    <3>1. Return(t) /\ UNCHANGED <<key, value, made, exited>>
      BY <1>4, <2>4 DEF LockStep, TakeLock, FindTaken, ReleaseLock, WaitRetake
    <3> QED
      BY <2>2, <3>1, ReturnTyped
  <2> QED
    BY <2>3, <2>4
<1> QED
  BY <1>1, <1>2, <1>3, <1>4 DEF Next

\* Type correctness of the table and of the calls that go through it.
THEOREM TypeCorrect == Spec => []TypeOK
<1>1. Init => TypeInv
  <2>1. 1 \in 1 .. BucketLength + 1 /\ 0 \in Nat
    BY TableAssumption
  <2> QED
    BY <2>1 DEF Init, TypeInv, TypeOK, LocalsOK, Labels
<1>2. TypeInv => TypeOK
  BY DEF TypeInv
<1> QED
  BY <1>1, <1>2, TypeStep, PTL DEF Spec

-----------------------------------------------------------------------------
(* Entries are final, and no two slots share a lock.  NoAliasing alone is  *)
(* not inductive: it says nothing of a lock that is made but not entered   *)
(* yet, nor of a slot that is claimed but not filled.                      *)

\* t has made a lock and not put it into a slot.
Maker(t) == pc[t] \in {"put", "publish"}

\* A filled slot has a key and a lock that was allocated.
SlotsFilled ==
  \A i \in Slots : value[i] # None => key[i] # None /\ value[i] <= made

\* A lock that is not entered yet is its maker's alone.
FreshLocks ==
  \A t \in Threads :
    /\ Maker(t) \/ InUse(t) => impl[t] <= made
    /\ Maker(t) => \A i \in Slots : value[i] # impl[t]
    /\ Maker(t) => \A u \in Threads :
         u # t /\ (Maker(u) \/ InUse(u)) => impl[t] # impl[u]

\* A claimed slot waits for the thread that claimed it.
ClaimsHold ==
  \A t \in Threads :
    /\ pc[t] = "publish" => key[at[t]] = arg[t] /\ value[at[t]] = None
    /\ pc[t] = "publish" => \A u \in Threads :
         u # t /\ pc[u] = "publish" => at[u] # at[t]
    /\ pc[t] = "value" => key[at[t]] = arg[t]

\* A lock in use is entered for the mutex of the call.
UsesEntered ==
  \A t \in Threads : InUse(t) =>
    \E i \in Slots : value[i] = impl[t] /\ key[i] = arg[t]

OnePlace ==
  \A i, j \in Slots : value[i] # None /\ value[i] = value[j] => i = j

TableInv ==
  SlotsFilled /\ FreshLocks /\ ClaimsHold /\ UsesEntered /\ OnePlace

LEMMA TableInvImpliesNoAliasing == TypeInv /\ TableInv => NoAliasing
BY NullAssumption
DEF TypeInv, LocalsOK, TableInv, UsesEntered, OnePlace, NoAliasing, InUse

\* A step that leaves the table alone, and after which t is neither making nor
\* using a lock nor looking at a slot.
LEMMA LeavingKeepsTable ==
  ASSUME TypeInv, TableInv, NEW t \in Threads, UNCHANGED <<key, value, made>>,
         NEW l \in {"idle", "get", "make", "put"},
         pc' = [pc EXCEPT ![t] = l],
         l = "put" => pc[t] = "put",
         \A u \in Threads \ {t} : impl'[u] = impl[u] /\ at'[u] = at[u]
                                  /\ arg'[u] = arg[u],
         l = "put" => impl'[t] = impl[t]
  PROVE  TableInv'
<1> USE DEF TypeInv, TypeOK, TableInv, Maker, InUse
<1>1. SlotsFilled'
  BY DEF SlotsFilled
<1>2. FreshLocks'
  BY DEF FreshLocks
<1>3. ClaimsHold'
  BY DEF ClaimsHold
<1>4. UsesEntered'
  BY DEF UsesEntered
<1>5. OnePlace'
  BY DEF OnePlace
<1> QED
  BY <1>1, <1>2, <1>3, <1>4, <1>5

\* The end of the process leaves everything as it was.
LEMMA EndKeepsTable == TableInv /\ EndProcess => TableInv'
BY DEF EndProcess, table, call, TableInv, SlotsFilled, FreshLocks, ClaimsHold,
   UsesEntered, OnePlace, Maker, InUse

LEMMA TableStep == TypeInv /\ TableInv /\ [Next]_vars => TableInv'
<1> SUFFICES ASSUME TypeInv, TableInv, [Next]_vars PROVE TableInv'
  OBVIOUS
<1> USE DEF TypeInv, TypeOK, Goto, table, call
<1>1. CASE UNCHANGED vars
  BY <1>1 DEF vars, TableInv, SlotsFilled, FreshLocks, ClaimsHold, UsesEntered,
     OnePlace, Maker, InUse
<1>2. ASSUME NEW t \in Threads, ProgramStep(t) PROVE TableInv'
  <2>1. CASE EndProcess
    BY <2>1, EndKeepsTable
  <2>2. ASSUME NEW m \in Mutexes, NEW o \in Ops, NEW first \in {"get", "make"},
               Call(t, o, m, first)
        PROVE  TableInv'
    BY <2>2, LeavingKeepsTable DEF Call
  <2> QED
    BY <1>2, <2>1, <2>2, ProgramCalls
<1>3. ASSUME NEW t \in Threads, LookupStep(t) PROVE TableInv'
  <2>1. CASE GetSkip(t)
    BY <2>1, LeavingKeepsTable DEF GetSkip, NextSlot
  <2>2. CASE PutSkip(t)
    BY <2>2, LeavingKeepsTable DEF PutSkip, NextSlot
  <2>3. CASE GetMiss(t)
    BY <2>3, LeavingKeepsTable DEF GetMiss
  <2>4. CASE GetHit(t)
    BY <2>4 DEF GetHit, TableInv, SlotsFilled, FreshLocks, ClaimsHold,
       UsesEntered, OnePlace, Maker, InUse
  <2>5. CASE GetValue(t)
    <3> USE DEF TableInv, Maker, InUse
    <3>1. at[t] \in Slots /\ key[at[t]] = arg[t] /\ value[at[t]] # None
          /\ impl' = [impl EXCEPT ![t] = value[at[t]]]
          /\ pc' = [pc EXCEPT ![t] = "use"]
          /\ UNCHANGED <<key, value, made, at, arg>>
      BY <2>5 DEF GetValue, ClaimsHold, LocalsOK
    <3>2. FreshLocks'
      BY <3>1 DEF FreshLocks, SlotsFilled
    <3>3. ClaimsHold'
      BY <3>1 DEF ClaimsHold
    <3>4. UsesEntered'
      BY <3>1 DEF UsesEntered
    <3>5. SlotsFilled' /\ OnePlace'
      BY <3>1 DEF SlotsFilled, OnePlace
    <3> QED
      BY <3>2, <3>3, <3>4, <3>5
  <2>6. CASE MakeLock(t)
    <3> USE DEF TableInv, Maker, InUse
    <3>1. made' = made + 1 /\ impl' = [impl EXCEPT ![t] = made + 1]
          /\ at' = [at EXCEPT ![t] = 1]
          /\ pc[t] = "make" /\ pc' = [pc EXCEPT ![t] = "put"]
          /\ UNCHANGED <<key, value, arg>>
      BY <2>6 DEF MakeLock
    <3>2. \A i \in Slots : value[i] # None => value[i] \in Nat
      BY DEF Impls
    <3>3. \A u \in Threads : Maker(u) \/ InUse(u) => impl[u] \in Nat
      BY DEF LocalsOK, Impls
    <3>4. SlotsFilled'
      BY <3>1, <3>2 DEF SlotsFilled
    <3>5. FreshLocks'
      <4>1. \A i \in Slots : value[i] # made + 1
        <5>1. \A i \in Slots : value[i] # None => value[i] # made + 1
          BY <3>2 DEF SlotsFilled
        <5>2. None # made + 1
          BY NullAssumption DEF Impls
        <5> QED
          BY <5>1, <5>2
      <4>2. \A u \in Threads : Maker(u) \/ InUse(u) =>
              impl[u] # made + 1 /\ impl[u] <= made + 1
        BY <3>3 DEF FreshLocks
      <4> QED
        BY <3>1, <4>1, <4>2 DEF FreshLocks
    <3>6. ClaimsHold'
      BY <3>1 DEF ClaimsHold
    <3>7. UsesEntered' /\ OnePlace'
      BY <3>1 DEF UsesEntered, OnePlace
    <3> QED
      BY <3>4, <3>5, <3>6, <3>7
  <2>7. CASE PutClaim(t)
    <3> USE DEF TableInv, Maker, InUse
    <3>1. at[t] \in Slots /\ key[at[t]] = None
          /\ key' = [key EXCEPT ![at[t]] = arg[t]]
          /\ pc[t] = "put" /\ pc' = [pc EXCEPT ![t] = "publish"]
          /\ UNCHANGED <<value, made, at, arg, impl>>
      BY <2>7 DEF PutClaim
    <3>2. value[at[t]] = None /\ arg[t] \in Mutexes /\ arg[t] # None
      BY <3>1, TableAssumption DEF SlotsFilled, LocalsOK
    <3>3. SlotsFilled'
      BY <3>1, <3>2 DEF SlotsFilled
    <3>4. FreshLocks'
      BY <3>1 DEF FreshLocks
    <3>5. ClaimsHold'
      <4>1. \A u \in Threads : pc[u] \in {"publish", "value"} =>
              key[at[u]] = arg[u] /\ arg[u] # None /\ at[u] \in Slots
        BY TableAssumption DEF ClaimsHold, LocalsOK
      <4>2. \A u \in Threads : pc[u] \in {"publish", "value"} => at[u] # at[t]
        BY <3>1, <4>1
      <4> QED
        BY <3>1, <3>2, <4>1, <4>2 DEF ClaimsHold
    <3>6. UsesEntered'
      <4>1. \A u \in Threads : InUse(u) => impl[u] # None
        BY NullAssumption DEF LocalsOK
      <4> QED
        BY <3>1, <3>2, <4>1 DEF UsesEntered
    <3>7. OnePlace'
      BY <3>1 DEF OnePlace
    <3> QED
      BY <3>3, <3>4, <3>5, <3>6, <3>7
  <2>8. CASE MakeFails(t) \/ PutFull(t)
    BY <2>8, EndKeepsTable DEF MakeFails, PutFull
  <2>9. CASE Publish(t)
    <3> USE DEF TableInv, Maker, InUse
    <3>1. PICK l \in {"idle", "use"} :
            /\ pc[t] = "publish" /\ pc' = [pc EXCEPT ![t] = l]
            /\ l = "use" => impl'[t] = impl[t] /\ arg'[t] = arg[t]
      BY <2>9 DEF Publish, Return
    <3>2. /\ value' = [value EXCEPT ![at[t]] = impl[t]]
          /\ UNCHANGED <<key, made>>
          /\ \A u \in Threads \ {t} :
               impl'[u] = impl[u] /\ at'[u] = at[u] /\ arg'[u] = arg[u]
      BY <2>9 DEF Publish, Return
    <3>3. /\ at[t] \in Slots /\ key[at[t]] = arg[t] /\ value[at[t]] = None
          /\ arg[t] # None /\ impl[t] \in Impls /\ impl[t] # None
          /\ impl[t] <= made
      BY <3>1, TableAssumption, NullAssumption
      DEF LocalsOK, ClaimsHold, FreshLocks
    <3>4. SlotsFilled'
      BY <3>2, <3>3 DEF SlotsFilled
    <3>5. FreshLocks'
      BY <3>1, <3>2, <3>3 DEF FreshLocks
    <3>6. ClaimsHold'
      BY <3>1, <3>2, <3>3 DEF ClaimsHold, LocalsOK
    <3>7. UsesEntered'
      BY <3>1, <3>2, <3>3, NullAssumption DEF UsesEntered, LocalsOK
    <3>8. OnePlace'
      BY <3>1, <3>2, <3>3 DEF OnePlace, FreshLocks
    <3> QED
      BY <3>4, <3>5, <3>6, <3>7, <3>8
  <2> QED
    BY <1>3, <2>1, <2>2, <2>3, <2>4, <2>5, <2>6, <2>7, <2>8, <2>9
    DEF LookupStep
<1>4. ASSUME NEW t \in Threads, LockStep(t) PROVE TableInv'
  <2>1. CASE WaitRelease(t)
    BY <2>1 DEF WaitRelease, TableInv, SlotsFilled, FreshLocks, ClaimsHold,
       UsesEntered, OnePlace, Maker, InUse
  <2>2. CASE ~WaitRelease(t)
    <3>1. Return(t) /\ UNCHANGED <<key, value, made>>
      BY <1>4, <2>2 DEF LockStep, TakeLock, FindTaken, ReleaseLock, WaitRetake
    <3> QED
      BY <3>1, LeavingKeepsTable DEF Return
  <2> QED
    BY <2>1, <2>2
<1> QED
  BY <1>1, <1>2, <1>3, <1>4 DEF Next

\* Nothing is in the table, and nobody is in a call, at first.
LEMMA TableInit == Init => TypeInv /\ TableInv
<1> 1 \in 1 .. BucketLength + 1 /\ 0 \in Nat
  BY TableAssumption
<1> QED
  BY DEF Init, TypeInv, TypeOK, LocalsOK, Labels, TableInv, SlotsFilled,
     FreshLocks, ClaimsHold, UsesEntered, OnePlace, Maker, InUse

\* No lock is entered for two mutexes or in two slots, and whoever uses a lock
\* uses it for the mutex it was entered for, even when several threads enter
\* the same mutex at once.
THEOREM NoAliasingHolds == Spec => []NoAliasing
BY TableInit, TypeStep, TableStep, TableInvImpliesNoAliasing, PTL DEF Spec

\* Only empty slots are claimed and only claimed slots are filled.
LEMMA FinalStep ==
  ASSUME TypeInv, TableInv, [Next]_vars, NEW i \in Slots
  PROVE  /\ key[i] # None => key'[i] = key[i]
         /\ value[i] # None => value'[i] = value[i]
<1> USE DEF TypeInv, TypeOK, table
<1>1. CASE UNCHANGED <<key, value>>
  BY <1>1
<1>2. CASE \E t \in Threads : PutClaim(t)
  BY <1>2 DEF PutClaim
<1>3. CASE \E t \in Threads : Publish(t)
  BY <1>3 DEF Publish, TableInv, ClaimsHold, LocalsOK
<1>4. ASSUME NEW t \in Threads,
             ProgramStep(t) \/ LookupStep(t) \/ LockStep(t)
      PROVE  UNCHANGED <<key, value>> \/ PutClaim(t) \/ Publish(t)
  <2>1. CASE ProgramStep(t)
    BY <2>1, ProgramCalls DEF EndProcess, Call
  <2>2. CASE LookupStep(t) \/ LockStep(t)
    BY <2>2
    DEF LookupStep, GetSkip, GetHit, GetValue, GetMiss, MakeLock,
        MakeFails, PutSkip, NextSlot, PutFull, EndProcess, LockStep, TakeLock, FindTaken, ReleaseLock,
        WaitRelease, WaitRetake
  <2> QED
    BY <1>4, <2>1, <2>2
<1>5. CASE UNCHANGED vars
  BY <1>1, <1>5 DEF vars
<1> QED
  BY <1>1, <1>2, <1>3, <1>4, <1>5 DEF Next

\* A slot keeps its key and its lock for ever: what a lookup has returned to a
\* thread stays what every later lookup of the slot returns.
THEOREM EntriesAreFinalHolds == Spec => EntriesAreFinal
<1>1. TypeInv /\ TableInv /\ [Next]_vars =>
        [\A i \in Slots :
           /\ key[i] # None => key'[i] = key[i]
           /\ value[i] # None => value'[i] = value[i]]_vars
  BY FinalStep
<1> QED
  BY <1>1, TableInit, TypeStep, TableStep, PTL DEF Spec, EntriesAreFinal
-----------------------------------------------------------------------------
(* A mutex that is not raced for has one lock for ever.                    *)

\* Lookups of m find a filled slot.
EnteredIn(keys, values, m) ==
  \E i \in Slots : FirstIn(keys, m, i) /\ values[i] # None

Entered(m) == EnteredIn(key, value, m)

\* Slots are claimed from the first, and t has found those before its place
\* claimed; a claimed slot that is empty has its claimer.
ClaimsInOrder ==
  /\ \A i, j \in Slots : j < i /\ key[i] # None => key[j] # None
  /\ \A t \in Threads : pc[t] = "put" =>
       \A j \in Slots : j < at[t] => key[j] # None
  /\ \A i \in Slots : key[i] # None /\ value[i] = None =>
       \E t \in Threads : pc[t] = "publish" /\ at[t] = i

\* Nobody else calls anything on t's mutex, and nobody holds it.
Alone(t) ==
  \A u \in Threads : (u # t => arg[u] # arg[t]) /\ arg[t] \notin holds[u]

\* An ordered mutex is initialised, and used for the first time, by one thread;
\* whoever makes a lock for it by using it finds no entry when it publishes.
FirstUses ==
  \A t \in Threads : arg[t] \in Ordered =>
    /\ op[t] = "init" \/ ~Entered(arg[t]) => Alone(t)
    /\ pc[t] \in {"make", "put", "publish"} /\ op[t] # "init" => ~Entered(arg[t])

\* Of the entries of an ordered mutex the first is filled first, and a lookup
\* does not pass it.
FirstEntries ==
  /\ \A i \in Slots : key[i] \in Ordered /\ value[i] # None => Entered(key[i])
  /\ \A t \in Threads : pc[t] = "get" /\ arg[t] \in Ordered =>
       \A i \in Slots : FirstIn(key, arg[t], i) => i >= at[t]
  /\ \A t \in Threads : pc[t] = "value" /\ arg[t] \in Ordered =>
       FirstIn(key, arg[t], at[t])

\* The lock of the first entry says who holds an ordered mutex.
HeldInv ==
  /\ \A t \in Threads : \A m \in holds[t] \cap Ordered :
       \E i \in Slots : FirstIn(key, m, i) /\ value[i] \in taken
  /\ \A t, u \in Threads : \A m \in Ordered :
       m \in holds[t] /\ m \in holds[u] => t = u
  /\ \A t \in Threads :
       op[t] \in {"unlock", "wait"} /\ pc[t] # "asleep" => arg[t] \in holds[t]

StableInv ==
  ClaimsInOrder /\ FirstUses /\ FirstEntries /\ StableLock /\ HeldInv

LEMMA FirstIsOne ==
  ASSUME NEW keys, NEW m, NEW i \in Slots, NEW j \in Slots,
         FirstIn(keys, m, i), FirstIn(keys, m, j)
  PROVE  i = j
<1>1. i \in Nat /\ j \in Nat /\ i >= 1 /\ j >= 1
  BY TableAssumption DEF Slots
<1>2. CASE i < j
  BY <1>1, <1>2 DEF FirstIn
<1>3. CASE j < i
  BY <1>1, <1>3 DEF FirstIn
<1> QED
  BY <1>1, <1>2, <1>3

\* The only slot with the key of a mutex nobody has entered is the one that its
\* only user has claimed.
LEMMA OnlyClaim ==
  ASSUME TypeInv, TableInv, StableInv, NEW t \in Threads,
         arg[t] \in Ordered, Alone(t), ~Entered(arg[t]),
         NEW i \in Slots, key[i] = arg[t]
  PROVE  pc[t] = "publish" /\ i = at[t]
<1>1. key[i] # None /\ value[i] = None
  BY TableAssumption DEF StableInv, FirstEntries, Ordered
<1>2. PICK u \in Threads : pc[u] = "publish" /\ at[u] = i
  BY <1>1 DEF StableInv, ClaimsInOrder
<1>3. arg[u] = arg[t]
  BY <1>2 DEF TableInv, ClaimsHold
<1> QED
  BY <1>2, <1>3 DEF Alone

\* A step of t that leaves the table and the locks alone and claims nothing.
LEMMA ReadingKeepsStable ==
  ASSUME TypeInv, TableInv, StableInv, NEW t \in Threads,
         UNCHANGED <<key, value, taken, holds>>,
         NEW l \in Labels \ {"publish", "asleep"},
         pc[t] \notin {"idle", "publish", "asleep"}, pc' = [pc EXCEPT ![t] = l],
         \/ UNCHANGED <<op, arg>> /\ l # "idle"
         \/ arg'[t] = None /\ op'[t] = None /\ at'[t] = 1 /\ l = "idle",
         \A u \in Threads \ {t} :
           op'[u] = op[u] /\ arg'[u] = arg[u] /\ at'[u] = at[u] /\ impl'[u] = impl[u],
         l = "put" => \A j \in Slots : j < at'[t] => key[j] # None,
         arg[t] \in Ordered /\ l # "idle" =>
           /\ l \in {"make", "put"} /\ op[t] # "init" => ~Entered(arg[t])
           /\ l = "get" => \A i \in Slots : FirstIn(key, arg[t], i) => i >= at'[t]
           /\ l = "value" => FirstIn(key, arg[t], at'[t])
           /\ l = "use" => \E i \in Slots : FirstIn(key, arg[t], i) /\ value[i] = impl'[t]
  PROVE  StableInv'
<1> USE DEF TypeInv, TypeOK, StableInv
<1>a. None \notin Ordered
  BY TableAssumption DEF Ordered
<1>1. ClaimsInOrder'
  BY DEF ClaimsInOrder
<1>2. FirstUses'
  BY <1>a DEF FirstUses, Alone, Entered, FirstIn
<1>3. FirstEntries'
  BY <1>a DEF FirstEntries, Entered, FirstIn
<1>4. StableLock'
  <2> SUFFICES ASSUME NEW u \in Threads, InUse(u)', arg'[u] \notin Racy
               PROVE  \E i \in Slots : FirstIn(key, arg'[u], i) /\ value[i] = impl'[u]
    BY DEF StableLock, FirstIn
  <2>1. CASE u = t
    <3>1. l = "use" /\ arg'[t] = arg[t]
      BY <2>1 DEF InUse
    <3> QED
      BY <2>1, <3>1 DEF Ordered, LocalsOK
  <2>2. CASE u # t
    BY <2>2 DEF InUse, StableLock
  <2> QED
    BY <2>1, <2>2
<1>5. HeldInv'
  BY NullAssumption DEF HeldInv, FirstIn, Ops, Labels
<1> QED
  BY <1>1, <1>2, <1>3, <1>4, <1>5

\* A new call: of a mutex that is initialised it finds the entry, of another it
\* is the only one.
LEMMA CallKeepsStable ==
  ASSUME TypeInv, TableInv, StableInv, NEW t \in Threads,
         NEW m \in Mutexes, NEW o \in Ops, NEW first \in {"get", "make"},
         Call(t, o, m, first),
         first = "make" <=> o = "init",
         o \in {"unlock", "wait"} => m \in holds[t],
         m \in Ordered => \/ m \in holds[t] /\ o # "init"
                          \/ Quiet(m)
                          \/ Known(m) /\ o # "init"
  PROVE  StableInv'
<1> USE DEF TypeInv, TypeOK, StableInv, Goto, table, locks
<1>1. /\ UNCHANGED <<key, value, taken, holds, at, impl>> /\ pc[t] = "idle"
      /\ op' = [op EXCEPT ![t] = o] /\ arg' = [arg EXCEPT ![t] = m]
      /\ pc' = [pc EXCEPT ![t] = first]
  BY DEF Call
<1>2. m \in Ordered => Quiet(m) \/ (Entered(m) /\ o # "init")
  <2>1. m \in holds[t] /\ m \in Ordered => Entered(m)
    BY NullAssumption DEF HeldInv, Entered, EnteredIn
  <2>2. Known(m) /\ m \in Ordered => Entered(m)
    BY DEF Known, FirstEntries
  <2> QED
    BY <2>1, <2>2
<1>4. ClaimsInOrder'
  BY <1>1 DEF ClaimsInOrder
<1>5. FirstUses'
  <2> SUFFICES ASSUME NEW u \in Threads, arg'[u] \in Ordered
               PROVE  /\ op'[u] = "init" \/ ~EnteredIn(key', value', arg'[u]) => Alone(u)'
                      /\ pc'[u] \in {"make", "put", "publish"} /\ op'[u] # "init"
                           => ~EnteredIn(key', value', arg'[u])
    BY <1>1 DEF FirstUses, Entered, FirstIn
  <2>1. CASE u = t
    <3>1. Quiet(m) => Alone(t)'
      BY <1>1 DEF Quiet, Alone
    <3> QED
      BY <1>1, <1>2, <2>1, <3>1 DEF Entered
  <2>2. CASE u # t /\ arg[u] = m
    <3>1. ~Quiet(m) /\ arg[u] = arg'[u] /\ op'[u] = op[u] /\ pc'[u] = pc[u]
      BY <1>1, <2>2 DEF Quiet
    <3>2. op[u] # "init"
      <4>1. m \in holds[t] => ~Alone(u)
        BY <2>2 DEF Alone
      <4>2. Known(m) => op[u] # "init"
        BY <2>2 DEF Known
      <4> QED
        BY <2>2, <3>1, <4>1, <4>2 DEF FirstUses
    <3> QED
      BY <1>1, <1>2, <2>2, <3>1, <3>2 DEF FirstUses, Entered
  <2>3. CASE u # t /\ arg[u] # m
    <3>1. arg[u] = arg'[u] /\ op'[u] = op[u] /\ pc'[u] = pc[u]
      BY <1>1, <2>3
    <3>2. Alone(u) => Alone(u)'
      BY <1>1, <2>3 DEF Alone
    <3> QED
      BY <1>1, <2>3, <3>1, <3>2 DEF FirstUses, Entered
  <2> QED
    BY <2>1, <2>2, <2>3
<1>6. FirstEntries'
  <2>1. at[t] = 1 /\ \A i \in Slots : i >= 1
    BY <1>1, TableAssumption DEF LocalsOK, Slots
  <2> QED
    BY <1>1, <2>1 DEF FirstEntries, Entered, FirstIn
<1>7. StableLock'
  BY <1>1 DEF StableLock, InUse, FirstIn
<1>8. HeldInv'
  BY <1>1 DEF HeldInv, FirstIn
<1> QED
  BY <1>4, <1>5, <1>6, <1>7, <1>8

\* The first claim for an ordered mutex is the only one; a later one, by a call
\* that initialises it again, comes behind the first entry.
LEMMA ClaimKeepsStable ==
  ASSUME TypeInv, TableInv, StableInv, NEW t \in Threads, PutClaim(t)
  PROVE  StableInv'
<1> USE DEF TypeInv, TypeOK, StableInv, Goto, locks, call
<1>1. /\ at[t] \in Slots /\ key[at[t]] = None /\ pc[t] = "put"
      /\ key' = [key EXCEPT ![at[t]] = arg[t]]
      /\ pc' = [pc EXCEPT ![t] = "publish"]
      /\ UNCHANGED <<value, taken, holds, op, arg, at, impl>>
  BY DEF PutClaim
<1>2. value[at[t]] = None /\ arg[t] \in Mutexes /\ arg[t] # None
  BY <1>1, TableAssumption DEF TableInv, SlotsFilled, LocalsOK
<1>3. \A i \in Slots : i \in Nat
  BY TableAssumption DEF Slots
<1>4. \A i \in Slots : \A j \in 1 .. i - 1 : j \in Slots
  BY TableAssumption DEF Slots
\* The claim leaves the first slots alone, of this mutex and of the others.
<1>5. ASSUME NEW m \in Mutexes, NEW i \in Slots, FirstIn(key, m, i)
      PROVE  FirstIn(key', m, i)
  <2>1. key[i] = m /\ m # None /\ i # at[t]
    BY <1>1, <1>5, TableAssumption DEF FirstIn
  <2>2. at[t] \notin 1 .. i - 1
    BY <1>1, <1>3, <2>1 DEF ClaimsInOrder
  <2> QED
    BY <1>1, <1>5, <2>1, <2>2 DEF FirstIn
\* Only an ordered mutex that is not entered gets a new first slot.
<1>6. ASSUME NEW m \in Mutexes, NEW i \in Slots, FirstIn(key', m, i),
             m \in Ordered
      PROVE  FirstIn(key, m, i) \/ (m = arg[t] /\ i = at[t] /\ ~Entered(m))
  <2>1. CASE i # at[t]
    BY <1>1, <1>4, <1>6, <2>1, TableAssumption DEF FirstIn, Ordered
  <2>2. CASE i = at[t]
    <3>1. m = arg[t]
      BY <1>1, <1>6, <2>2 DEF FirstIn
    <3>2. CASE Entered(m)
      <4>1. PICK j \in Slots : FirstIn(key, m, j) /\ value[j] # None
        BY <3>2 DEF Entered, EnteredIn
      <4>2. FirstIn(key', m, j)
        BY <1>5, <4>1
      <4>3. i = j
        BY <1>6, <4>2, FirstIsOne
      <4> QED
        BY <1>2, <2>2, <4>1, <4>3
    <3> QED
      BY <2>2, <3>1, <3>2
  <2> QED
    BY <2>1, <2>2
<1>7. \A m \in Ordered : EnteredIn(key', value', m) <=> Entered(m)
  BY <1>1, <1>2, <1>5, <1>6 DEF Entered, EnteredIn, Ordered
<1>8. ClaimsInOrder'
  BY <1>1, <1>2, <1>3 DEF ClaimsInOrder
<1>9. FirstUses'
  BY <1>1, <1>7 DEF FirstUses, Alone, Entered
<1>10. FirstEntries'
  <2>1. ASSUME NEW i \in Slots, key'[i] \in Ordered, value'[i] # None
        PROVE  EnteredIn(key', value', key'[i])
    BY <1>1, <1>2, <1>7, <2>1 DEF FirstEntries, Entered
  <2>2. ASSUME NEW u \in Threads, pc'[u] \in {"get", "value"}, arg'[u] \in Ordered
        PROVE  /\ pc'[u] = "get" =>
                    \A i \in Slots : FirstIn(key', arg'[u], i) => i >= at'[u]
               /\ pc'[u] = "value" => FirstIn(key', arg'[u], at'[u])
    <3>1. u # t /\ pc'[u] = pc[u] /\ arg'[u] = arg[u] /\ at'[u] = at[u]
      BY <1>1, <2>2
    <3>2. arg[t] = arg[u] => Entered(arg[u])
      BY <3>1, <2>2 DEF FirstUses, Alone
    <3>3. arg[u] \in Mutexes
      BY <2>2, <3>1 DEF Ordered
    <3>4. \A i \in Slots : FirstIn(key', arg[u], i) => FirstIn(key, arg[u], i)
      BY <1>6, <2>2, <3>1, <3>2, <3>3
    <3>5. pc[u] = "value" => at[u] \in Slots
      BY DEF LocalsOK
    <3> QED
      BY <1>5, <2>2, <3>1, <3>3, <3>4, <3>5 DEF FirstEntries
  <2> QED
    BY <2>1, <2>2 DEF FirstEntries, Entered
<1>11. StableLock'
  <2> SUFFICES ASSUME NEW u \in Threads, InUse(u)', arg'[u] \notin Racy
               PROVE  \E i \in Slots : FirstIn(key', arg'[u], i) /\ value'[i] = impl'[u]
    BY DEF StableLock
  <2>1. InUse(u) /\ u # t
    BY <1>1 DEF InUse
  <2> QED
    BY <1>1, <1>5, <2>1 DEF StableLock, InUse, LocalsOK
<1>12. HeldInv'
  <2>1. ASSUME NEW u \in Threads, NEW m \in holds'[u] \cap Ordered
        PROVE  \E i \in Slots : FirstIn(key', m, i) /\ value'[i] \in taken'
    BY <1>1, <1>5, <2>1 DEF HeldInv, Ordered
  <2>2. \A u \in Threads :
          op'[u] \in {"unlock", "wait"} /\ pc'[u] # "asleep" => arg'[u] \in holds'[u]
    BY <1>1 DEF HeldInv
  <2> QED
    BY <1>1, <2>1, <2>2 DEF HeldInv
<1> QED
  BY <1>8, <1>9, <1>10, <1>11, <1>12

\* The lock of an ordered mutex nobody has entered yet goes into its first slot.
LEMMA PublishKeepsStable ==
  ASSUME TypeInv, TableInv, StableInv, NEW t \in Threads, Publish(t)
  PROVE  StableInv'
<1> USE DEF TypeInv, TypeOK, StableInv, Goto, locks, call
<1>1. PICK l \in {"idle", "use"} :
        /\ pc[t] = "publish" /\ pc' = [pc EXCEPT ![t] = l]
        /\ value' = [value EXCEPT ![at[t]] = impl[t]]
        /\ UNCHANGED <<key, taken, holds>>
        /\ l = "use" => op[t] # "init" /\ UNCHANGED <<op, arg, at, impl>>
        /\ l = "idle" => op'[t] = None /\ arg'[t] = None /\ at'[t] = 1
        /\ \A u \in Threads \ {t} : op'[u] = op[u] /\ arg'[u] = arg[u]
                                    /\ at'[u] = at[u] /\ impl'[u] = impl[u]
  <2>1. CASE op[t] = "init"
    BY <2>1 DEF Publish, Return
  <2>2. CASE op[t] # "init"
    BY <2>2 DEF Publish
  <2> QED
    BY <2>1, <2>2
<1>2. /\ at[t] \in Slots /\ key[at[t]] = arg[t] /\ value[at[t]] = None
      /\ arg[t] \in Mutexes /\ impl[t] # None /\ op[t] \in Ops
  BY <1>1, NullAssumption DEF TableInv, ClaimsHold, LocalsOK
<1>3. None \notin Mutexes /\ None \notin Ops
  BY TableAssumption, NullAssumption
<1>4. \A i \in Slots : value[i] # None => value'[i] = value[i]
  BY <1>1, <1>2
<1>5. ASSUME arg[t] \in Ordered, ~Entered(arg[t])
      PROVE  FirstIn(key, arg[t], at[t])
  <2>1. Alone(t)
    BY <1>5 DEF FirstUses
  <2>2. \A j \in Slots : key[j] = arg[t] => j = at[t]
    BY <1>5, <2>1, OnlyClaim
  <2>3. \A j \in 1 .. at[t] - 1 : j \in Slots /\ j # at[t]
    BY <1>2, TableAssumption DEF Slots
  <2> QED
    BY <1>2, <2>2, <2>3 DEF FirstIn
<1>6. \A m \in Ordered :
        EnteredIn(key', value', m) <=> Entered(m) \/ m = arg[t]
  <2>1. \A m \in Ordered : Entered(m) => EnteredIn(key', value', m)
    BY <1>1, <1>4 DEF Entered, EnteredIn
  <2>2. arg[t] \in Ordered => EnteredIn(key', value', arg[t])
    BY <1>1, <1>2, <1>5, <2>1 DEF Entered, EnteredIn
  <2>3. \A m \in Ordered : m # arg[t] /\ EnteredIn(key', value', m) => Entered(m)
    BY <1>1, <1>2 DEF Entered, EnteredIn, FirstIn
  <2> QED
    BY <2>1, <2>2, <2>3
<1>7. arg[t] \in Ordered =>
        (op[t] = "init" \/ ~Entered(arg[t])
           => \A u \in Threads \ {t} : arg[u] # arg[t])
  BY DEF FirstUses, Alone
<1>8. ClaimsInOrder'
  <2>1. \A i, j \in Slots : j < i /\ key'[i] # None => key'[j] # None
    BY <1>1 DEF ClaimsInOrder
  <2>2. \A u \in Threads : pc'[u] = "put" =>
          \A j \in Slots : j < at'[u] => key'[j] # None
    BY <1>1 DEF ClaimsInOrder
  <2>3. ASSUME NEW i \in Slots, key'[i] # None, value'[i] = None
        PROVE  \E u \in Threads : pc'[u] = "publish" /\ at'[u] = i
    <3>1. i # at[t]
      BY <1>1, <1>2, <2>3
    <3>2. PICK u \in Threads : pc[u] = "publish" /\ at[u] = i
      BY <1>1, <2>3, <3>1 DEF ClaimsInOrder
    <3> QED
      BY <1>1, <3>1, <3>2
  <2> QED
    BY <2>1, <2>2, <2>3 DEF ClaimsInOrder
<1>9. FirstUses'
  <2> SUFFICES ASSUME NEW u \in Threads, arg'[u] \in Ordered
               PROVE  /\ op'[u] = "init" \/ ~EnteredIn(key', value', arg'[u]) => Alone(u)'
                      /\ pc'[u] \in {"make", "put", "publish"} /\ op'[u] # "init"
                           => ~EnteredIn(key', value', arg'[u])
    BY DEF FirstUses, Entered
  <2>1. CASE u = t
    BY <1>1, <1>3, <1>6, <2>1 DEF Ordered
  <2>2. CASE u # t
    <3>1. op'[u] = op[u] /\ arg'[u] = arg[u] /\ pc'[u] = pc[u]
      BY <1>1, <2>2
    <3>2. Alone(u) => Alone(u)'
      BY <1>1, <1>3, <3>1 DEF Alone, Ordered
    <3>3. pc[u] \in {"make", "put", "publish"} /\ op[u] # "init" => arg[u] # arg[t]
      BY <2>2, <3>1 DEF FirstUses, Alone
    <3> QED
      BY <1>6, <3>1, <3>2, <3>3 DEF FirstUses
  <2> QED
    BY <2>1, <2>2
<1>10. FirstEntries'
  <2>1. \A i \in Slots : key'[i] \in Ordered /\ value'[i] # None
          => EnteredIn(key', value', key'[i])
    BY <1>1, <1>2, <1>6 DEF FirstEntries
  <2>2. \A u \in Threads : pc'[u] \in {"get", "value"} =>
          /\ u # t /\ pc[u] = pc'[u] /\ arg'[u] = arg[u] /\ at'[u] = at[u]
    BY <1>1
  <2> QED
    BY <1>1, <2>1, <2>2 DEF FirstEntries, Entered
<1>11. StableLock'
  <2> SUFFICES ASSUME NEW u \in Threads, InUse(u)', arg'[u] \notin Racy
               PROVE  \E i \in Slots : FirstIn(key', arg'[u], i) /\ value'[i] = impl'[u]
    BY DEF StableLock
  <2>1. CASE u = t
    <3>1. l = "use"
      BY <1>1, <2>1 DEF InUse
    <3>2. arg[t] \in Ordered /\ ~Entered(arg[t])
      BY <1>1, <1>2, <2>1, <3>1 DEF Ordered, FirstUses
    <3> QED
      BY <1>1, <1>2, <1>5, <2>1, <3>1, <3>2
  <2>2. CASE u # t
    <3>1. InUse(u) /\ arg'[u] = arg[u] /\ impl'[u] = impl[u] /\ impl[u] # None
      BY <1>1, <2>2, NullAssumption DEF InUse, LocalsOK
    <3> QED
      BY <1>1, <1>4, <3>1 DEF StableLock
  <2> QED
    BY <2>1, <2>2
<1>12. HeldInv'
  <2>1. \A u \in Threads : \A m \in holds'[u] \cap Ordered :
          \E i \in Slots : FirstIn(key', m, i) /\ value'[i] \in taken'
    BY <1>1, <1>4, NullAssumption DEF HeldInv
  <2>2. \A u \in Threads : op'[u] \in {"unlock", "wait"} =>
          op[u] = op'[u] /\ arg'[u] = arg[u]
    BY <1>1, <1>3 DEF Ops
  <2>3. \A u \in Threads : pc'[u] # "asleep" => pc[u] # "asleep"
    BY <1>1
  <2> QED
    BY <1>1, <2>1, <2>2, <2>3 DEF HeldInv
<1> QED
  BY <1>8, <1>9, <1>10, <1>11, <1>12

\* An ordered mutex is entered when its lock is used; nobody holds it when that
\* lock is not taken.
LEMMA FreeLockIsFree ==
  ASSUME TypeInv, StableInv, NEW t \in Threads, InUse(t),
         impl[t] \notin taken, arg[t] \in Ordered
  PROVE  /\ \A u \in Threads : arg[t] \notin holds[u]
         /\ \E i \in Slots : FirstIn(key, arg[t], i) /\ value[i] = impl[t]
         /\ Entered(arg[t])
<1>1. PICK i \in Slots : FirstIn(key, arg[t], i) /\ value[i] = impl[t]
  BY DEF StableInv, StableLock, Ordered
<1>2. Entered(arg[t])
  BY <1>1, NullAssumption
  DEF Entered, EnteredIn, TypeInv, LocalsOK, InUse
<1>3. ASSUME NEW u \in Threads, arg[t] \in holds[u] PROVE FALSE
  <2>1. PICK j \in Slots : FirstIn(key, arg[t], j) /\ value[j] \in taken
    BY <1>3 DEF StableInv, HeldInv
  <2>2. i = j
    BY <1>1, <2>1, FirstIsOne
  <2> QED
    BY <1>1, <2>1, <2>2
<1> QED
  BY <1>1, <1>2, <1>3

\* t takes the lock it has found, which serves no other mutex.
LEMMA TakingKeepsStable ==
  ASSUME TypeInv, TableInv, StableInv, NEW t \in Threads, InUse(t),
         impl[t] \notin taken, taken' = taken \cup {impl[t]},
         holds' = [holds EXCEPT ![t] = @ \cup {arg[t]}],
         Return(t), UNCHANGED table
  PROVE  StableInv'
<1> USE DEF TypeInv, TypeOK, StableInv, Goto, table
<1>1. /\ UNCHANGED <<key, value>> /\ pc' = [pc EXCEPT ![t] = "idle"]
      /\ op' = [op EXCEPT ![t] = None] /\ arg' = [arg EXCEPT ![t] = None]
      /\ at' = [at EXCEPT ![t] = 1] /\ impl' = [impl EXCEPT ![t] = None]
  BY DEF Return
<1>2. None \notin Ordered /\ None \notin Ops /\ pc[t] # "publish" /\ arg[t] \in Mutexes
  BY TableAssumption, NullAssumption DEF Ordered, InUse, LocalsOK
<1>3. arg[t] \in Ordered =>
        /\ \A u \in Threads : arg[t] \notin holds[u]
        /\ \E i \in Slots : FirstIn(key, arg[t], i) /\ value[i] = impl[t]
        /\ Entered(arg[t])
  BY FreeLockIsFree
<1>4. ClaimsInOrder'
  BY <1>1, <1>2 DEF ClaimsInOrder
<1>5. FirstUses'
  <2> SUFFICES ASSUME NEW u \in Threads, arg'[u] \in Ordered
               PROVE  /\ op'[u] = "init" \/ ~Entered(arg[u]) => Alone(u)'
                      /\ pc'[u] \in {"make", "put", "publish"} /\ op'[u] # "init"
                           => ~Entered(arg[u])
    BY <1>1, <1>2 DEF FirstUses, Entered
  <2>1. u # t /\ arg'[u] = arg[u] /\ op'[u] = op[u] /\ pc'[u] = pc[u]
    BY <1>1, <1>2
  <2>2. Alone(u) => Alone(u)'
    BY <1>1, <1>2, <2>1 DEF Alone
  <2> QED
    BY <2>1, <2>2 DEF FirstUses
<1>6. FirstEntries'
  BY <1>1, <1>2 DEF FirstEntries, Entered
<1>7. StableLock'
  <2>1. \A u \in Threads : InUse(u)' => u # t /\ InUse(u)
    BY <1>1 DEF InUse
  <2> QED
    BY <1>1, <2>1 DEF StableLock
<1>8. HeldInv'
  <2>1. \A u \in Threads : \A m \in holds'[u] \cap Ordered :
          \E i \in Slots : FirstIn(key', m, i) /\ value'[i] \in taken'
    BY <1>1, <1>3 DEF HeldInv
  <2>2. \A u, v \in Threads : \A m \in Ordered :
          m \in holds'[u] /\ m \in holds'[v] => u = v
    BY <1>3 DEF HeldInv
  <2>3. \A u \in Threads : op'[u] \in {"unlock", "wait"} =>
          u # t /\ op[u] = op'[u] /\ arg'[u] = arg[u] /\ pc'[u] = pc[u]
    BY <1>1, <1>2 DEF Ops
  <2> QED
    BY <2>1, <2>2, <2>3 DEF HeldInv
<1> QED
  BY <1>4, <1>5, <1>6, <1>7, <1>8

\* t gives up the lock it has found, and with it no other mutex.
LEMMA ReleasingKeepsStable ==
  ASSUME TypeInv, TableInv, StableInv, NEW t \in Threads, pc[t] = "use",
         op[t] \in {"unlock", "wait"}, taken' = taken \ {impl[t]},
         holds' = [holds EXCEPT ![t] = @ \ {arg[t]}],
         \/ Return(t)
         \/ op[t] = "wait" /\ Goto(t, "asleep") /\ UNCHANGED <<op, arg, at, impl>>,
         UNCHANGED table
  PROVE  StableInv'
<1> USE DEF TypeInv, TypeOK, StableInv, Goto, table
<1>1. PICK l \in {"idle", "asleep"} :
        /\ UNCHANGED <<key, value>> /\ pc' = [pc EXCEPT ![t] = l]
        /\ l = "asleep" => UNCHANGED <<op, arg, at, impl>>
        /\ l = "idle" => op'[t] = None /\ arg'[t] = None /\ at'[t] = 1
        /\ \A u \in Threads \ {t} : op'[u] = op[u] /\ arg'[u] = arg[u]
                                    /\ at'[u] = at[u] /\ impl'[u] = impl[u]
  <2>1. CASE Return(t)
    BY <2>1 DEF Return
  <2>2. CASE ~Return(t)
    BY <2>2
  <2> QED
    BY <2>1, <2>2
<1>2. None \notin Ordered /\ None \notin Ops /\ arg[t] \in Mutexes
  BY TableAssumption, NullAssumption DEF Ordered, LocalsOK
<1>3. arg[t] \in holds[t]
  BY DEF HeldInv
\* The lock is the first of no other mutex.
<1>4. ASSUME NEW m \in Ordered, m # arg[t], NEW i \in Slots, FirstIn(key, m, i)
      PROVE  value[i] # impl[t]
  <2>1. PICK j \in Slots : value[j] = impl[t] /\ key[j] = arg[t]
    BY DEF TableInv, UsesEntered, InUse
  <2>2. impl[t] # None
    BY NullAssumption DEF LocalsOK
  <2> QED
    BY <1>4, <2>1, <2>2 DEF TableInv, OnePlace, FirstIn
<1>5. \A u \in Threads : \A m \in holds'[u] \cap Ordered :
        m \in holds[u] /\ m # arg[t]
  BY <1>3 DEF HeldInv
<1>6. ClaimsInOrder'
  BY <1>1 DEF ClaimsInOrder
<1>7. FirstUses'
  <2> SUFFICES ASSUME NEW u \in Threads, arg'[u] \in Ordered
               PROVE  /\ op'[u] = "init" \/ ~Entered(arg[u]) => Alone(u)'
                      /\ pc'[u] \in {"make", "put", "publish"} /\ op'[u] # "init"
                           => ~Entered(arg[u])
    BY <1>1, <1>2 DEF FirstUses, Entered
  <2>1. arg'[u] = arg[u] /\ op'[u] = op[u]
        /\ (pc'[u] = pc[u] \/ pc'[u] \notin {"make", "put", "publish"})
    BY <1>1, <1>2
  <2>2. Alone(u) => Alone(u)'
    BY <1>1, <1>2, <2>1 DEF Alone
  <2> QED
    BY <2>1, <2>2 DEF FirstUses
<1>8. FirstEntries'
  BY <1>1 DEF FirstEntries, Entered
<1>9. StableLock'
  <2>1. \A u \in Threads : InUse(u)' =>
          InUse(u) /\ arg'[u] = arg[u] /\ impl'[u] = impl[u]
    BY <1>1 DEF InUse
  <2> QED
    BY <1>1, <2>1 DEF StableLock
<1>10. HeldInv'
  <2>1. \A u \in Threads : \A m \in holds'[u] \cap Ordered :
          \E i \in Slots : FirstIn(key', m, i) /\ value'[i] \in taken'
    BY <1>1, <1>4, <1>5 DEF HeldInv
  <2>2. \A u, v \in Threads : \A m \in Ordered :
          m \in holds'[u] /\ m \in holds'[v] => u = v
    BY <1>5 DEF HeldInv
  <2>3. \A u \in Threads : op'[u] \in {"unlock", "wait"} /\ pc'[u] # "asleep" =>
          u # t /\ op'[u] = op[u] /\ pc[u] # "asleep" /\ arg'[u] = arg[u]
    BY <1>1, <1>2 DEF Ops
  <2> QED
    BY <2>1, <2>2, <2>3 DEF HeldInv
<1> QED
  BY <1>6, <1>7, <1>8, <1>9, <1>10

LEMMA EndKeepsStable == StableInv /\ EndProcess => StableInv'
BY DEF EndProcess, table, locks, call, StableInv, ClaimsInOrder, FirstUses,
   Alone, FirstEntries, Entered, StableLock, InUse, HeldInv

LEMMA StableStep == TypeInv /\ TableInv /\ StableInv /\ [Next]_vars => StableInv'
<1> SUFFICES ASSUME TypeInv, TableInv, StableInv, [Next]_vars PROVE StableInv'
  OBVIOUS
<1> USE DEF Goto, table, locks, call
<1>1. CASE UNCHANGED vars
  BY <1>1 DEF vars, StableInv, ClaimsInOrder, FirstUses, Alone, FirstEntries,
     Entered, StableLock, InUse, HeldInv
<1>2. ASSUME NEW t \in Threads, ProgramStep(t) PROVE StableInv'
  BY <1>2, ProgramCalls, CallKeepsStable, EndKeepsStable
<1>3. ASSUME NEW t \in Threads, LookupStep(t) PROVE StableInv'
  <2> USE DEF TypeInv, TypeOK, Labels
  <2>1. CASE GetSkip(t)
    <3>1. /\ at[t] \in Slots /\ key[at[t]] # arg[t] /\ pc[t] = "get"
          /\ at' = [at EXCEPT ![t] = @ + 1]
          /\ UNCHANGED <<key, value, pc, op, arg, impl, taken, holds>>
      BY <2>1 DEF GetSkip, NextSlot
    <3>2. arg[t] \in Ordered =>
            \A i \in Slots : FirstIn(key, arg[t], i) => i >= at'[t]
      <4> SUFFICES ASSUME arg[t] \in Ordered, NEW i \in Slots,
                          FirstIn(key, arg[t], i)
                   PROVE  i >= at[t] + 1
        BY <3>1
      <4>1. i >= at[t]
        BY <3>1 DEF StableInv, FirstEntries
      <4>2. i # at[t]
        BY <3>1 DEF FirstIn
      <4>3. i \in Nat /\ at[t] \in Nat
        BY <3>1, TableAssumption DEF Slots
      <4> QED
        BY <4>1, <4>2, <4>3
    <3> QED
      BY <3>1, <3>2, ReadingKeepsStable
  <2>2. CASE GetHit(t)
    <3>1. /\ at[t] \in Slots /\ key[at[t]] = arg[t] /\ pc[t] = "get"
          /\ pc' = [pc EXCEPT ![t] = "value"]
          /\ UNCHANGED <<key, value, op, arg, at, impl, taken, holds>>
      BY <2>2 DEF GetHit
    <3>2. ASSUME arg[t] \in Ordered PROVE FirstIn(key, arg[t], at[t])
      <4>1. Entered(arg[t])
        BY <3>1, <3>2, OnlyClaim DEF StableInv, FirstUses
      <4>2. PICK i \in Slots : FirstIn(key, arg[t], i)
        BY <4>1 DEF Entered, EnteredIn
      <4>3. i >= at[t]
        BY <3>1, <3>2, <4>2 DEF StableInv, FirstEntries
      <4>4. i > at[t] => at[t] \in 1 .. i - 1
        BY <3>1, TableAssumption DEF Slots
      <4>5. i = at[t]
        BY <3>1, <4>2, <4>3, <4>4, TableAssumption DEF FirstIn, Slots
      <4> QED
        BY <4>2, <4>5
    <3> QED
      BY <3>1, <3>2, ReadingKeepsStable
  <2>3. CASE GetValue(t)
    <3>1. /\ pc[t] = "value" /\ impl'[t] = value[at[t]] /\ at[t] \in Slots
          /\ pc' = [pc EXCEPT ![t] = "use"]
          /\ UNCHANGED <<key, value, op, arg, at, taken, holds>>
          /\ \A u \in Threads \ {t} : impl'[u] = impl[u]
      BY <2>3 DEF GetValue, LocalsOK
    <3>2. arg[t] \in Ordered => FirstIn(key, arg[t], at[t])
      BY <3>1 DEF StableInv, FirstEntries
    <3> QED
      BY <3>1, <3>2, ReadingKeepsStable
  <2>4. CASE GetMiss(t)
    <3>1. /\ at[t] \notin Slots /\ pc[t] = "get"
          /\ pc' = [pc EXCEPT ![t] = "make"]
          /\ UNCHANGED <<key, value, op, arg, at, impl, taken, holds>>
      BY <2>4 DEF GetMiss
    <3>2. arg[t] \in Ordered => ~Entered(arg[t])
      <4>1. \A i \in Slots : ~(i >= at[t])
        BY <3>1, TableAssumption DEF Slots
      <4> QED
        BY <3>1, <4>1 DEF StableInv, FirstEntries, Entered, EnteredIn
    <3> QED
      BY <3>1, <3>2, ReadingKeepsStable
  <2>5. CASE MakeLock(t)
    <3>1. /\ pc[t] = "make" /\ pc' = [pc EXCEPT ![t] = "put"] /\ at'[t] = 1
          /\ UNCHANGED <<key, value, op, arg, taken, holds>>
          /\ \A u \in Threads \ {t} : impl'[u] = impl[u] /\ at'[u] = at[u]
      BY <2>5, TableAssumption DEF MakeLock
    <3>2. \A j \in Slots : ~(j < 1)
      BY TableAssumption DEF Slots
    <3>3. arg[t] \in Ordered /\ op[t] # "init" => ~Entered(arg[t])
      BY <3>1 DEF StableInv, FirstUses
    <3> QED
      BY <3>1, <3>2, <3>3, ReadingKeepsStable
  <2>6. CASE PutSkip(t)
    <3>1. /\ at[t] \in Slots /\ key[at[t]] # None /\ pc[t] = "put"
          /\ at' = [at EXCEPT ![t] = @ + 1]
          /\ UNCHANGED <<key, value, pc, op, arg, impl, taken, holds>>
      BY <2>6 DEF PutSkip, NextSlot
    <3>2. \A j \in Slots : j < at'[t] => j < at[t] \/ j = at[t]
      BY <3>1, TableAssumption DEF Slots
    <3>3. \A j \in Slots : j < at'[t] => key[j] # None
      BY <3>1, <3>2 DEF StableInv, ClaimsInOrder
    <3>4. arg[t] \in Ordered /\ op[t] # "init" => ~Entered(arg[t])
      BY <3>1 DEF StableInv, FirstUses
    <3> QED
      BY <3>1, <3>3, <3>4, ReadingKeepsStable
  <2>7. CASE PutClaim(t) \/ Publish(t)
    BY <2>7, ClaimKeepsStable, PublishKeepsStable
  <2>8. CASE MakeFails(t) \/ PutFull(t)
    BY <2>8, EndKeepsStable DEF MakeFails, PutFull
  <2> QED
    BY <1>3, <2>1, <2>2, <2>3, <2>4, <2>5, <2>6, <2>7, <2>8 DEF LookupStep
<1>4. ASSUME NEW t \in Threads, LockStep(t) PROVE StableInv'
  <2>1. CASE TakeLock(t) \/ WaitRetake(t)
    BY <2>1, TakingKeepsStable DEF TakeLock, WaitRetake, InUse
  <2>2. CASE ReleaseLock(t) \/ WaitRelease(t)
    BY <2>2, ReleasingKeepsStable DEF ReleaseLock, WaitRelease
  <2>3. CASE FindTaken(t)
    <3>1. /\ pc[t] = "use" /\ pc' = [pc EXCEPT ![t] = "idle"]
          /\ op'[t] = None /\ arg'[t] = None /\ at'[t] = 1
          /\ UNCHANGED <<key, value, taken, holds>>
          /\ \A u \in Threads \ {t} : op'[u] = op[u] /\ arg'[u] = arg[u]
                                      /\ at'[u] = at[u] /\ impl'[u] = impl[u]
      BY <2>3, TableAssumption DEF FindTaken, Return, TypeInv, TypeOK
    <3> QED
      BY <3>1, ReadingKeepsStable DEF Labels
  <2> QED
    BY <1>4, <2>1, <2>2, <2>3 DEF LockStep
<1> QED
  BY <1>1, <1>2, <1>3, <1>4 DEF Next

LEMMA StableInit == Init => StableInv
BY TableAssumption, NullAssumption
DEF Init, StableInv, ClaimsInOrder, FirstUses, Alone, FirstEntries, StableLock,
    InUse, HeldInv, Ordered, Ops

\* Whoever operates on a mutex that is not raced for does so on the lock of its
\* first entry, however often the mutex is destroyed and initialised again.
THEOREM StableLockHolds == Spec => []StableLock
<1>1. StableInv => StableLock
  BY DEF StableInv
<1> QED
  BY <1>1, TableInit, TypeStep, TableStep, StableInit, StableStep, PTL DEF Spec

\* Threads that use a mutex at the same time use the same lock, unless it is
\* raced for: the first uses that cross are all that breaks SameLock
\* (interpose.c:157-161).
SameLockUnlessRaced ==
  \A t, u \in Threads :
    InUse(t) /\ InUse(u) /\ arg[t] = arg[u] /\ arg[t] \notin Racy => impl[t] = impl[u]

\* It follows from StableLock: a mutex has one first entry.
THEOREM SameLockUnlessRacedHolds == Spec => []SameLockUnlessRaced
<1>1. StableLock => SameLockUnlessRaced
  <2> SUFFICES ASSUME StableLock, NEW t \in Threads, NEW u \in Threads,
                      InUse(t), InUse(u), arg[t] = arg[u], arg[t] \notin Racy
               PROVE  impl[t] = impl[u]
    BY DEF SameLockUnlessRaced
  <2>1. PICK i \in Slots : FirstIn(key, arg[t], i) /\ value[i] = impl[t]
    BY DEF StableLock
  <2>2. PICK j \in Slots : FirstIn(key, arg[t], j) /\ value[j] = impl[u]
    BY DEF StableLock
  <2> QED
    BY <2>1, <2>2, FirstIsOne
<1> QED
  BY <1>1, StableLockHolds, PTL

\* A lookup that waits for a claimed slot to be filled (interpose.c:115) waits
\* for another thread that is about to fill it, never for nobody or for itself.
AwaitedSlotHasClaimer ==
  \A t \in Threads : pc[t] = "value" /\ value[at[t]] = None =>
    \E u \in Threads \ {t} : pc[u] = "publish" /\ at[u] = at[t]

\* So LookupEnds needs of the scheduler only that the claimer goes on.
THEOREM AwaitedSlotHasClaimerHolds == Spec => []AwaitedSlotHasClaimer
<1>1. TypeInv /\ TableInv /\ StableInv => AwaitedSlotHasClaimer
  <2> SUFFICES ASSUME TypeInv, TableInv, StableInv, NEW t \in Threads,
                      pc[t] = "value", value[at[t]] = None
               PROVE  \E u \in Threads \ {t} : pc[u] = "publish" /\ at[u] = at[t]
    BY DEF AwaitedSlotHasClaimer
  <2>1. at[t] \in Slots /\ arg[t] \in Mutexes /\ arg[t] # None
    BY TableAssumption, NullAssumption DEF TypeInv, LocalsOK
  <2>2. key[at[t]] = arg[t]
    BY DEF TableInv, ClaimsHold
  <2>3. \E u \in Threads : pc[u] = "publish" /\ at[u] = at[t]
    BY <2>1, <2>2 DEF StableInv, ClaimsInOrder
  <2> QED
    BY <2>3
<1> QED
  BY <1>1, TableInit, TypeStep, TableStep, StableInit, StableStep, PTL DEF Spec

-----------------------------------------------------------------------------
(* Through the table every mutex that is not raced for is a Pthread mutex. *)

\* A call, a lookup, and a try that finds the mutex taken, change what each
\* thread is to mutex m at most from "out" to "waiting".
LEMMA QuietView ==
  ASSUME TypeInv, NEW m \in Mutexes, NEW t \in Threads, holds' = holds,
         \A u \in Threads \ {t} :
           op'[u] = op[u] /\ arg'[u] = arg[u] /\ pc'[u] = pc[u],
         View(m)'[t] = View(m)[t] \/ (View(m)[t] = "out" /\ View(m)'[t] = "waiting")
  PROVE  App(m)!Next \/ UNCHANGED View(m)
<1>1. \A u \in Threads \ {t} : View(m)'[u] = View(m)[u]
  BY DEF View
<1>2. View(m)' = [View(m) EXCEPT ![t] = View(m)'[t]]
  <2>1. /\ View(m) = [u \in Threads |-> View(m)[u]]
        /\ View(m)' = [u \in Threads |-> View(m)'[u]]
    BY DEF View
  <2> HIDE DEF View
  <2> QED
    BY <1>1, <2>1
<1>3. CASE View(m)'[t] = View(m)[t]
  <2>1. View(m) = [u \in Threads |-> View(m)[u]]
    BY DEF View
  <2> HIDE DEF View
  <2> QED
    BY <1>2, <1>3, <2>1
<1>4. CASE View(m)[t] = "out" /\ View(m)'[t] = "waiting"
  <2>1. App(m)!Call(t)
    BY <1>2, <1>4 DEF App!Call, App!Move
  <2> QED
    BY <2>1 DEF App!Next
<1> QED
  BY <1>3, <1>4

LEMMA ViewStep ==
  ASSUME TypeInv, TableInv, StableInv, [Next]_vars, NEW m \in Ordered
  PROVE  App(m)!Next \/ UNCHANGED View(m)
<1> USE DEF TypeInv, TypeOK, Goto, table, locks, call
<1>1. m \in Mutexes /\ None # m /\ None \notin Ops
  BY TableAssumption, NullAssumption DEF Ordered
<1>2. CASE UNCHANGED vars
  BY <1>2 DEF vars, View
<1>3. ASSUME NEW t \in Threads, ProgramStep(t)
      PROVE  App(m)!Next \/ UNCHANGED View(m)
  <2>1. CASE EndProcess
    BY <2>1 DEF EndProcess, View
  <2>2. ASSUME NEW n \in Mutexes, NEW o \in Ops, NEW first \in {"get", "make"},
               Call(t, o, n, first)
        PROVE  App(m)!Next \/ UNCHANGED View(m)
    BY <1>1, <2>2, QuietView DEF Call, View, LocalsOK
  <2> QED
    BY <1>3, <2>1, <2>2, ProgramCalls
<1>4. ASSUME NEW t \in Threads, LookupStep(t)
      PROVE  App(m)!Next \/ UNCHANGED View(m)
  <2>1. CASE EndProcess
    BY <2>1 DEF EndProcess, View
  <2>2. CASE Publish(t)
    BY <1>1, <2>2, QuietView DEF Publish, Return, View
  <2>3. CASE ~EndProcess /\ ~Publish(t)
    <3>1. PICK l \in Labels \ {"asleep"} :
            pc[t] # "asleep" /\ pc' = [pc EXCEPT ![t] = l]
            /\ UNCHANGED <<holds, op, arg>>
      BY <1>4, <2>3
      DEF LookupStep, GetSkip, GetHit, GetValue, GetMiss, MakeLock, MakeFails,
          PutClaim, PutSkip, PutFull, NextSlot, Labels
    <3> QED
      BY <1>1, <3>1, QuietView DEF View
  <2> QED
    BY <2>1, <2>2, <2>3
<1>5. ASSUME NEW t \in Threads, LockStep(t)
      PROVE  App(m)!Next \/ UNCHANGED View(m)
  <2>1. CASE FindTaken(t)
    BY <1>1, <2>1, QuietView DEF FindTaken, Return, View
  <2>2. CASE ~FindTaken(t) /\ arg[t] # m
    BY <1>1, <1>5, <2>2, QuietView
    DEF LockStep, TakeLock, ReleaseLock, WaitRelease, WaitRetake, Return, View
  <2>3. CASE (TakeLock(t) \/ WaitRetake(t)) /\ arg[t] = m
    <3>1. \A u \in Threads : m \notin holds[u]
      BY <2>3, FreeLockIsFree DEF TakeLock, WaitRetake, InUse
    <3>2. View(m)' = [View(m) EXCEPT ![t] = "holding"]
      <4>1. /\ holds' = [holds EXCEPT ![t] = @ \cup {m}]
            /\ pc' = [pc EXCEPT ![t] = "idle"]
            /\ op' = [op EXCEPT ![t] = None]
            /\ arg' = [arg EXCEPT ![t] = None]
        BY <2>3 DEF TakeLock, WaitRetake, Return
      <4> QED
        BY <4>1 DEF View
    <3>3. App(m)!Free /\ View(m)[t] \in {"out", "waiting"}
      BY <3>1 DEF App!Free, View
    <3> QED
      BY <3>2, <3>3 DEF App!Next, App!Grant, App!TryLock, App!Move
  <2>4. CASE (ReleaseLock(t) \/ WaitRelease(t)) /\ arg[t] = m
    <3>1. m \in holds[t]
      BY <2>4 DEF ReleaseLock, WaitRelease, StableInv, HeldInv
    <3>2. View(m)[t] = "holding"
      BY <3>1 DEF View
    <3>3. CASE ReleaseLock(t)
      <4>1. View(m)' = [View(m) EXCEPT ![t] = "out"]
        BY <1>1, <2>4, <3>3 DEF ReleaseLock, Return, View
      <4> QED
        BY <3>2, <4>1 DEF App!Next, App!Unlock, App!Move
    <3>4. CASE WaitRelease(t)
      <4>1. View(m)' = [View(m) EXCEPT ![t] = "waiting"]
        BY <2>4, <3>4 DEF WaitRelease, View
      <4> QED
        BY <3>2, <4>1 DEF App!Next, App!CondWait, App!Move
    <3> QED
      BY <2>4, <3>3, <3>4
  <2> QED
    BY <1>5, <2>1, <2>2, <2>3, <2>4 DEF LockStep
<1> QED
  BY <1>2, <1>3, <1>4, <1>5 DEF Next

\* Every mutex that is not raced for is, through the table, a Pthread mutex:
\* its calls, each with a lookup of its own, meet on one lock.
THEOREM ImplementsMutexesHolds == Spec => ImplementsMutexes
<1>1. Init => \A m \in Mutexes \ Racy : App(m)!Init
  BY TableAssumption, NullAssumption DEF Init, View, App!Init, Ops
<1>2. TypeInv /\ TableInv /\ StableInv /\ [Next]_vars =>
        [\A m \in Mutexes \ Racy : App(m)!Next \/ UNCHANGED View(m)]_vars
  BY ViewStep DEF Ordered
<1> QED
  BY <1>1, <1>2, TableInit, TypeStep, TableStep, StableInit, StableStep, PTL
  DEF Spec, ImplementsMutexes

=============================================================================
