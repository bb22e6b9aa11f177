----------------------------- MODULE BenchProofs -----------------------------
(***************************************************************************)
(* Theorems about the micro-benchmark, for any number of threads, shares   *)
(* of the shared areas and number of requests.                             *)
(***************************************************************************)
EXTENDS Bench, FiniteSetTheorems, TLAPS

-----------------------------------------------------------------------------
(* Numbers of threads.                                                     *)

\* Every number of threads asked for is at most the largest.
LEMMA MostThreads ==
  /\ Max(NbThreads) \in Nat
  /\ \A n \in NbThreads : 0 .. n - 1 \subseteq Workers
<1> DEFINE Largest(x) == x \in NbThreads /\ \A y \in NbThreads : x >= y
<1>1. \E x : Largest(x)
  BY BenchAssumption
<1>2. Max(NbThreads) = CHOOSE x : Largest(x)
  BY DEF Max
<1>3. Largest(CHOOSE x : Largest(x))
  <2> HIDE DEF Largest
  <2> QED
    BY <1>1, Zenon
<1>4. Max(NbThreads) \in NbThreads /\ \A y \in NbThreads : Max(NbThreads) >= y
  BY <1>2, <1>3
<1>5. Max(NbThreads) \in Nat /\ \A n \in NbThreads : n \in Nat
  BY <1>4, BenchAssumption
<1> QED
  BY <1>4, <1>5 DEF Workers

\* So many of the first n threads have come that it can only be all of them.
LEMMA SomeOrAll ==
  ASSUME NEW n \in Nat, NEW C \in SUBSET (0 .. n - 1)
  PROVE  /\ IsFiniteSet(C) /\ Cardinality(C) \in 0 .. n
         /\ Cardinality(C) = n => C = 0 .. n - 1
<1>1. IsFiniteSet(0 .. n - 1) /\ Cardinality(0 .. n - 1) = n
  BY FS_Interval
<1>2. /\ IsFiniteSet(C) /\ Cardinality(C) <= n
      /\ Cardinality(C) = n => C = 0 .. n - 1
  BY <1>1, FS_Subset
<1> QED
  BY <1>2, FS_CardinalityType

-----------------------------------------------------------------------------
(* Types, and where everybody is.                                          *)

Places == {"none", "start", "register", "barrier", "loop", "lock", "count", "first",
           "second", "unlock", "record", "over"}

Reporting == {"sum", "copy", "print", "records", "over"}

\* What the main thread's place says of its counter and of the flag.
MainOK ==
  /\ main \in {"print", "records"} => i < nb_thread
  /\ global_stop <=> main \in Reporting

\* A worker waits for the mutex at "lock", and holds it until it unlocks.
LockOK ==
  \A w \in Workers :
    st[w] = CASE pc[w] = "lock" -> "waiting"
              [] pc[w] \in {"count", "first", "second", "unlock"} -> "holding"
              [] OTHER -> "out"

TypeInv == TypeOK /\ MainOK /\ LockOK

\* All of it but the count of the barrier, see BarrierStep.
LEMMA TypeStep ==
  ASSUME TypeInv, [Next]_vars, (arrived \in 0 .. nb_thread + 1)'
  PROVE  TypeInv'
<1> USE DEF TypeInv, TypeOK, MainOK, LockOK, Reporting, Lock!TypeOK
<1>0. nb_thread \in Nat /\ \A w \in 0 .. nb_thread - 1 : w \in Workers
  BY MostThreads, BenchAssumption
<1>1. CASE UNCHANGED vars
  BY <1>1 DEF vars, options, workerVars, mainVars
<1>2. ASSUME UNCHANGED options, MainStep PROVE TypeInv'
  <2> USE <1>0, <1>2 DEF options, workerVars, At
  <2>1. CASE Create
    BY <2>1 DEF Create, Step
  <2>2. CASE MainArrive
    BY <2>2 DEF MainArrive
  <2>3. CASE MainGo
    BY <2>3 DEF MainGo
  <2>4. CASE Stop
    BY <2>4 DEF Stop
  <2>5. CASE Sum
    BY <2>5 DEF Sum
  <2>6. CASE Copy
    BY <2>6 DEF Copy
  <2>7. CASE PrintCount
    BY <2>7 DEF PrintCount
  <2>8. CASE PrintRecords
    BY <2>8 DEF PrintRecords
  <2>9. CASE Return
    BY <2>9 DEF Return
  <2> QED
    BY <2>1, <2>2, <2>3, <2>4, <2>5, <2>6, <2>7, <2>8, <2>9 DEF MainStep
<1>3. ASSUME NEW w \in Workers, UNCHANGED options, WorkerStep(w) PROVE TypeInv'
  <2> USE <1>3 DEF options, workerVars, mainVars, Step
  <2>1. CASE Register(w)
    BY <2>1 DEF Register
  <2>2. CASE WorkerArrive(w)
    BY <2>2 DEF WorkerArrive
  <2>3. CASE WorkerGo(w)
    BY <2>3 DEF WorkerGo
  <2>4. CASE Leave(w)
    BY <2>4 DEF Leave
  <2>5. CASE Request(w)
    BY <2>5 DEF Request, Lock!Call, Lock!Move
  <2>6. CASE Locked(w)
    BY <2>6 DEF Locked, Lock!Grant, Lock!Move
  <2>7. CASE Count(w)
    BY <2>7 DEF Count
  <2>8. CASE FirstWrite(w)
    BY <2>8 DEF FirstWrite, AreaOf, Areas
  <2>9. CASE SecondWrite(w)
    BY <2>9 DEF SecondWrite, AreaOf, Areas
  <2>10. CASE Unlock(w)
    BY <2>10 DEF Unlock, Lock!Unlock, Lock!Move
  <2>11. CASE Record(w)
    BY <2>11 DEF Record
  <2> QED
    BY <2>1, <2>2, <2>3, <2>4, <2>5, <2>6, <2>7, <2>8, <2>9, <2>10, <2>11
    DEF WorkerStep
<1> QED
  BY <1>1, <1>2, <1>3 DEF Next, MainStep, WorkerStep

-----------------------------------------------------------------------------
(* The barrier.  It opens for the count of those that came to it, which is *)
(* that of all threads only if each of them came.                          *)

Came == {w \in Workers : pc[w] \notin {"none", "start", "register"}}

Created == 0 .. nb_thread - 1

BarrierInv ==
  /\ \A w \in Workers : pc[w] # "none" => w \in Created
  /\ \A w \in Workers : pc[w] \notin {"none", "start"} => w \in registered
  /\ arrived = Cardinality(Came) + (IF main = "create" THEN 0 ELSE 1)
  /\ \/ main \notin {"create", "barrier"}
     \/ \E w \in Workers : pc[w] \notin {"none", "start", "register", "barrier"}
     => BarrierOpen

\* Who came was created; so the count is one of the barrier's.
LEMMA CameCounted ==
  ASSUME TypeInv, BarrierInv
  PROVE  /\ nb_thread \in Nat /\ Came \in SUBSET Created /\ IsFiniteSet(Came)
         /\ Cardinality(Came) \in 0 .. nb_thread
         /\ BarrierOpen => main # "create" /\ Came = Created
<1>1. nb_thread \in Nat
  BY BenchAssumption DEF TypeInv, TypeOK
<1>2. Came \in SUBSET Created
  BY DEF BarrierInv, Came
<1>3. /\ IsFiniteSet(Came) /\ Cardinality(Came) \in 0 .. nb_thread
      /\ Cardinality(Came) = nb_thread => Came = Created
  BY <1>1, <1>2, SomeOrAll DEF Created
<1>4. arrived = Cardinality(Came) + (IF main = "create" THEN 0 ELSE 1)
  BY DEF BarrierInv
<1> QED
  BY <1>1, <1>2, <1>3, <1>4 DEF BarrierOpen

\* A worker that comes to the barrier is one more that came, and it came to a
\* barrier still closed.
LEMMA ArriveStep ==
  ASSUME TypeInv, BarrierInv, NEW w \in Workers, WorkerArrive(w), UNCHANGED options
  PROVE  BarrierInv' /\ arrived' \in 0 .. nb_thread + 1
<1> DEFINE came == Came
<1>1. /\ pc[w] = "register" /\ pc' = [pc EXCEPT ![w] = "barrier"]
      /\ pc \in [Workers -> Places]
      /\ UNCHANGED <<nb_thread, registered, main>> /\ arrived' = arrived + 1
  BY DEF WorkerArrive, Step, TypeInv, TypeOK, Places, options, workerVars, mainVars
<1>2. w \in Created /\ w \in registered /\ w \notin Came /\ Came' = Came \cup {w}
  BY <1>1 DEF BarrierInv, Came
<1>3. Cardinality(Came') = Cardinality(Came) + 1
  <2> HIDE DEF came
  <2>1. IsFiniteSet(came) /\ w \notin came
    BY <1>2, CameCounted DEF came
  <2>2. Cardinality(came \cup {w}) = Cardinality(came) + 1
    BY <2>1, FS_AddElement
  <2> QED
    BY <1>2, <2>2 DEF came
<1>4. Came' \in SUBSET (0 .. nb_thread - 1) /\ nb_thread \in Nat
  BY <1>2, CameCounted DEF Created
<1>5. Cardinality(Came') \in 0 .. nb_thread
  BY <1>4, SomeOrAll
<1>6. ~BarrierOpen
  BY <1>2, CameCounted
<1>7. arrived' = Cardinality(Came') + (IF main' = "create" THEN 0 ELSE 1)
  BY <1>1, <1>3, <1>4, CameCounted DEF BarrierInv
<1>8. /\ \A v \in Workers : pc'[v] # "none" => v \in Created'
      /\ \A v \in Workers : pc'[v] \notin {"none", "start"} => v \in registered'
  BY <1>1, <1>2 DEF BarrierInv, Created
<1>9. ~ (\/ main' \notin {"create", "barrier"}
         \/ \E v \in Workers : pc'[v] \notin {"none", "start", "register", "barrier"})
  BY <1>1, <1>6 DEF BarrierInv
<1> QED
  BY <1>1, <1>4, <1>5, <1>7, <1>8, <1>9 DEF BarrierInv

\* Nothing else a worker does changes who came.
LEMMA WorkerKeepsBarrier ==
  ASSUME TypeInv, BarrierInv, NEW w \in Workers, WorkerStep(w), ~WorkerArrive(w)
  PROVE  BarrierInv' /\ arrived' \in 0 .. nb_thread + 1
<1>1. /\ pc \in [Workers -> Places] /\ arrived \in 0 .. nb_thread + 1
      /\ UNCHANGED <<nb_thread, main, arrived>>
      /\ \/ pc[w] = "start" /\ pc' = [pc EXCEPT ![w] = "register"]
               /\ registered' = registered \cup {w}
         \/ /\ BarrierOpen \/ pc[w] \notin {"none", "start", "register", "barrier"}
            /\ pc[w] \notin {"none", "start", "register"}
            /\ UNCHANGED registered
            /\ \E to \in {"loop", "over", "lock", "count", "first", "second", "unlock",
                           "record"} :
                 pc' = [pc EXCEPT ![w] = to]
  BY DEF WorkerStep, TypeInv, TypeOK, Places, options, workerVars, mainVars, Step, Register,
     WorkerGo, Leave, Request, Locked, Count, FirstWrite, SecondWrite, Unlock, Record
<1>2. Came' = Came
  BY <1>1 DEF Came
<1>3. /\ \A v \in Workers : pc'[v] # "none" => v \in Created'
      /\ \A v \in Workers : pc'[v] \notin {"none", "start"} => v \in registered'
  BY <1>1 DEF BarrierInv, Created
<1>4. (\E v \in Workers : pc'[v] \notin {"none", "start", "register", "barrier"})
        => BarrierOpen
  BY <1>1 DEF BarrierInv
<1>5. BarrierOpen <=> BarrierOpen'
  BY <1>1 DEF BarrierOpen
<1>6. arrived' = Cardinality(Came') + (IF main' = "create" THEN 0 ELSE 1)
  BY <1>1, <1>2 DEF BarrierInv
<1> QED
  BY <1>1, <1>3, <1>4, <1>5, <1>6 DEF BarrierInv

LEMMA BarrierStep ==
  ASSUME TypeInv, BarrierInv, [Next]_vars
  PROVE  BarrierInv' /\ (arrived \in 0 .. nb_thread + 1)'
<1>1. /\ pc \in [Workers -> Places] /\ arrived \in 0 .. nb_thread + 1
      /\ i \in 0 .. nb_thread
  BY DEF TypeInv, TypeOK, Places
<1>2. CASE UNCHANGED vars
  BY <1>1, <1>2 DEF vars, options, workerVars, mainVars, BarrierInv, Came, Created,
     BarrierOpen
<1>3. ASSUME UNCHANGED options, MainStep
      PROVE  BarrierInv' /\ (arrived \in 0 .. nb_thread + 1)'
  <2> USE <1>3 DEF options, workerVars, At
  <2>1. CASE Create
    <3>1. /\ i \in Created /\ pc[i] = "none" /\ pc' = [pc EXCEPT ![i] = "start"]
          /\ UNCHANGED <<nb_thread, main, arrived, registered>>
      BY <2>1, <1>1, CameCounted DEF Create, Step, Created
    <3>2. Came' = Came
      BY <1>1, <3>1 DEF Came
    <3> QED
      BY <1>1, <3>1, <3>2 DEF BarrierInv, BarrierOpen, Created
  <2>2. CASE MainArrive
    <3>1. /\ main = "create" /\ main' = "barrier" /\ arrived' = arrived + 1
          /\ UNCHANGED <<nb_thread, pc, registered>>
      BY <2>2 DEF MainArrive
    <3>2. ~BarrierOpen /\ Came' = Came
      BY <3>1, CameCounted DEF Came
    <3>3. Cardinality(Came) \in 0 .. nb_thread /\ nb_thread \in Nat
      BY CameCounted
    <3> QED
      BY <1>1, <3>1, <3>2, <3>3 DEF BarrierInv, Created
  <2>3. CASE ~Create /\ ~MainArrive
    <3>1. /\ main \notin {"create", "over"} /\ main' # "create"
          /\ main = "barrier" => BarrierOpen
          /\ UNCHANGED <<nb_thread, arrived, pc, registered>>
      BY <2>3 DEF MainStep, MainGo, Stop, Sum, Copy, PrintCount, PrintRecords, Return
    <3>2. Came' = Came
      BY <3>1 DEF Came
    <3> QED
      BY <1>1, <3>1, <3>2 DEF BarrierInv, BarrierOpen, Created
  <2> QED
    BY <2>1, <2>2, <2>3
<1>4. ASSUME NEW w \in Workers, WorkerStep(w)
      PROVE  BarrierInv' /\ (arrived \in 0 .. nb_thread + 1)'
  BY <1>4, ArriveStep, WorkerKeepsBarrier DEF WorkerStep, options
<1> QED
  BY <1>2, <1>3, <1>4 DEF Next, MainStep

LEMMA BarrierInit == Init => TypeInv /\ BarrierInv
<1> SUFFICES ASSUME Init PROVE TypeInv /\ BarrierInv
  OBVIOUS
<1>1. nb_thread \in Nat
  BY BenchAssumption DEF Init
<1>2. TypeInv
  <2>1. TypeOK
    <3>1. area \in [Areas -> [two : Nat, seven : Nat]] /\ Lock!TypeOK
      BY DEF Init, Lock!Init, Lock!TypeOK
    <3>2. summed \in [Workers -> Int] /\ printed \in [Workers -> Int]
      BY DEF Init
    <3>3. /\ pc \in [Workers -> Places] /\ unwritten \subseteq Workers \X Nat
          /\ global_cnt \in [Workers -> Nat] /\ record_cnt \in [Workers -> Nat]
      BY DEF Init, Places
    <3>4. /\ nb_thread \in NbThreads /\ short_thread_number \in ShortNumbers
          /\ registered \subseteq Workers /\ arrived \in 0 .. nb_thread + 1
          /\ main = "create" /\ i \in 0 .. nb_thread /\ j \in Nat /\ cur \in Nat
      BY <1>1 DEF Init
    <3>5. global_stop \in BOOLEAN
      BY DEF Init
    <3> QED
      BY <3>1, <3>2, <3>3, <3>4, <3>5 DEF TypeOK, Places
  <2>2. MainOK /\ LockOK
    BY DEF Init, MainOK, LockOK, Reporting, Lock!Init
  <2> QED
    BY <2>1, <2>2 DEF TypeInv
<1>3. Came = {}
  BY DEF Init, Came
<1>4. Cardinality(Came) = 0
  BY <1>3, FS_EmptySet
<1> QED
  BY <1>1, <1>2, <1>4 DEF Init, BarrierInv

LEMMA PlacesStep == TypeInv /\ BarrierInv /\ [Next]_vars => (TypeInv /\ BarrierInv)'
BY TypeStep, BarrierStep

\* Every variable has its type: the barrier counts no more than it waits for.
THEOREM TypeCorrect == Spec => []TypeOK
<1>1. TypeInv => TypeOK
  BY DEF TypeInv
<1> QED
  BY <1>1, BarrierInit, PlacesStep, PTL DEF Spec

\* Nobody is at the mutex, and the main thread follows no record, before every
\* worker has set its own.
THEOREM StartTogetherHolds == Spec => []StartTogether
<1>1. TypeInv /\ BarrierInv => StartTogether
  <2> SUFFICES ASSUME TypeInv, BarrierInv,
                      \/ \E w \in Workers : st[w] # "out"
                      \/ main \notin {"create", "barrier"},
                      NEW v \in Workers, v < nb_thread
               PROVE  v \in registered
    BY DEF StartTogether
  <2>1. BarrierOpen
    BY DEF TypeInv, LockOK, BarrierInv
  <2>2. v \in Created
    BY MostThreads, CameCounted DEF Created, Workers
  <2>3. v \in Came
    BY <2>1, <2>2, CameCounted
  <2> QED
    BY <2>3 DEF Came, BarrierInv
<1> QED
  BY <1>1, BarrierInit, PlacesStep, PTL DEF Spec

-----------------------------------------------------------------------------
(* Somebody is still to come to a barrier that is closed.                  *)

\* The main thread creates the workers in the order of their numbers.
CreatedInv ==
  \A w \in Created : pc[w] = "none" => main = "create" /\ i <= w

LEMMA CreatedStep == TypeInv /\ CreatedInv /\ [Next]_vars => CreatedInv'
<1> SUFFICES ASSUME TypeInv, CreatedInv, [Next]_vars PROVE CreatedInv'
  OBVIOUS
<1>1. /\ pc \in [Workers -> Places] /\ i \in Nat /\ nb_thread \in Nat
      /\ Created \subseteq Workers
  BY MostThreads, BenchAssumption DEF TypeInv, TypeOK, Places, Created
<1>2. \A w \in Created : w \in Nat /\ w < nb_thread
  BY <1>1 DEF Created
<1>3. Created' = Created
  BY DEF Next, MainStep, WorkerStep, vars, options, Created
<1>4. CASE UNCHANGED vars
  BY <1>3, <1>4 DEF vars, mainVars, CreatedInv
<1>5. CASE Create
  <2>1. main = "create" /\ UNCHANGED main /\ i' = i + 1 /\ pc' = [pc EXCEPT ![i] = "start"]
    BY <1>5 DEF Create, At, Step
  <2>2. ASSUME NEW w \in Created, pc'[w] = "none" PROVE i + 1 <= w
    <3>1. pc[w] = "none" /\ w # i
      BY <1>1, <2>1, <2>2
    <3>2. i <= w
      BY <3>1 DEF CreatedInv
    <3> QED
      BY <1>1, <1>2, <3>1, <3>2
  <2> QED
    BY <1>3, <2>1, <2>2 DEF CreatedInv
<1>6. CASE MainArrive
  <2>1. i = nb_thread /\ UNCHANGED pc
    BY <1>6 DEF MainArrive
  <2>2. \A w \in Created : pc[w] # "none"
    BY <1>1, <1>2, <2>1 DEF CreatedInv
  <2> QED
    BY <1>3, <2>1, <2>2 DEF CreatedInv
<1>7. CASE MainStep /\ ~Create /\ ~MainArrive
  <2>1. main # "create" /\ UNCHANGED pc
    BY <1>7 DEF MainStep, MainGo, Stop, Sum, Copy, PrintCount, PrintRecords, Return, At
  <2> QED
    BY <1>3, <2>1 DEF CreatedInv
<1>8. ASSUME NEW w \in Workers, WorkerStep(w) PROVE CreatedInv'
  <2>1. UNCHANGED <<main, i>> /\ \E to \in Places \ {"none"} : pc' = [pc EXCEPT ![w] = to]
    BY <1>8 DEF WorkerStep, mainVars, Step, Places, Register, WorkerArrive, WorkerGo,
       Leave, Request, Locked, Count, FirstWrite, SecondWrite, Unlock, Record
  <2> QED
    BY <1>1, <1>3, <2>1 DEF CreatedInv
<1> QED
  BY <1>4, <1>5, <1>6, <1>7, <1>8 DEF Next

\* While the barrier (bench_block.c:161, 264, 269) is closed, the main thread
\* creates workers or a worker it has created is on its way there.
BarrierAwaitsSomebody ==
  ~BarrierOpen => main = "create" \/ \E w \in Created : pc[w] \in {"start", "register"}

\* So nobody waits at the barrier for a thread that does not come.
THEOREM BarrierAwaitsSomebodyHolds == Spec => []BarrierAwaitsSomebody
<1>1. Init => CreatedInv
  <2> SUFFICES ASSUME Init PROVE CreatedInv
    OBVIOUS
  <2>1. \A w \in Created : 0 <= w
    BY BenchAssumption DEF Init, Created
  <2> QED
    BY <2>1 DEF Init, CreatedInv
<1>2. TypeInv /\ BarrierInv /\ CreatedInv => BarrierAwaitsSomebody
  <2> SUFFICES ASSUME TypeInv, BarrierInv, CreatedInv, ~BarrierOpen, main # "create"
               PROVE  \E w \in Created : pc[w] \in {"start", "register"}
    BY DEF BarrierAwaitsSomebody
  <2>1. Came # Created
    <3>1. arrived = Cardinality(Came) + 1
      BY DEF BarrierInv
    <3>2. nb_thread \in Nat /\ Cardinality(Created) = nb_thread
      <4>1. nb_thread \in Nat
        BY CameCounted
      <4> QED
        BY <4>1, FS_Interval DEF Created
    <3> QED
      BY <3>1, <3>2 DEF BarrierOpen
  <2>2. PICK w \in Created : w \notin Came
    BY <2>1, CameCounted
  <2>3. w \in Workers
    BY MostThreads, BenchAssumption DEF Created, TypeInv, TypeOK
  <2>4. pc[w] \in {"none", "start", "register"} /\ pc[w] # "none"
    BY <2>2, <2>3 DEF Came, CreatedInv
  <2> QED
    BY <2>4
<1> QED
  BY <1>1, <1>2, BarrierInit, PlacesStep, CreatedStep, PTL DEF Spec

-----------------------------------------------------------------------------
(* The report.                                                             *)

\* A worker counts before it records.
CountsInv ==
  \A w \in Workers :
    global_cnt[w] =
      record_cnt[w] + (IF pc[w] \in {"first", "second", "unlock", "record"} THEN 1 ELSE 0)

\* What the main thread has read of a worker is at most what the worker has
\* counted since; after the flag is set that is one more than at the first
\* reading, and only of a worker that is past counting.
ReadsInv ==
  /\ \A w \in Workers :
       /\ summed[w] # -1 <=>
            \/ main = "sum" /\ w < i
            \/ main \in Reporting \ {"sum"} /\ w < nb_thread
       /\ summed[w] # -1 =>
            \/ global_cnt[w] = summed[w]
            \/ global_cnt[w] = summed[w] + 1 /\ pc[w] \notin {"lock", "count"}
       /\ printed[w] # -1 =>
            summed[w] # -1 /\ summed[w] <= printed[w] /\ printed[w] <= global_cnt[w]
       /\ main = "print" /\ i = w => summed[w] <= cur /\ cur <= global_cnt[w]
       /\ main = "records" /\ i = w => summed[w] <= cur /\ cur <= printed[w]
  /\ main = "records" => printed[i] # -1

\* Missing latencies are those of workers reported already, or being reported.
UnwrittenInv ==
  /\ \A p \in unwritten : p[1] < i \/ (main = "records" /\ p[1] = i)
  /\ unwritten # {} => main \in {"copy", "print", "records", "over"}

ReportInv == CountsInv /\ ReadsInv /\ UnwrittenInv /\ OnlyLastUnwritten

\* Workers count and record, but none counts that comes to the loop with the
\* flag set; what was read stays as it was.
LEMMA WorkerKeepsReport ==
  ASSUME TypeInv, ReportInv, NEW w \in Workers, WorkerStep(w)
  PROVE  ReportInv'
<1>1. /\ pc \in [Workers -> Places]
      /\ global_cnt \in [Workers -> Nat] /\ record_cnt \in [Workers -> Nat]
      /\ summed \in [Workers -> Int] /\ printed \in [Workers -> Int]
      /\ unwritten \subseteq Workers \X Nat
      /\ i \in Nat /\ nb_thread \in Nat /\ cur \in Nat
  BY BenchAssumption DEF TypeInv, TypeOK, Places
<1>2. /\ CountsInv /\ ReadsInv /\ UnwrittenInv /\ OnlyLastUnwritten
      /\ \A v \in Workers : summed[v] # -1 => global_stop
  BY DEF ReportInv, ReadsInv, TypeInv, MainOK, Reporting
<1>3. UNCHANGED <<nb_thread, main, i, cur, summed, printed, unwritten>>
  BY DEF WorkerStep, options, mainVars, Register, WorkerArrive, WorkerGo, Leave,
     Request, Locked, Count, FirstWrite, SecondWrite, Unlock, Record
<1> DEFINE counted == {"first", "second", "unlock", "record"}
<1>4. \/ /\ UNCHANGED <<global_cnt, record_cnt>>
         /\ \E to \in Places : pc' = [pc EXCEPT ![w] = to]
                              /\ (to \in counted <=> pc[w] \in counted)
                              /\ (to = "lock" => ~global_stop)
                              /\ (to = "count" => pc[w] = "lock")
      \/ Count(w)
      \/ Record(w)
  BY <1>1 DEF WorkerStep, workerVars, Step, Places, Register, WorkerArrive, WorkerGo,
     Leave, StopSeen, Request, Locked, FirstWrite, SecondWrite, Unlock
<1>5. CASE Count(w)
  <2>1. /\ pc[w] = "count" /\ pc' = [pc EXCEPT ![w] = "first"]
        /\ global_cnt' = [global_cnt EXCEPT ![w] = @ + 1] /\ UNCHANGED record_cnt
    BY <1>5 DEF Count, Step
  <2>2. CountsInv'
    BY <1>1, <1>2, <2>1 DEF CountsInv
  <2>3. ReadsInv'
    BY <1>1, <1>2, <1>3, <2>1 DEF ReadsInv, Reporting
  <2> QED
    BY <1>2, <1>3, <2>1, <2>2, <2>3 DEF ReportInv, UnwrittenInv, OnlyLastUnwritten
<1>6. CASE Record(w)
  <2>1. /\ pc[w] = "record" /\ pc' = [pc EXCEPT ![w] = "loop"]
        /\ record_cnt' = [record_cnt EXCEPT ![w] = @ + 1] /\ UNCHANGED global_cnt
    BY <1>6 DEF Record, Step
  <2>2. CountsInv'
    BY <1>1, <1>2, <2>1 DEF CountsInv
  <2>3. ReadsInv'
    BY <1>1, <1>2, <1>3, <2>1 DEF ReadsInv, Reporting
  <2>4. OnlyLastUnwritten'
    BY <1>1, <1>2, <1>3, <2>1 DEF OnlyLastUnwritten
  <2> QED
    BY <1>2, <1>3, <2>2, <2>3, <2>4 DEF ReportInv, UnwrittenInv
<1>7. ASSUME UNCHANGED <<global_cnt, record_cnt>>, NEW to \in Places,
             pc' = [pc EXCEPT ![w] = to], to \in counted <=> pc[w] \in counted,
             to = "lock" => ~global_stop, to = "count" => pc[w] = "lock"
      PROVE  ReportInv'
  <2>1. CountsInv'
    BY <1>1, <1>2, <1>7 DEF CountsInv
  <2>2. ReadsInv'
    BY <1>1, <1>2, <1>3, <1>7 DEF ReadsInv, Reporting
  <2> QED
    BY <1>2, <1>3, <1>7, <2>1, <2>2 DEF ReportInv, UnwrittenInv, OnlyLastUnwritten
<1> QED
  BY <1>4, <1>5, <1>6, <1>7

\* The main thread reads each count three times, in this order; it misses a
\* latency only of a worker that is between counting and recording.
LEMMA MainKeepsReport ==
  ASSUME TypeInv, ReportInv, MainStep
  PROVE  ReportInv'
<1>1. /\ global_cnt \in [Workers -> Nat] /\ record_cnt \in [Workers -> Nat]
      /\ summed \in [Workers -> Int] /\ printed \in [Workers -> Int]
      /\ unwritten \subseteq Workers \X Nat
      /\ i \in Nat /\ i <= nb_thread /\ nb_thread \in Nat /\ cur \in Nat /\ j \in Nat
      /\ main \in {"print", "records"} => i < nb_thread
      /\ i < nb_thread => i \in Workers
      /\ \A w \in Workers : w \in Nat
  BY BenchAssumption, MostThreads DEF TypeInv, TypeOK, MainOK, Workers
<1>2. CountsInv /\ ReadsInv /\ UnwrittenInv /\ OnlyLastUnwritten
  BY DEF ReportInv
<1> DEFINE counted == {"first", "second", "unlock", "record"}
<1>3. /\ UNCHANGED <<nb_thread, global_cnt, record_cnt>>
      /\ \A w \in Workers : /\ pc'[w] \in counted <=> pc[w] \in counted
                            /\ pc'[w] \in {"lock", "count"} <=> pc[w] \in {"lock", "count"}
  <2>1. CASE Create
    <3>1. pc[i] = "none" /\ pc' = [pc EXCEPT ![i] = "start"] /\ pc \in [Workers -> Places]
      BY <2>1 DEF Create, Step, TypeInv, TypeOK, Places
    <3>2. UNCHANGED <<nb_thread, global_cnt, record_cnt>>
      BY <2>1 DEF Create, workerVars, MainStep, options
    <3> QED
      BY <3>1, <3>2
  <2>2. CASE ~Create
    BY <2>2 DEF MainStep, options, workerVars, MainArrive, MainGo, Stop, Sum, Copy,
       PrintCount, PrintRecords, Return
  <2> QED
    BY <2>1, <2>2
<1>4. CountsInv'
  BY <1>1, <1>2, <1>3 DEF CountsInv
<1>5. CASE Create \/ MainArrive \/ MainGo \/ Stop
  <2>1. /\ main \notin Reporting /\ main' \notin Reporting \ {"sum"}
        /\ main' = "sum" => i' = 0
        /\ UNCHANGED <<summed, printed, unwritten>>
    BY <1>5 DEF Create, MainArrive, MainGo, Stop, At, Reporting
  <2>2. ReadsInv'
    BY <1>1, <1>2, <1>3, <2>1 DEF ReadsInv, Reporting
  <2>3. UnwrittenInv' /\ OnlyLastUnwritten'
    BY <1>2, <1>3, <2>1 DEF UnwrittenInv, OnlyLastUnwritten, Reporting
  <2> QED
    BY <1>4, <2>2, <2>3 DEF ReportInv
<1>6. CASE Sum
  <2>1. /\ main = "sum" /\ unwritten = {} /\ UNCHANGED <<printed, unwritten>>
        /\ \/ /\ i < nb_thread /\ summed' = [summed EXCEPT ![i] = global_cnt[i]]
              /\ i' = i + 1 /\ main' = main
           \/ i = nb_thread /\ main' = "copy" /\ i' = 0 /\ UNCHANGED summed
    BY <1>2, <1>6 DEF Sum, At, UnwrittenInv
  <2>2. ReadsInv'
    BY <1>1, <1>2, <1>3, <2>1 DEF ReadsInv, Reporting
  <2>3. UnwrittenInv' /\ OnlyLastUnwritten'
    BY <2>1 DEF UnwrittenInv, OnlyLastUnwritten
  <2> QED
    BY <1>4, <2>2, <2>3 DEF ReportInv
<1>7. CASE Copy
  <2>1. /\ main = "copy" /\ main' = "print" /\ i < nb_thread /\ cur' = global_cnt[i]
        /\ UNCHANGED <<i, summed, printed, unwritten>>
    BY <1>7 DEF Copy, At
  <2>2. ReadsInv'
    BY <1>1, <1>2, <1>3, <2>1 DEF ReadsInv, Reporting
  <2>3. UnwrittenInv' /\ OnlyLastUnwritten'
    BY <1>2, <1>3, <2>1 DEF UnwrittenInv, OnlyLastUnwritten
  <2> QED
    BY <1>4, <2>2, <2>3 DEF ReportInv
<1>8. CASE PrintCount
  <2>1. /\ main = "print" /\ main' = "records"
        /\ printed' = [printed EXCEPT ![i] = global_cnt[i]]
        /\ UNCHANGED <<i, cur, summed, unwritten>>
    BY <1>8 DEF PrintCount, At
  <2>2. ReadsInv'
    BY <1>1, <1>2, <1>3, <2>1 DEF ReadsInv, Reporting
  <2>3. \A p \in unwritten : p[1] < i /\ printed'[p[1]] = printed[p[1]]
    BY <1>1, <1>2, <2>1 DEF UnwrittenInv
  <2>4. UnwrittenInv' /\ OnlyLastUnwritten'
    BY <1>2, <1>3, <2>1, <2>3 DEF UnwrittenInv, OnlyLastUnwritten
  <2> QED
    BY <1>4, <2>2, <2>4 DEF ReportInv
<1>9. CASE PrintRecords
  <2>1. main = "records" /\ UNCHANGED <<cur, summed, printed>>
    BY <1>9 DEF PrintRecords, At
  <2>2. CASE /\ j < cur /\ UNCHANGED <<main, i>>
             /\ unwritten' = IF j < record_cnt[i] THEN unwritten
                                                 ELSE unwritten \cup {<<i, j>>}
    <3>1. ReadsInv'
      BY <1>1, <1>2, <1>3, <2>1, <2>2 DEF ReadsInv, Reporting
    <3>2. j < record_cnt[i] \/ (printed[i] = j + 1 /\ record_cnt[i] >= j)
      <4>1. i \in Workers /\ cur <= printed[i] /\ printed[i] <= global_cnt[i]
        BY <1>1, <1>2, <2>1 DEF ReadsInv
      <4>2. global_cnt[i] <= record_cnt[i] + 1
        BY <1>1, <1>2, <4>1 DEF CountsInv
      <4>3. printed[i] \in Int /\ global_cnt[i] \in Nat /\ record_cnt[i] \in Nat
        BY <1>1, <4>1
      <4> QED
        BY <1>1, <2>2, <4>1, <4>2, <4>3
    <3>3. UnwrittenInv' /\ OnlyLastUnwritten'
      BY <1>1, <1>2, <1>3, <2>1, <2>2, <3>2 DEF UnwrittenInv, OnlyLastUnwritten
    <3> QED
      BY <1>4, <3>1, <3>3 DEF ReportInv
  <2>3. CASE j = cur /\ main' = "copy" /\ i' = i + 1 /\ UNCHANGED unwritten
    <3>1. ReadsInv'
      BY <1>1, <1>2, <1>3, <2>1, <2>3 DEF ReadsInv, Reporting
    <3>2. UnwrittenInv' /\ OnlyLastUnwritten'
      BY <1>1, <1>2, <1>3, <2>1, <2>3 DEF UnwrittenInv, OnlyLastUnwritten
    <3> QED
      BY <1>4, <3>1, <3>2 DEF ReportInv
  <2> QED
    BY <1>9, <2>2, <2>3 DEF PrintRecords
<1>10. CASE Return
  <2>1. /\ main = "copy" /\ main' = "over" /\ UNCHANGED <<i, summed, printed, unwritten>>
    BY <1>10 DEF Return, At
  <2>2. ReadsInv'
    BY <1>1, <1>2, <1>3, <2>1 DEF ReadsInv, Reporting
  <2>3. UnwrittenInv' /\ OnlyLastUnwritten'
    BY <1>2, <1>3, <2>1 DEF UnwrittenInv, OnlyLastUnwritten
  <2> QED
    BY <1>4, <2>2, <2>3 DEF ReportInv
<1> QED
  BY <1>5, <1>6, <1>7, <1>8, <1>9, <1>10 DEF MainStep

LEMMA ReportInit == Init => ReportInv
BY DEF Init, ReportInv, CountsInv, ReadsInv, UnwrittenInv, OnlyLastUnwritten, Reporting

LEMMA ReportStep == TypeInv /\ ReportInv /\ [Next]_vars => ReportInv'
<1> SUFFICES ASSUME TypeInv, ReportInv, [Next]_vars PROVE ReportInv'
  OBVIOUS
<1>1. CASE UNCHANGED vars
  BY <1>1 DEF vars, options, workerVars, mainVars, ReportInv, CountsInv, ReadsInv,
     UnwrittenInv, OnlyLastUnwritten
<1> QED
  BY <1>1, WorkerKeepsReport, MainKeepsReport DEF Next

\* The three readings of a count differ by one at most, and from the count.
THEOREM ReportsAgreeHolds == Spec => []ReportsAgree
<1>1. TypeInv /\ ReportInv => ReportsAgree
  BY BenchAssumption DEF TypeInv, TypeOK, ReportInv, ReadsInv, ReportsAgree, At
<1> QED
  BY <1>1, BarrierInit, PlacesStep, ReportInit, ReportStep, PTL DEF Spec

\* A latency printed before it was recorded is the last one of its worker.
THEOREM OnlyLastUnwrittenHolds == Spec => []OnlyLastUnwritten
<1>1. ReportInv => OnlyLastUnwritten
  BY DEF ReportInv
<1> QED
  BY <1>1, BarrierInit, PlacesStep, ReportInit, ReportStep, PTL DEF Spec

-----------------------------------------------------------------------------
(* The shared areas.                                                       *)

\* One worker holds the mutex at a time.  While it accesses the line of its
\* area, the line is behind by the request it has counted already.
Accessing(a) == \E w \in Workers : pc[w] \in {"first", "second"} /\ AreaOf(w) = a

AloneInv == \A v, w \in Workers : st[v] = "holding" /\ st[w] = "holding" => v = w

LineInv(a) ==
  /\ IsFiniteSet(Requests(a))
  /\ 2 * Cardinality(Requests(a)) = area[a].seven + (IF Accessing(a) THEN 2 ELSE 0)

SharedInv ==
  /\ AloneInv
  /\ \A a \in Areas : LineInv(a)
  /\ \A w \in Workers :
       pc[w] = "second" => area[AreaOf(w)].two = area[AreaOf(w)].seven + 1

\* A request is one that a worker of the area has counted, before a step and
\* after it.
LEMMA RequestsAre ==
  ASSUME NEW a, NEW p
  PROVE  /\ p \in Requests(a) <=>
              /\ p \in Workers \X Int
              /\ AreaOf(p[1]) = a /\ p[2] \in 1 .. global_cnt[p[1]]
         /\ p \in Requests(a)' <=>
              /\ p \in Workers \X Int
              /\ AreaOf(p[1])' = a /\ p[2] \in 1 .. global_cnt'[p[1]]
<1>1. p \in Requests(a) <=>
        \E w \in Workers : AreaOf(w) = a /\ p \in {w} \X (1 .. global_cnt[w])
  BY DEF Requests
<1>2. p \in Requests(a)' <=>
        \E w \in Workers : AreaOf(w)' = a /\ p \in {w} \X (1 .. global_cnt'[w])
  BY DEF Requests
<1> QED
  BY <1>1, <1>2

\* Counting adds one request to those of the worker's area.
LEMMA CountAdds ==
  ASSUME TypeInv, NEW w \in Workers, Count(w), UNCHANGED options,
         NEW a \in Areas, IsFiniteSet(Requests(a))
  PROVE  /\ IsFiniteSet(Requests(a)')
         /\ Cardinality(Requests(a)') =
              Cardinality(Requests(a)) + (IF AreaOf(w) = a THEN 1 ELSE 0)
<1> DEFINE old == Requests(a)
           new == <<w, global_cnt[w] + 1>>
<1>1. /\ global_cnt \in [Workers -> Nat] /\ short_thread_number' = short_thread_number
      /\ global_cnt' = [global_cnt EXCEPT ![w] = @ + 1]
  BY DEF Count, TypeInv, TypeOK, options
<1>2. /\ \A p : p \in old <=> p \in Workers \X Int /\ AreaOf(p[1]) = a
                                /\ p[2] \in 1 .. global_cnt[p[1]]
      /\ \A p : p \in Requests(a)' <=> p \in Workers \X Int /\ AreaOf(p[1])' = a
                                        /\ p[2] \in 1 .. global_cnt'[p[1]]
  BY RequestsAre
<1>3. \A v : AreaOf(v)' = AreaOf(v)
  BY <1>1 DEF AreaOf
<1>4. global_cnt[w] \in Nat
  BY <1>1
<1>5. CASE AreaOf(w) = a
  <2>1. new \notin old
    BY <1>2, <1>4
  <2>2. \A p \in Workers \X Int :
          p[2] \in 1 .. global_cnt'[p[1]] <=> p[2] \in 1 .. global_cnt[p[1]] \/ p = new
    <3> SUFFICES ASSUME NEW v \in Workers, NEW n \in Int
                 PROVE  n \in 1 .. global_cnt'[v] <=>
                          n \in 1 .. global_cnt[v] \/ <<v, n>> = new
      OBVIOUS
    <3>1. CASE v = w
      <4>1. global_cnt'[v] = global_cnt[w] + 1
        BY <1>1, <3>1
      <4> QED
        BY <1>4, <3>1, <4>1
    <3>2. CASE v # w
      BY <1>1, <3>2
    <3> QED
      BY <3>1, <3>2
  <2>3. new \in Workers \X Int /\ AreaOf(new[1]) = a
    BY <1>4, <1>5
  <2>4. Requests(a)' = old \cup {new}
    <3> HIDE DEF old, new
    <3> QED
      BY <1>2, <1>3, <2>2, <2>3
  <2>5. IsFiniteSet(old)
    OBVIOUS
  <2>6. IsFiniteSet(old \cup {new}) /\ Cardinality(old \cup {new}) = Cardinality(old) + 1
    <3> HIDE DEF old, new
    <3> QED
      BY <2>1, <2>5, FS_AddElement
  <2> QED
    BY <1>5, <2>4, <2>6
<1>6. CASE AreaOf(w) # a
  <2>1. Requests(a)' = old
    <3>1. \A p \in Workers \X Int : AreaOf(p[1]) = a => global_cnt'[p[1]] = global_cnt[p[1]]
      BY <1>1, <1>6
    <3> HIDE DEF old
    <3> QED
      BY <1>2, <1>3, <3>1
  <2>2. Cardinality(old) \in Nat
    BY FS_CardinalityType
  <2> QED
    BY <1>6, <2>1, <2>2
<1> QED
  BY <1>5, <1>6

\* Only a worker granted the mutex comes to hold it, when nobody does.
LEMMA AloneStep ==
  ASSUME TypeInv, AloneInv, [Next]_vars
  PROVE  AloneInv'
<1>1. st \in [Workers -> {"out", "waiting", "holding"}]
  BY DEF TypeInv, TypeOK, Lock!TypeOK
<1>2. ASSUME NEW w \in Workers, Locked(w) PROVE AloneInv'
  <2>1. st' = [st EXCEPT ![w] = "holding"] /\ \A v \in Workers : st[v] # "holding"
    BY <1>2 DEF Locked, Lock!Grant, Lock!Move, Lock!Free
  <2> QED
    BY <1>1, <2>1 DEF AloneInv
<1>3. CASE ~ \E w \in Workers : Locked(w)
  <2>1. \/ UNCHANGED st
        \/ \E w \in Workers, to \in {"out", "waiting"} : st' = [st EXCEPT ![w] = to]
    BY <1>3 DEF Next, MainStep, WorkerStep, vars, options, workerVars, mainVars, Create,
       MainArrive, MainGo, Stop, Sum, Copy, PrintCount, PrintRecords, Return, Register,
       WorkerArrive, WorkerGo, Leave, Request, Count, FirstWrite, SecondWrite, Unlock,
       Record, Lock!Call, Lock!Unlock, Lock!Move
  <2> QED
    BY <1>1, <2>1 DEF AloneInv
<1> QED
  BY <1>2, <1>3

\* Whoever accesses a line holds the mutex, so nobody else does.
LEMMA OneAccesses ==
  ASSUME TypeInv, AloneInv, NEW v \in Workers, NEW w \in Workers,
         pc[v] \in {"count", "first", "second", "unlock"},
         pc[w] \in {"count", "first", "second", "unlock"}
  PROVE  v = w
BY DEF TypeInv, LockOK, AloneInv

\* A step that neither counts nor writes leaves the requests and the lines as
\* they were, and each worker where it is in its access.
LEMMA OthersKeepShared ==
  ASSUME TypeInv, SharedInv, AloneInv', [Next]_vars,
         \A w \in Workers : ~Count(w) /\ ~FirstWrite(w) /\ ~SecondWrite(w)
  PROVE  SharedInv'
<1>1. pc \in [Workers -> Places]
  BY DEF TypeInv, TypeOK, Places
<1>2. /\ UNCHANGED <<global_cnt, area, short_thread_number>>
      /\ \/ UNCHANGED pc
         \/ \E w \in Workers, to \in Places \ {"first", "second"} :
              pc[w] \notin {"first", "second"} /\ pc' = [pc EXCEPT ![w] = to]
  <2>1. CASE UNCHANGED vars
    BY <2>1 DEF vars, options, workerVars, mainVars
  <2>2. CASE MainStep
    <3>1. CASE Create
      <4>1. i \in Workers
        <5>1. i < nb_thread /\ i \in 0 .. nb_thread /\ nb_thread \in NbThreads
          BY <3>1 DEF Create, TypeInv, TypeOK
        <5> QED
          BY <5>1, MostThreads, BenchAssumption
      <4> QED
        BY <2>2, <3>1, <4>1 DEF MainStep, Create, Step, options, workerVars, Places
    <3> QED
      BY <2>2, <3>1 DEF MainStep, MainArrive, MainGo, Stop, Sum, Copy, PrintCount,
         PrintRecords, Return, options, workerVars
  <2>3. ASSUME NEW w \in Workers, WorkerStep(w)
        PROVE  /\ UNCHANGED <<global_cnt, area, short_thread_number>>
               /\ pc[w] \notin {"first", "second"}
               /\ \E to \in Places \ {"first", "second"} : pc' = [pc EXCEPT ![w] = to]
    BY <2>3 DEF WorkerStep, options, workerVars, mainVars, Step, Places, Register,
       WorkerArrive, WorkerGo, Leave, Request, Locked, Unlock, Record
  <2> QED
    BY <2>1, <2>2, <2>3 DEF Next
<1>3. \A w \in Workers : /\ pc'[w] = "first" <=> pc[w] = "first"
                         /\ pc'[w] = "second" <=> pc[w] = "second"
  BY <1>1, <1>2
<1>4. \A a : AreaOf(a)' = AreaOf(a) /\ Requests(a)' = Requests(a)
  BY <1>2 DEF AreaOf, Requests
<1>5. \A a : Accessing(a)' <=> Accessing(a)
  BY <1>3, <1>4 DEF Accessing
<1>6. \A a \in Areas : LineInv(a)'
  BY <1>2, <1>4, <1>5 DEF SharedInv, LineInv
<1>7. \A w \in Workers :
        pc'[w] = "second" => area'[AreaOf(w)'].two = area'[AreaOf(w)'].seven + 1
  BY <1>2, <1>3, <1>4 DEF SharedInv
<1> QED
  BY <1>6, <1>7 DEF SharedInv

\* The worker that counts, and then writes, is the only one to: counting puts
\* the line behind, the second write brings it up again.
LEMMA AccessKeepsShared ==
  ASSUME TypeInv, SharedInv, AloneInv', NEW w \in Workers, UNCHANGED options,
         Count(w) \/ FirstWrite(w) \/ SecondWrite(w)
  PROVE  SharedInv'
<1>1. /\ pc \in [Workers -> Places] /\ area \in [Areas -> [two : Nat, seven : Nat]]
      /\ AreaOf(w) \in Areas /\ \A v : AreaOf(v)' = AreaOf(v)
  BY DEF TypeInv, TypeOK, Places, AreaOf, Areas, options
<1>2. \A v \in Workers :
        v # w => pc[v] \notin {"count", "first", "second", "unlock"}
  <2>1. pc[w] \in {"count", "first", "second", "unlock"}
    BY DEF Count, FirstWrite, SecondWrite, Step
  <2> QED
    BY <2>1, OneAccesses DEF SharedInv
<1>3. \A a \in Areas : area[a].seven \in Nat
  BY <1>1
<1>4. CASE Count(w)
  <2>1. pc[w] = "count" /\ pc' = [pc EXCEPT ![w] = "first"] /\ UNCHANGED area
    BY <1>4 DEF Count, Step
  <2>2. \A a : ~Accessing(a) /\ (Accessing(a)' <=> AreaOf(w) = a)
    BY <1>1, <1>2, <2>1 DEF Accessing
  <2>3. ASSUME NEW a \in Areas PROVE LineInv(a)'
    <3>1. IsFiniteSet(Requests(a)) /\ 2 * Cardinality(Requests(a)) = area[a].seven
      BY <1>3, <2>2 DEF SharedInv, LineInv
    <3>2. /\ IsFiniteSet(Requests(a)')
          /\ Cardinality(Requests(a)') =
               Cardinality(Requests(a)) + (IF AreaOf(w) = a THEN 1 ELSE 0)
      BY <1>4, <3>1, CountAdds
    <3>3. Cardinality(Requests(a)) \in Nat
      BY <3>1, FS_CardinalityType
    <3>4. 2 * Cardinality(Requests(a)') = area[a].seven + (IF AreaOf(w) = a THEN 2 ELSE 0)
      BY <3>1, <3>2, <3>3
    <3> QED
      BY <2>1, <2>2, <3>2, <3>4 DEF LineInv
  <2>4. \A v \in Workers : pc'[v] # "second"
    BY <1>1, <1>2, <2>1
  <2> QED
    BY <2>3, <2>4 DEF SharedInv
<1>5. CASE FirstWrite(w)
  <2>1. /\ pc[w] = "first" /\ pc' = [pc EXCEPT ![w] = "second"] /\ UNCHANGED global_cnt
        /\ area' = [area EXCEPT ![AreaOf(w)].two = area[AreaOf(w)].seven + 1]
    BY <1>5 DEF FirstWrite, Step
  <2>2. \A a : (Accessing(a)' <=> Accessing(a)) /\ Requests(a)' = Requests(a)
    BY <1>1, <1>2, <2>1 DEF Accessing, Requests
  <2>3. /\ \A a \in Areas : area'[a].seven = area[a].seven
        /\ area'[AreaOf(w)].two = area[AreaOf(w)].seven + 1
    BY <1>1, <2>1
  <2>4. \A v \in Workers : pc'[v] = "second" => v = w
    BY <1>1, <1>2, <2>1
  <2> QED
    BY <1>1, <2>2, <2>3, <2>4 DEF SharedInv, LineInv
<1>6. CASE SecondWrite(w)
  <2>1. /\ pc[w] = "second" /\ pc' = [pc EXCEPT ![w] = "unlock"] /\ UNCHANGED global_cnt
        /\ area' = [area EXCEPT ![AreaOf(w)].seven = area[AreaOf(w)].two + 1]
    BY <1>6 DEF SecondWrite, Step
  <2>2. \A a : ~Accessing(a)' /\ (Accessing(a) <=> AreaOf(w) = a) /\ Requests(a)' = Requests(a)
    BY <1>1, <1>2, <2>1 DEF Accessing, Requests
  <2>3. area[AreaOf(w)].two = area[AreaOf(w)].seven + 1
    BY <2>1 DEF SharedInv
  <2>4. \A a \in Areas :
          area'[a].seven = area[a].seven + (IF AreaOf(w) = a THEN 2 ELSE 0)
    BY <1>1, <1>3, <2>1, <2>3
  <2>5. \A a \in Areas : LineInv(a)'
    <3> SUFFICES ASSUME NEW a \in Areas PROVE LineInv(a)'
      OBVIOUS
    <3>1. /\ IsFiniteSet(Requests(a))
          /\ 2 * Cardinality(Requests(a)) = area[a].seven + (IF Accessing(a) THEN 2 ELSE 0)
      BY DEF SharedInv, LineInv
    <3>2. area'[a].seven \in Nat
      BY <1>3, <2>4
    <3> QED
      BY <2>2, <2>4, <3>1, <3>2 DEF LineInv
  <2>6. \A v \in Workers : pc'[v] # "second"
    BY <1>1, <1>2, <2>1
  <2> QED
    BY <2>5, <2>6 DEF SharedInv
<1> QED
  BY <1>4, <1>5, <1>6

LEMMA SharedInit == Init => SharedInv
<1> SUFFICES ASSUME Init PROVE SharedInv
  OBVIOUS
<1>1. \A a : Requests(a) = {} /\ ~Accessing(a)
  BY DEF Init, Requests, Accessing
<1>2. IsFiniteSet({}) /\ Cardinality({}) = 0
  BY FS_EmptySet
<1>3. \A a \in Areas : LineInv(a)
  BY <1>1, <1>2 DEF Init, LineInv
<1> QED
  BY <1>3 DEF Init, SharedInv, AloneInv, Lock!Init

LEMMA SharedStep == TypeInv /\ SharedInv /\ [Next]_vars => SharedInv'
<1> SUFFICES ASSUME TypeInv, SharedInv, [Next]_vars PROVE SharedInv'
  OBVIOUS
<1>1. AloneInv'
  BY AloneStep DEF SharedInv
<1>2. ASSUME NEW w \in Workers, Count(w) \/ FirstWrite(w) \/ SecondWrite(w)
      PROVE  SharedInv'
  <2>1. UNCHANGED options
    BY DEF Next, MainStep, WorkerStep, vars
  <2> QED
    BY <1>1, <1>2, <2>1, AccessKeepsShared
<1> QED
  BY <1>1, <1>2, OthersKeepShared

\* Whenever nobody holds the mutex, the words of a shared line have kept every
\* access of every worker (bench_block.c:62-63).
THEOREM SharedDataKeptHolds == Spec => []SharedDataKept
<1>1. TypeInv /\ SharedInv => SharedDataKept
  <2> SUFFICES ASSUME TypeInv, SharedInv, Lock!Free, NEW a \in Areas
               PROVE  area[a].seven = 2 * Cardinality(Requests(a))
    BY DEF SharedDataKept
  <2>1. ~Accessing(a)
    BY DEF TypeInv, LockOK, Lock!Free, Accessing
  <2>2. area[a].seven \in Nat
    BY DEF TypeInv, TypeOK
  <2> QED
    BY <2>1, <2>2 DEF SharedInv, LineInv
<1> QED
  BY <1>1, BarrierInit, PlacesStep, SharedInit, SharedStep, PTL DEF Spec

=============================================================================
