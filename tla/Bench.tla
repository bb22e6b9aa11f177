-------------------------------- MODULE Bench --------------------------------
(***************************************************************************)
(* The micro-benchmark, src/litl/bench/bench_block.c: worker threads       *)
(* take turns on one mutex until the main thread sets a flag; the main     *)
(* thread then reports their counts and latencies and ends the process     *)
(* without waiting for them.                                               *)
(*                                                                         *)
(* The mutex is what PthreadMutex promises, which HtllMutex implements.    *)
(* pthread_mutex_destroy, called while workers still use the mutex (277),  *)
(* does nothing in the library.  Segments only choose how long a waiter    *)
(* sleeps.  A shared memory area has one line of two words; latencies are  *)
(* counted, not valued.                                                    *)
(***************************************************************************)
EXTENDS Integers, FiniteSets, FiniteSetsExt

CONSTANTS
  NbThreads,       \* what the option -t may ask for
  ShortNumbers,    \* what the option -S may ask for
  MaxRequests      \* bound: requests of a worker

ASSUME BenchAssumption ==
  /\ NbThreads \subseteq Nat
  /\ \E most \in NbThreads : \A n \in NbThreads : most >= n
  /\ ShortNumbers \subseteq Nat /\ MaxRequests \in Nat

Workers == 0 .. Max(NbThreads) - 1
Areas   == {"short", "long"}

VARIABLES
  nb_thread,
  short_thread_number,   \* the threads below it use the short area
  st,              \* of each worker on global_lock, see PthreadMutex
  pc,              \* of each worker
  registered,      \* the workers whose record_all is set
  arrived,         \* how many threads have come to sig_start
  global_stop,
  global_cnt,
  record_cnt,      \* how many latencies a worker has recorded
  area,            \* words 2 and 7 of a line, from what malloc returned
  main,            \* where the main thread is
  i, j,            \* its loop counters
  cur,             \* its copy of a count
  summed,          \* history: the count it added for each worker
  printed,         \* history: the count it printed for each worker
  unwritten        \* history: the latencies printed before their recording

options    == <<nb_thread, short_thread_number>>
mainVars   == <<main, i, j, cur, summed, printed, unwritten>>
workerVars == <<registered, global_cnt, record_cnt, area>>
vars       == <<options, st, pc, arrived, global_stop, workerVars, mainVars>>

Lock == INSTANCE PthreadMutex WITH Threads <- Workers

TypeOK ==
  /\ nb_thread \in NbThreads /\ short_thread_number \in ShortNumbers
  /\ Lock!TypeOK
  /\ pc \in [Workers -> {"none", "start", "register", "barrier", "loop", "lock",
                         "count", "first", "second", "unlock", "record", "over"}]
  /\ registered \subseteq Workers
  /\ arrived \in 0 .. nb_thread + 1
  /\ global_stop \in BOOLEAN
  /\ global_cnt \in [Workers -> Nat] /\ record_cnt \in [Workers -> Nat]
  /\ area \in [Areas -> [two : Nat, seven : Nat]]
  /\ main \in {"create", "barrier", "sleep", "sum", "copy", "print",
               "records", "over"}
  /\ i \in 0 .. nb_thread /\ j \in Nat /\ cur \in Nat
  /\ summed \in [Workers -> Int] /\ printed \in [Workers -> Int]
  /\ unwritten \subseteq Workers \X Nat

Init ==
  /\ nb_thread \in NbThreads /\ short_thread_number \in ShortNumbers
  /\ Lock!Init
  /\ pc = [w \in Workers |-> "none"]
  /\ registered = {}
  /\ arrived = 0
  /\ global_stop = FALSE
  /\ global_cnt = [w \in Workers |-> 0]
  /\ record_cnt = [w \in Workers |-> 0]
  /\ area = [a \in Areas |-> [two |-> 0, seven |-> 0]]
  /\ main = "create" /\ i = 0 /\ j = 0 /\ cur = 0
  /\ summed = [w \in Workers |-> -1]
  /\ printed = [w \in Workers |-> -1]
  /\ unwritten = {}

-----------------------------------------------------------------------------
(* A worker: thread_routine_transparent and request_normal.                *)

Step(w, from, to) == pc[w] = from /\ pc' = [pc EXCEPT ![w] = to]

Register(w) ==
  /\ Step(w, "start", "register")
  /\ registered' = registered \cup {w}
  /\ UNCHANGED <<st, arrived, global_stop, global_cnt, record_cnt, area, mainVars>>

\* Seeded fault: the worker does not come to the barrier.
WorkerArriveNot(w) ==
  /\ Step(w, "register", "loop")
  /\ UNCHANGED <<st, arrived, global_stop, workerVars, mainVars>>

WorkerArrive(w) ==
  /\ Step(w, "register", "barrier")
  /\ arrived' = arrived + 1
  /\ UNCHANGED <<st, global_stop, workerVars, mainVars>>

BarrierOpen == arrived = nb_thread + 1

WorkerGo(w) ==
  /\ BarrierOpen
  /\ Step(w, "barrier", "loop")
  /\ UNCHANGED <<st, arrived, global_stop, workerVars, mainVars>>

\* Seeded fault: a flag that is not volatile is read before the first round.
StopSeenAtFirst(w) == global_stop /\ record_cnt[w] = 0

StopSeen(w) == global_stop

\* The thread returns; its thread-local records are gone.
Leave(w) ==
  /\ StopSeen(w)
  /\ Step(w, "loop", "over")
  /\ UNCHANGED <<st, arrived, global_stop, workerVars, mainVars>>

Request(w) ==
  /\ ~StopSeen(w)
  /\ global_cnt[w] < MaxRequests
  /\ Step(w, "loop", "lock")
  /\ Lock!Call(w)
  /\ UNCHANGED <<arrived, global_stop, workerVars, mainVars>>

\* Seeded fault: trylock is called and its result not looked at.
LockedOrNot(w) ==
  /\ Step(w, "lock", "count")
  /\ Lock!Move(w, "waiting", "holding")
  /\ UNCHANGED <<arrived, global_stop, workerVars, mainVars>>

Locked(w) ==
  /\ Step(w, "lock", "count")
  /\ Lock!Grant(w)
  /\ UNCHANGED <<arrived, global_stop, workerVars, mainVars>>

Count(w) ==
  /\ Step(w, "count", "first")
  /\ global_cnt' = [global_cnt EXCEPT ![w] = @ + 1]
  /\ UNCHANGED <<st, arrived, global_stop, registered, record_cnt, area, mainVars>>

AreaOf(w) == IF w < short_thread_number THEN "short" ELSE "long"

\* access_variables: each word is written from the other.
FirstWrite(w) ==
  /\ Step(w, "first", "second")
  /\ area' = [area EXCEPT ![AreaOf(w)].two = area[AreaOf(w)].seven + 1]
  /\ UNCHANGED <<st, arrived, global_stop, registered, global_cnt, record_cnt, mainVars>>

SecondWrite(w) ==
  /\ Step(w, "second", "unlock")
  /\ area' = [area EXCEPT ![AreaOf(w)].seven = area[AreaOf(w)].two + 1]
  /\ UNCHANGED <<st, arrived, global_stop, registered, global_cnt, record_cnt, mainVars>>

Unlock(w) ==
  /\ Step(w, "unlock", "record")
  /\ Lock!Unlock(w)
  /\ UNCHANGED <<arrived, global_stop, workerVars, mainVars>>

\* Seeded fault: latencies are kept until there are two to record.
RecordInPairs(w) ==
  /\ Step(w, "record", "loop")
  /\ record_cnt' = [record_cnt EXCEPT ![w] = IF global_cnt[w] % 2 = 0 THEN @ + 2 ELSE @]
  /\ UNCHANGED <<st, arrived, global_stop, registered, global_cnt, area, mainVars>>

Record(w) ==
  /\ Step(w, "record", "loop")
  /\ record_cnt' = [record_cnt EXCEPT ![w] = @ + 1]
  /\ UNCHANGED <<st, arrived, global_stop, registered, global_cnt, area, mainVars>>

-----------------------------------------------------------------------------
(* The main thread.                                                        *)

At(l) == main = l

Create ==
  /\ At("create") /\ i < nb_thread
  /\ Step(i, "none", "start")
  /\ i' = i + 1
  /\ UNCHANGED <<st, arrived, global_stop, workerVars, main, j, cur, summed, printed, unwritten>>

MainArrive ==
  /\ At("create") /\ i = nb_thread
  /\ main' = "barrier"
  /\ arrived' = arrived + 1
  /\ UNCHANGED <<st, pc, global_stop, workerVars, i, j, cur, summed, printed, unwritten>>

MainGo ==
  /\ At("barrier")
  /\ BarrierOpen
  /\ main' = "sleep"
  /\ UNCHANGED <<st, pc, arrived, global_stop, workerVars, i, j, cur, summed, printed, unwritten>>

Stop ==
  /\ At("sleep")
  /\ global_stop' = TRUE
  /\ main' = "sum" /\ i' = 0
  /\ UNCHANGED <<st, pc, arrived, workerVars, j, cur, summed, printed, unwritten>>

Sum ==
  /\ At("sum")
  /\ \/ /\ i < nb_thread
        /\ summed' = [summed EXCEPT ![i] = global_cnt[i]]
        /\ i' = i + 1
        /\ UNCHANGED main
     \/ i = nb_thread /\ main' = "copy" /\ i' = 0 /\ UNCHANGED summed
  /\ UNCHANGED <<st, pc, arrived, global_stop, workerVars, j, cur, printed, unwritten>>

\* The count is read for the loop over the latencies ...
Copy ==
  /\ At("copy") /\ i < nb_thread
  /\ cur' = global_cnt[i]
  /\ main' = "print"
  /\ UNCHANGED <<st, pc, arrived, global_stop, workerVars, i, j, summed, printed, unwritten>>

\* ... and again to be printed.
PrintCount ==
  /\ At("print")
  /\ printed' = [printed EXCEPT ![i] = global_cnt[i]]
  /\ main' = "records" /\ j' = 0
  /\ UNCHANGED <<st, pc, arrived, global_stop, workerVars, i, cur, summed, unwritten>>

PrintRecords ==
  /\ At("records")
  /\ \/ /\ j < cur
        /\ unwritten' = IF j < record_cnt[i] THEN unwritten ELSE unwritten \cup {<<i, j>>}
        /\ j' = j + 1
        /\ UNCHANGED <<main, i>>
     \/ j = cur /\ main' = "copy" /\ i' = i + 1 /\ UNCHANGED <<j, unwritten>>
  /\ UNCHANGED <<st, pc, arrived, global_stop, workerVars, cur, summed, printed>>

\* The process ends, whatever the workers are doing.
Return ==
  /\ At("copy") /\ i = nb_thread
  /\ main' = "over"
  /\ UNCHANGED <<st, pc, arrived, global_stop, workerVars, i, j, cur, summed, printed, unwritten>>

-----------------------------------------------------------------------------
WorkerStep(w) ==
  /\ \/ Register(w) \/ WorkerArrive(w) \/ WorkerGo(w) \/ Leave(w)
     \/ Request(w) \/ Locked(w) \/ Count(w) \/ FirstWrite(w)
     \/ SecondWrite(w) \/ Unlock(w) \/ Record(w)
  /\ UNCHANGED options

MainStep ==
  /\ \/ Create \/ MainArrive \/ MainGo \/ Stop \/ Sum \/ Copy
     \/ PrintCount \/ PrintRecords \/ Return
  /\ UNCHANGED options

Next == main # "over" /\ (MainStep \/ \E w \in Workers : WorkerStep(w))

Spec == Init /\ [][Next]_vars

\* Every thread is scheduled; who waits for the lock need not get it.
FairSpec ==
  /\ Spec
  /\ WF_vars(MainStep)
  /\ \A w \in Workers : WF_vars(main # "over" /\ WorkerStep(w))

-----------------------------------------------------------------------------
(* Properties.                                                             *)

\* The barrier (bench_block.c:161, 264, 269) keeps everybody from the mutex,
\* and the main thread from following record_all, until all have set it.
StartTogether ==
  (\E w \in Workers : st[w] # "out") \/ main \notin {"create", "barrier"} =>
    \A w \in Workers : w < nb_thread => w \in registered

\* The rate, the printed counts and the number of latencies are read one after
\* the other (279, 284, 285) while workers go on; one that is past the test of
\* global_stop (163) makes one more request, so no two differ by more.
ReportsAgree ==
  \A w \in Workers :
    /\ summed[w] # -1 => global_cnt[w] - summed[w] \in {0, 1}
    /\ printed[w] # -1 => printed[w] - summed[w] \in {0, 1}
    /\ At("records") /\ i = w => printed[w] - cur \in {0, 1}

\* A worker counts a request (128) before it records its latency (176), so the
\* main thread may print a latency not yet recorded: the last one, no other.
OnlyLastUnwritten ==
  \A p \in unwritten :
    /\ printed[p[1]] = p[2] + 1
    /\ record_cnt[p[1]] >= p[2]

\* The requests counted by the workers on an area.
Requests(a) ==
  UNION {{w} \X (1 .. global_cnt[w]) : w \in {w \in Workers : AreaOf(w) = a}}

\* The words of a shared line (62-63) have kept every access of every worker
\* whenever nobody holds the mutex.
SharedDataKept ==
  Lock!Free => \A a \in Areas : area[a].seven = 2 * Cardinality(Requests(a))

\* The benchmark ends: nobody is left at the barrier (161, 269).
BenchEnds == <>(main = "over")
=============================================================================
