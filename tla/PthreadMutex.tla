---------------------------- MODULE PthreadMutex ----------------------------
(***************************************************************************)
(* What a Pthread mutex promises to the program that uses it: a thread     *)
(* that asks for the mutex waits, at most one thread holds it, and only    *)
(* the holder gives it up.  LiTL replaces the implementation behind this   *)
(* interface; HtllMutex is shown to implement it.                          *)
(***************************************************************************)
CONSTANT Threads

VARIABLE st    \* what each thread is doing with respect to the mutex

vars == <<st>>

TypeOK == st \in [Threads -> {"out", "waiting", "holding"}]

Free == \A t \in Threads : st[t] # "holding"

Init == st = [t \in Threads |-> "out"]

Move(t, from, to) == st[t] = from /\ st' = [st EXCEPT ![t] = to]

Call(t)    == Move(t, "out", "waiting")              \* pthread_mutex_lock called
Grant(t)   == Free /\ Move(t, "waiting", "holding")  \* ... and it returns
TryLock(t) == Free /\ Move(t, "out", "holding")      \* successful trylock
Unlock(t)  == Move(t, "holding", "out")
CondWait(t) == Move(t, "holding", "waiting")         \* gives it up, wants it back

Next == \E t \in Threads :
  Call(t) \/ Grant(t) \/ TryLock(t) \/ Unlock(t) \/ CondWait(t)

Spec == Init /\ [][Next]_vars
=============================================================================
