--------------------------- MODULE WaitingPolicy ---------------------------
(***************************************************************************)
(* src/waiting_policy.h: how a thread of a queue lock waits on a flag of   *)
(* its own until another thread sets it.  The header has four              *)
(* implementations of waiting_policy_sleep and waiting_policy_wake, chosen *)
(* when the library is compiled; `policy' is the choice.  The locks that   *)
(* call them are not in the repository, so the caller (Prepare,            *)
(* StartWake) is what the calls themselves ask for: the flag is LOCKED     *)
(* when the wait begins and is set once for each wait.  The counters       *)
(* spin_cnt, park_cnt and wake_cnt are statistics and left out, and so is  *)
(* a futex call that fails for other reasons than a changed flag or a      *)
(* signal, which ends the process.                                         *)
(***************************************************************************)
EXTENDS Naturals

CONSTANTS Threads, Policies

\* The flag's values (54-55).
LOCKED == 0
UNLOCKED == 1

\* The policies that sleep in the kernel (the others only spin).
Parking == {"spin_then_park", "park"}

VARIABLES
  policy,   \* the policy the library was compiled with
  var,      \* var[t]: the flag t waits on
  pc,       \* where a thread is: "out" in the program, "spin", "park", "asleep"
            \* and "settle" in waiting_policy_sleep, "store" and "wake" in
            \* waiting_policy_wake
  target,   \* whom a thread in waiting_policy_wake wakes, itself outside
  granted   \* history: the waiters for which waiting_policy_wake was called

vars == <<policy, var, pc, target, granted>>

Waiting(t) == pc[t] \in {"spin", "park", "asleep", "settle"}

Init ==
  /\ policy \in Policies
  /\ var = [t \in Threads |-> LOCKED]
  /\ pc = [t \in Threads |-> "out"]
  /\ target = [t \in Threads |-> t]
  /\ granted = {}

Goto(t, place) == pc' = [pc EXCEPT ![t] = place]

(***************************************************************************)
(* waiting_policy_sleep                                                    *)
(***************************************************************************)
\* The caller makes its flag ready and waits; somebody is left who does not,
\* as the holder of a lock.  The sleep of the atomic policy leaves the flag
\* LOCKED itself, under the others the caller does.
Prepare(t) ==
  /\ pc[t] = "out"
  /\ \E u \in Threads \ {t} : ~Waiting(u)
  /\ IF policy = "spinlock_atomic"
     THEN UNCHANGED var
     ELSE var' = [var EXCEPT ![t] = LOCKED]
  /\ Goto(t, IF policy = "park" THEN "park" ELSE "spin")
  /\ UNCHANGED <<policy, target, granted>>

SleepReturn(t) ==
  /\ Goto(t, "out")
  /\ granted' = granted \ {t}
  /\ UNCHANGED <<policy, target>>

\* The plain spin ends when the flag is no longer LOCKED.
SpinSeen(t) ==
  /\ policy = "spinlock"
  /\ pc[t] = "spin"
  /\ var[t] # LOCKED
  /\ SleepReturn(t)
  /\ UNCHANGED var

\* Seeded fault: the atomic policy looks at the flag and leaves it set.
SpinLook(t) ==
  /\ policy = "spinlock_atomic"
  /\ pc[t] = "spin"
  /\ var[t] = UNLOCKED
  /\ SleepReturn(t)
  /\ UNCHANGED var

\* The atomic spin takes the flag back with a compare-and-swap.
SpinTake(t) ==
  /\ policy = "spinlock_atomic"
  /\ pc[t] = "spin"
  /\ var[t] = UNLOCKED
  /\ var' = [var EXCEPT ![t] = LOCKED]
  /\ SleepReturn(t)

\* The limited spin sees the flag, in the loop or at the look after it ...
SpinEnough(t) ==
  /\ policy = "spin_then_park"
  /\ pc[t] = "spin"
  /\ var[t] = UNLOCKED
  /\ SleepReturn(t)
  /\ UNCHANGED var

\* ... or gives up after SPINNING_THRESHOLD rounds, however many these are.
SpinGiveUp(t) ==
  /\ policy = "spin_then_park"
  /\ pc[t] = "spin"
  /\ var[t] # UNLOCKED
  /\ Goto(t, "park")
  /\ UNCHANGED <<policy, var, target, granted>>

\* FUTEX_WAIT compares and sleeps in one step; EAGAIN leaves the loop.
FutexWait(t) ==
  /\ pc[t] = "park"
  /\ Goto(t, IF var[t] = LOCKED THEN "asleep" ELSE "settle")
  /\ UNCHANGED <<policy, var, target, granted>>

\* A signal ends the sleep with EINTR, and the loop calls FUTEX_WAIT again.
Interrupt(t) ==
  /\ pc[t] = "asleep"
  /\ Goto(t, "park")
  /\ UNCHANGED <<policy, var, target, granted>>

\* Seeded fault: a waiter returns as soon as it is woken.
SettleAtOnce(t) ==
  /\ pc[t] = "settle"
  /\ SleepReturn(t)
  /\ UNCHANGED var

\* Whoever was woken spins until the flag really is set.
Settle(t) ==
  /\ pc[t] = "settle"
  /\ var[t] = UNLOCKED
  /\ SleepReturn(t)
  /\ UNCHANGED var

(***************************************************************************)
(* waiting_policy_wake                                                     *)
(***************************************************************************)
\* The caller wakes a waiter, once for each of its waits.
StartWake(w, u) ==
  /\ pc[w] = "out"
  /\ Waiting(u)
  /\ u \notin granted
  /\ granted' = granted \cup {u}
  /\ target' = [target EXCEPT ![w] = u]
  /\ Goto(w, "store")
  /\ UNCHANGED <<policy, var>>

SetFlag(w) == var' = [var EXCEPT ![target[w]] = UNLOCKED]

WakeReturn(w) ==
  /\ Goto(w, "out")
  /\ target' = [target EXCEPT ![w] = w]
  /\ UNCHANGED <<policy, granted>>

StorePlain(w) ==
  /\ policy = "spinlock"
  /\ pc[w] = "store"
  /\ SetFlag(w)
  /\ WakeReturn(w)

\* The compare-and-swap leaves UNLOCKED whatever it finds; that it finds LOCKED
\* is asserted (95).
StoreChecked(w) ==
  /\ policy = "spinlock_atomic"
  /\ pc[w] = "store"
  /\ SetFlag(w)
  /\ WakeReturn(w)

StoreForPark(w) ==
  /\ policy \in Parking
  /\ pc[w] = "store"
  /\ SetFlag(w)
  /\ Goto(w, "wake")
  /\ UNCHANGED <<policy, target, granted>>

\* FUTEX_WAKE ends the sleep on the flag, be it the one the store was meant for
\* or a later one of the same thread.
WakeSleeper(w) ==
  /\ pc[w] = "wake"
  /\ pc' = [pc EXCEPT ![w] = "out",
                      ![target[w]] = IF @ = "asleep" THEN "settle" ELSE @]
  /\ target' = [target EXCEPT ![w] = w]
  /\ UNCHANGED <<policy, var, granted>>

\* Seeded fault: the parking policies call FUTEX_WAKE before they set the flag.
ParkWakeSwapped(w) ==
  \/ /\ policy \in Parking
     /\ pc[w] = "store"
     /\ pc' = [pc EXCEPT ![w] = "wake",
                         ![target[w]] = IF @ = "asleep" THEN "settle" ELSE @]
     /\ UNCHANGED <<policy, var, target, granted>>
  \/ /\ pc[w] = "wake"
     /\ SetFlag(w)
     /\ WakeReturn(w)

\* The store, then the wake.
ParkWake(w) == StoreForPark(w) \/ WakeSleeper(w)

-----------------------------------------------------------------------------
SleepStep(t) ==
  \/ SpinSeen(t)
  \/ SpinTake(t)
  \/ SpinEnough(t)
  \/ SpinGiveUp(t)
  \/ FutexWait(t)
  \/ Settle(t)

WakeStep(w) ==
  \/ StorePlain(w)
  \/ StoreChecked(w)
  \/ ParkWake(w)

Next == \E t \in Threads :
  \/ Prepare(t)
  \/ SleepStep(t)
  \/ Interrupt(t)
  \/ \E u \in Threads : StartWake(t, u)
  \/ WakeStep(t)

Spec == Init /\ [][Next]_vars

\* A thread inside either function is scheduled; nobody has to call them, and a
\* signal need not come.
FairSpec ==
  /\ Spec
  /\ \A t \in Threads : WF_vars(SleepStep(t)) /\ WF_vars(WakeStep(t))

-----------------------------------------------------------------------------
\* waiting_policy_sleep does not return before somebody called
\* waiting_policy_wake for this very wait (149, 191).  A waker that has stored
\* the flag and not yet called FUTEX_WAKE (158-159) may wake the next sleep of the
\* same thread, which is what the comment at 143-147 wonders about: the flag is
\* not set then, without any reordering of memory accesses.
NoEarlyReturn ==
  [][\A t \in Threads : Waiting(t) /\ ~Waiting(t)' => t \in granted]_vars

\* The assertion of the atomic policy (95): the flag was taken back by the last
\* sleep before anybody sets it again.
WakeFindsLocked ==
  \A w \in Threads :
    policy = "spinlock_atomic" /\ pc[w] = "store" => var[target[w]] = LOCKED

\* Who is woken returns: neither the window between the last look at the flag
\* and the sleep (110-121), nor a signal, nor an old FUTEX_WAKE loses the wake.
GrantedReturns == \A t \in Threads : t \in granted ~> ~Waiting(t)

=============================================================================
