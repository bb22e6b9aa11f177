------------------------------- MODULE Segment -------------------------------
(***************************************************************************)
(* The segments of one thread, src/litl/src/htll.c:26-38 and 150-377: a    *)
(* stack of open segments, and for every segment id the reorder window its *)
(* waiters sleep for, the unit the window grows by, and has_waiter, which  *)
(* lock and condition wait set.  All of it is thread-local.                *)
(*                                                                         *)
(* segment_end sees of the clock only whether the segment took longer than *)
(* required; the model chooses.  A call that returns -EINVAL changes       *)
(* nothing and is not a step.  The program gives ids below MAX_SEGMENT,    *)
(* nests at most MAX_DEPTH deep, and ends nothing outside of a segment:    *)
(* beyond that the code leaves its arrays.                                 *)
(***************************************************************************)
EXTENDS Integers, Sequences, SequencesExt

CONSTANTS
  MAX_SEGMENT,           \* ids are 0 .. MAX_SEGMENT - 1
  MAX_DEPTH,             \* size of the stack
  DEFAULT_REORDER, MIN_REORDER,
  DEFAULT_ADJUST_UNIT, MIN_ADJUST_UNIT,
  UnitDivisor,           \* a halved window's unit is this part of it: 99
  MaxWindow              \* bound: windows are followed up to here

ASSUME WindowAssumption ==
  /\ MIN_REORDER \in Nat \ {0} /\ DEFAULT_REORDER \in Nat
  /\ MIN_ADJUST_UNIT \in Nat \ {0} /\ DEFAULT_ADJUST_UNIT \in Nat
  /\ MIN_REORDER <= DEFAULT_REORDER
  /\ MIN_ADJUST_UNIT <= DEFAULT_ADJUST_UNIT /\ UnitDivisor \in Nat \ {0}
  /\ MAX_SEGMENT \in Nat \ {0} /\ MAX_DEPTH \in Nat /\ MaxWindow \in Nat

Ids == 0 .. MAX_SEGMENT - 1
None == -1               \* cur_segment_id outside any segment

VARIABLES
  wrapped,     \* the thread was started by the pthread_create wrapper
  cur,         \* cur_segment_id
  stack,       \* segment_stack, up to stack_pos
  wait_time, unit, has_waiter,   \* of each segment
  open,        \* history: the executions the program has open, outermost first
  paid         \* history: ids that waited since their window was last adjusted

windows == <<wait_time, unit, has_waiter>>
vars == <<wrapped, cur, stack, wait_time, unit, has_waiter, open, paid>>

\* An execution of a segment: whether it waited, and whether another one of
\* the same id was open at the same time.
Execution == [id : Ids, waited : BOOLEAN, shared : BOOLEAN]

TypeOK ==
  /\ wrapped \in BOOLEAN
  /\ cur \in Ids \cup {None}
  /\ stack \in Seq(Ids \cup {None})
  /\ wait_time \in [Ids -> Nat]
  /\ unit \in [Ids -> Nat]
  /\ has_waiter \in [Ids -> BOOLEAN]
  /\ open \in Seq(Execution)
  /\ paid \subseteq Ids

\* htll_thread_start runs in wrapped threads only; the main thread starts with
\* the zeros of its thread-local storage.
Init ==
  /\ wrapped \in BOOLEAN
  /\ cur = None
  /\ stack = << >>
  /\ wait_time = [i \in Ids |-> IF wrapped THEN DEFAULT_REORDER ELSE 0]
  /\ unit = [i \in Ids |-> IF wrapped THEN DEFAULT_ADJUST_UNIT ELSE 0]
  /\ has_waiter = [i \in Ids |-> FALSE]
  /\ open = << >>
  /\ paid = {}

-----------------------------------------------------------------------------
\* push_segment and segment_start.
Start(id) ==
  /\ Len(stack) < MAX_DEPTH
  /\ stack' = Append(stack, cur)
  /\ cur' = id
  /\ LET again == \E k \in DOMAIN open : open[k].id = id
         known == [k \in DOMAIN open |->
                     [open[k] EXCEPT !.shared = @ \/ open[k].id = id]]
     IN  open' = Append(known, [id |-> id, waited |-> FALSE, shared |-> again])
  /\ UNCHANGED <<wrapped, windows, paid>>

\* A timed sleep in lock, or in the way back from a condition wait, is over.
Wait ==
  /\ cur # None
  /\ has_waiter' = [has_waiter EXCEPT ![cur] = TRUE]
  /\ open' = [open EXCEPT ![Len(open)].waited = TRUE]
  /\ paid' = paid \cup {cur}
  /\ UNCHANGED <<wrapped, cur, stack, wait_time, unit>>

\* Seeded fault: the segment that is left is not the one on top of the stack.
PopBottom ==
  /\ cur' = IF stack = << >> THEN None ELSE Head(stack)
  /\ stack' = IF stack = << >> THEN stack ELSE Tail(stack)

\* pop_segment: back in the segment around.
Pop ==
  /\ cur' = IF stack = << >> THEN None ELSE Last(stack)
  /\ stack' = IF stack = << >> THEN stack ELSE Front(stack)

\* The end of an execution the program takes for closed, the call having
\* returned 0.
Close ==
  /\ cur # None
  /\ Pop
  /\ open' = Front(open)
  /\ UNCHANGED wrapped

\* Nobody waited: the id is not looked at and the innermost segment is closed.
EndQuiet ==
  /\ cur # None
  /\ ~has_waiter[cur]
  /\ Close
  /\ UNCHANGED <<windows, paid>>

\* The required latency is below SEGMENT_REQ_THRESHOLD.
EndFast ==
  /\ cur # None
  /\ has_waiter[cur]
  /\ wait_time' = [wait_time EXCEPT ![cur] = MIN_REORDER]
  /\ Close
  /\ UNCHANGED <<unit, has_waiter, paid>>

\* Seeded fault: the new window is stored before it is raised to the minimum.
AdjustNoFloor(w, u) ==
  /\ wait_time' = [wait_time EXCEPT ![cur] = w]
  /\ unit' = [unit EXCEPT ![cur] = u]
  /\ has_waiter' = [has_waiter EXCEPT ![cur] = FALSE]
  /\ paid' = paid \ {cur}
  /\ Close

\* Seeded fault: the pop comes first and has_waiter is cleared after it.
AdjustClearsOuter(w, u) ==
  /\ Close
  /\ wait_time' = [wait_time EXCEPT ![cur] = Max({w, MIN_REORDER})]
  /\ unit' = [unit EXCEPT ![cur] = u]
  /\ has_waiter' = [i \in Ids |-> i # cur' /\ has_waiter[i]]
  /\ paid' = paid \ {cur}

Adjust(w, u) ==
  /\ wait_time' = [wait_time EXCEPT ![cur] = Max({w, MIN_REORDER})]
  /\ unit' = [unit EXCEPT ![cur] = u]
  /\ has_waiter' = [has_waiter EXCEPT ![cur] = FALSE]
  /\ paid' = paid \ {cur}
  /\ Close

\* Longer than required: the window is halved.
EndLate(id) ==
  /\ cur # None
  /\ has_waiter[cur]
  /\ id = cur
  /\ LET w == wait_time[cur] \div 2
     IN  Adjust(w, Max({w \div UnitDivisor, MIN_ADJUST_UNIT}))

\* In time: the window grows.
EndInTime(id) ==
  /\ cur # None
  /\ has_waiter[cur]
  /\ id = cur
  /\ wait_time[cur] + unit[cur] <= MaxWindow
  /\ Adjust(wait_time[cur] + unit[cur], unit[cur])

-----------------------------------------------------------------------------
Next ==
  \/ \E id \in Ids : Start(id) \/ EndLate(id) \/ EndInTime(id)
  \/ Wait \/ EndQuiet \/ EndFast

Spec == Init /\ [][Next]_vars

-----------------------------------------------------------------------------
(* Properties.                                                             *)

\* The stack is what the program has open: after any nesting, waiting and
\* ending, also of one id inside itself, segment_end returns to the segment
\* around (htll.c:303-335, 371-375), and the outermost one to none.
NestingMatches ==
  LET ids == [k \in DOMAIN open |-> open[k].id]
  IN  <<None>> \o ids = Append(stack, cur)

\* Every adjustment of a window is paid for by a wait since the last one.
\* has_waiter may be left over from an earlier execution (the fast-out path
\* keeps it, htll.c:349-352) but is never charged twice (htll.c:345-369).
AdjustmentPaid ==
  [][\A i \in Ids :
       (wait_time'[i] # wait_time[i] /\ wait_time'[i] # MIN_REORDER)
       \/ unit'[i] # unit[i]
         => i \in paid]_vars

\* The end of an execution sees its waits: has_waiter survives the segments
\* opened and closed within (htll.c:86, 226, 288, 369), unless they are of the
\* same id, which then share the flag.
WaitsAreSeen ==
  \A k \in DOMAIN open :
    open[k].waited /\ ~open[k].shared => has_waiter[open[k].id]

\* Windows never shrink to nothing and can always grow again: halving, growing
\* and the fast-out path (htll.c:347-368) keep both bounds for a thread that
\* was given its defaults (150-156).  The main thread was not: its windows are
\* 0 until their first adjustment, and only being late gives them a unit.
WindowsUsable ==
  \A i \in Ids :
    \/ wait_time[i] >= MIN_REORDER /\ unit[i] >= MIN_ADJUST_UNIT
    \/ ~wrapped /\ unit[i] = 0 /\ wait_time[i] \in {0, MIN_REORDER}
=============================================================================
