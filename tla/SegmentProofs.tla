---------------------------- MODULE SegmentProofs ----------------------------
(***************************************************************************)
(* Theorems about the segments of a thread, for any number of ids, depth   *)
(* of nesting and constants of the windows, followed as far as one likes.  *)
(***************************************************************************)
EXTENDS Segment, SequenceTheorems, TLAPS

-----------------------------------------------------------------------------
(* What the operators of the model yield.                                   *)

\* The larger of two numbers.
LEMMA MaxOfTwo ==
  ASSUME NEW a \in Nat, NEW b \in Nat
  PROVE  /\ Max({a, b}) \in {a, b} /\ Max({a, b}) \in Nat
         /\ Max({a, b}) >= a /\ Max({a, b}) >= b
<1> DEFINE Largest(x) == x \in {a, b} /\ \A y \in {a, b} : x >= y
<1>1. \E x : Largest(x)
  <2>1. a >= b \/ b >= a
    OBVIOUS
  <2>2. CASE a >= b
    <3>1. Largest(a)
      BY <2>2
    <3> QED
      BY <3>1
  <2>3. CASE b >= a
    <3>1. Largest(b)
      BY <2>3
    <3> QED
      BY <3>1
  <2> QED
    BY <2>1, <2>2, <2>3
<1>2. Max({a, b}) = CHOOSE x : Largest(x)
  BY DEF Max
<1>3. Largest(CHOOSE x : Largest(x))
  <2> HIDE DEF Largest
  <2> QED
    BY <1>1, Zenon
<1> QED
  BY <1>2, <1>3

\* Parts of numbers.
LEMMA Halving ==
  ASSUME NEW n \in Nat, NEW d \in Nat \ {0}
  PROVE  n \div d \in Nat
OBVIOUS

\* What is left of a stack when its top is popped.
LEMMA FrontProperties ==
  ASSUME NEW S, NEW s \in Seq(S), s # << >>
  PROVE  /\ Front(s) \in Seq(S)
         /\ Len(Front(s)) = Len(s) - 1
         /\ \A k \in 1 .. Len(s) - 1 : Front(s)[k] = s[k]
         /\ Last(s) \in S
<1>1. Len(s) \in Nat \ {0}
  BY EmptySeq
<1>2. \A k \in 1 .. Len(s) : s[k] \in S
  BY ElementOfSeq
<1> DEFINE n == Len(s) - 1
<1>3. n \in Nat /\ \A k \in 1 .. n : s[k] \in S
  BY <1>1, <1>2
<1>4. /\ SubSeq(s, 1, n) \in Seq(S)
      /\ Len(SubSeq(s, 1, n)) = IF 1 <= n THEN n - 1 + 1 ELSE 0
      /\ \A k \in 1 .. n - 1 + 1 : SubSeq(s, 1, n)[k] = s[1 + k - 1]
  <2> HIDE DEF n
  <2>1. n \in Int /\ 1 \in Int
    BY <1>3
  <2> QED
    BY <1>3, <2>1, SubSeqProperties
<1>5. \A k \in 1 .. n : k \in 1 .. n - 1 + 1 /\ 1 + k - 1 = k
  BY <1>3
<1>6. Len(SubSeq(s, 1, n)) = n /\ \A k \in 1 .. n : SubSeq(s, 1, n)[k] = s[k]
  <2> HIDE DEF n
  <2> QED
    BY <1>3, <1>4, <1>5
<1>7. Last(s) \in S
  BY <1>1, <1>2 DEF Last
<1> QED
  BY <1>4, <1>6, <1>7 DEF Front

\* A function on 1 .. n is a sequence of length n.
LEMMA FunctionIsSeq ==
  ASSUME NEW S, NEW n \in Nat, NEW f \in [1 .. n -> S]
  PROVE  f \in Seq(S) /\ Len(f) = n
<1>1. f \in Seq(S)
  BY SeqDef
<1>2. Len(f) \in Nat /\ 1 .. Len(f) = 1 .. n
  BY <1>1, LenProperties
<1>3. Len(f) = n
  <2> SUFFICES ASSUME Len(f) # n PROVE FALSE
    OBVIOUS
  <2>1. Len(f) \in 1 .. n \/ Len(f) = 0
    BY <1>2
  <2>2. n \in 1 .. Len(f) \/ n = 0
    BY <1>2
  <2> QED
    BY <1>2, <2>1, <2>2
<1> QED
  BY <1>1, <1>3

-----------------------------------------------------------------------------
(* What the stack, the innermost segment and the program's executions have *)
(* to do with each other.                                                  *)

\* Each execution but the innermost one has its id on the stack, one place up;
\* below them lies None.
Aligned ==
  /\ Len(open) = Len(stack)
  /\ stack # << >> => stack[1] = None
  /\ \A k \in 1 .. Len(open) :
       open[k].id = IF k = Len(open) THEN cur ELSE stack[k + 1]
  /\ open = << >> => cur = None

\* Two open executions of one id know of each other.
SharedKnown ==
  \A j, k \in 1 .. Len(open) :
    j # k /\ open[j].id = open[k].id => open[j].shared

Nesting == TypeOK /\ Aligned /\ SharedKnown

LEMMA StartEffect ==
  ASSUME TypeOK, NEW id \in Ids, Start(id)
  PROVE  /\ stack' \in Seq(Ids \cup {None}) /\ open' \in Seq(Execution)
         /\ Len(stack') = Len(stack) + 1 /\ Len(open') = Len(open) + 1
         /\ \A k \in 1 .. Len(stack) : stack'[k] = stack[k]
         /\ stack'[Len(stack) + 1] = cur
         /\ \A k \in 1 .. Len(open) :
              /\ open'[k].id = open[k].id /\ open'[k].waited = open[k].waited
              /\ open'[k].shared = (open[k].shared \/ open[k].id = id)
         /\ open'[Len(open) + 1].id = id
         /\ ~open'[Len(open) + 1].waited
         /\ open'[Len(open) + 1].shared = \E k \in 1 .. Len(open) : open[k].id = id
<1> USE DEF TypeOK
<1> DEFINE n == Len(open)
           known == [k \in 1 .. n |->
                       [open[k] EXCEPT !.shared = @ \/ open[k].id = id]]
           new == [id |-> id, waited |-> FALSE,
                   shared |-> \E k \in 1 .. n : open[k].id = id]
<1>1. n \in Nat /\ DOMAIN open = 1 .. n /\ \A k \in 1 .. n : open[k] \in Execution
  BY LenProperties, ElementOfSeq
<1>2. known \in [1 .. n -> Execution] /\ new \in Execution
  BY <1>1 DEF Execution
<1>3. known \in Seq(Execution) /\ Len(known) = n
  <2> HIDE DEF known, n
  <2> QED
    BY <1>1, <1>2, FunctionIsSeq
<1>4. open' = Append(known, new)
  BY <1>1 DEF Start
<1>5. /\ open' \in Seq(Execution) /\ Len(open') = n + 1
      /\ \A k \in 1 .. n : open'[k] = known[k]
      /\ open'[n + 1] = new
  <2> HIDE DEF known, new, n
  <2> QED
    BY <1>2, <1>3, <1>4, AppendProperties
<1>6. \A k \in 1 .. n :
        /\ known[k].id = open[k].id /\ known[k].waited = open[k].waited
        /\ known[k].shared = (open[k].shared \/ open[k].id = id)
  BY <1>1 DEF Execution
<1>7. /\ stack' \in Seq(Ids \cup {None}) /\ Len(stack') = Len(stack) + 1
      /\ \A k \in 1 .. Len(stack) : stack'[k] = stack[k]
      /\ stack'[Len(stack) + 1] = cur
  <2>1. stack' = Append(stack, cur)
    BY DEF Start
  <2> QED
    BY <2>1, AppendProperties
<1>8. ~new.waited /\ new.id = id
      /\ new.shared = \E k \in 1 .. n : open[k].id = id
  OBVIOUS
<1> HIDE DEF known, new
<1> QED
  BY <1>5, <1>6, <1>7, <1>8

LEMMA CloseEffect ==
  ASSUME TypeOK, Aligned, Close
  PROVE  /\ stack' \in Seq(Ids \cup {None}) /\ open' \in Seq(Execution)
         /\ stack # << >> /\ cur' \in Ids \cup {None}
         /\ Len(open) \in Nat \ {0} /\ open[Len(open)].id = cur
         /\ Len(stack') = Len(stack) - 1 /\ Len(open') = Len(open) - 1
         /\ \A k \in 1 .. Len(stack) - 1 : stack'[k] = stack[k]
         /\ cur' = stack[Len(stack)]
         /\ \A k \in 1 .. Len(open) - 1 : open'[k] = open[k]
<1> USE DEF TypeOK, Aligned
<1>1. open # << >>
  BY DEF Close
<1>2. Len(open) \in Nat \ {0}
  BY <1>1, EmptySeq
<1>3. stack # << >>
  BY <1>2, EmptySeq
<1>4. open' = Front(open) /\ stack' = Front(stack) /\ cur' = Last(stack)
  BY <1>3 DEF Close, Pop
<1>5. open[Len(open)].id = cur
  <2> HIDE DEF TypeOK, Aligned
  <2>1. \A k \in 1 .. Len(open) :
           open[k].id = IF k = Len(open) THEN cur ELSE stack[k + 1]
    BY DEF Aligned
  <2>2. Len(open) \in 1 .. Len(open)
    BY <1>2
  <2> QED
    BY <2>1, <2>2
<1> QED
  BY <1>1, <1>2, <1>3, <1>4, <1>5, FrontProperties DEF Last

\* An execution that has waited is the same execution.
LEMMA WaitedExecution ==
  ASSUME NEW r \in Execution, NEW e, e = [r EXCEPT !.waited = TRUE]
  PROVE  e \in Execution /\ e.id = r.id /\ e.shared = r.shared
BY DEF Execution

LEMMA WaitEffect ==
  ASSUME TypeOK, Aligned, Wait
  PROVE  /\ open' \in Seq(Execution) /\ Len(open') = Len(open)
         /\ Len(open) \in Nat \ {0} /\ open[Len(open)].id = cur
         /\ \A k \in 1 .. Len(open) :
              open'[k].id = open[k].id /\ open'[k].shared = open[k].shared
         /\ \A k \in 1 .. Len(open) - 1 : open'[k] = open[k]
<1> USE DEF TypeOK, Aligned
<1> DEFINE n == Len(open)
           e == [open[n] EXCEPT !.waited = TRUE]
<1>1. open # << >>
  BY DEF Wait
<1>2. n \in Nat \ {0} /\ \A k \in 1 .. n : open[k] \in Execution
  BY <1>1, EmptySeq, ElementOfSeq
<1>3. open' = [open EXCEPT ![n] = e]
  BY DEF Wait
<1>4. e \in Execution /\ e.id = open[n].id /\ e.shared = open[n].shared
  BY <1>2, WaitedExecution
<1>5. n \in 1 .. n
  BY <1>2
<1>6. /\ open' \in Seq(Execution) /\ Len(open') = n
      /\ \A k \in 1 .. n : open'[k] = IF k = n THEN e ELSE open[k]
  <2> HIDE DEF e
  <2> QED
    BY <1>3, <1>4, <1>5, ExceptSeq
<1>7. open[n].id = cur
  BY <1>5
<1>8. \A k \in 1 .. n :
        open'[k].id = open[k].id /\ open'[k].shared = open[k].shared
  <2> HIDE DEF e
  <2> QED
    BY <1>4, <1>6
<1>9. \A k \in 1 .. n - 1 : open'[k] = open[k]
  <2>1. \A k \in 1 .. n - 1 : k \in 1 .. n /\ k # n
    BY <1>2
  <2> QED
    BY <1>6, <2>1
<1> QED
  BY <1>2, <1>6, <1>7, <1>8, <1>9

LEMMA NestingInit == Init => Nesting
<1> SUFFICES ASSUME Init PROVE Nesting
  OBVIOUS
<1> USE DEF Init
<1>1. /\ stack \in Seq(Ids \cup {None}) /\ open \in Seq(Execution)
      /\ Len(stack) = 0 /\ Len(open) = 0
  BY EmptySeq
<1>2. wait_time \in [Ids -> Nat] /\ unit \in [Ids -> Nat]
  BY WindowAssumption
<1>3. TypeOK
  BY <1>1, <1>2 DEF TypeOK
<1> QED
  BY <1>1, <1>3 DEF Nesting, Aligned, SharedKnown

\* segment_end, on whichever path.
End == EndQuiet \/ EndFast \/ \E id \in Ids : EndLate(id) \/ EndInTime(id)

\* A segment that is left by segment_end, in whatever way, is the innermost.
LEMMA EndCloses == End => Close
BY DEF End, EndQuiet, EndFast, EndLate, EndInTime, Adjust

\* What the end of a segment does to the windows.
LEMMA WindowTypes ==
  ASSUME TypeOK, [Next]_vars
  PROVE  /\ wait_time' \in [Ids -> Nat] /\ unit' \in [Ids -> Nat]
         /\ has_waiter' \in [Ids -> BOOLEAN] /\ paid' \subseteq Ids
         /\ wrapped' = wrapped
<1> USE WindowAssumption DEF TypeOK, windows
<1>1. CASE UNCHANGED vars
  BY <1>1 DEF vars
<1>2. ASSUME NEW id \in Ids, Start(id)
      PROVE  UNCHANGED <<windows, paid, wrapped>>
  BY <1>2 DEF Start
<1>3. CASE Wait
  BY <1>3 DEF Wait
<1>4. CASE EndQuiet \/ EndFast
  BY <1>4 DEF EndQuiet, EndFast, Close
<1>5. ASSUME NEW w \in Nat, NEW u \in Nat, Adjust(w, u)
      PROVE  /\ wait_time' \in [Ids -> Nat] /\ unit' \in [Ids -> Nat]
             /\ has_waiter' \in [Ids -> BOOLEAN] /\ paid' \subseteq Ids
             /\ wrapped' = wrapped
  <2>1. Max({w, MIN_REORDER}) \in Nat
    BY MaxOfTwo
  <2> QED
    BY <1>5, <2>1 DEF Adjust, Close
<1>6. ASSUME NEW id \in Ids, EndLate(id)
      PROVE  \E w, u \in Nat : Adjust(w, u)
  <2>1. cur \in Ids
    BY <1>6 DEF EndLate
  <2> DEFINE w == wait_time[cur] \div 2
             u == Max({w \div UnitDivisor, MIN_ADJUST_UNIT})
  <2>2. w \in Nat
    BY <2>1, Halving
  <2>3. w \div UnitDivisor \in Nat
    <3> HIDE DEF w
    <3> QED
      BY <2>2, Halving
  <2>4. u \in Nat
    <3> HIDE DEF w
    <3> QED
      BY <2>3, MaxOfTwo
  <2>5. Adjust(w, u)
    BY <1>6 DEF EndLate
  <2> QED
    BY <2>2, <2>4, <2>5
<1>7. ASSUME NEW id \in Ids, EndInTime(id)
      PROVE  \E w, u \in Nat : Adjust(w, u)
  BY <1>7 DEF EndInTime
<1> QED
  BY <1>1, <1>2, <1>3, <1>4, <1>5, <1>6, <1>7 DEF Next

LEMMA NestingStep == Nesting /\ [Next]_vars => Nesting'
<1> SUFFICES ASSUME Nesting, [Next]_vars PROVE Nesting'
  OBVIOUS
<1> USE DEF Nesting, TypeOK
<1>1. Len(open) \in Nat /\ Len(stack) \in Nat /\ Len(open) = Len(stack)
  BY LenProperties DEF Aligned
<1>2. /\ wait_time' \in [Ids -> Nat] /\ unit' \in [Ids -> Nat]
      /\ has_waiter' \in [Ids -> BOOLEAN] /\ paid' \subseteq Ids
      /\ wrapped' \in BOOLEAN
  BY WindowTypes
<1>3. CASE UNCHANGED vars
  BY <1>3 DEF vars, Aligned, SharedKnown
<1>4. ASSUME NEW id \in Ids, Start(id) PROVE Nesting'
  <2>1. TypeOK'
    BY <1>2, <1>4, StartEffect DEF Start
  <2> DEFINE n == Len(open)
  <2>2. /\ Len(stack') = n + 1 /\ Len(open') = n + 1 /\ cur' = id
        /\ \A k \in 1 .. n : stack'[k] = stack[k] /\ open'[k].id = open[k].id
                                /\ open'[k].shared = (open[k].shared \/ open[k].id = id)
        /\ stack'[n + 1] = cur /\ open'[n + 1].id = id
        /\ open'[n + 1].shared = \E k \in 1 .. n : open[k].id = id
    BY <1>1, <1>4, StartEffect DEF Start
  <2>3. \A k \in 1 .. n + 1 : k \in 1 .. n \/ k = n + 1
    BY <1>1
  <2>4. Aligned'
    <3>1. stack'[1] = None
      <4>1. CASE n = 0
        <5>1. open = << >>
          BY <4>1, EmptySeq
        <5> QED
          BY <2>2, <4>1, <5>1 DEF Aligned
      <4>2. CASE n # 0
        <5>1. 1 \in 1 .. n /\ stack # << >>
          BY <1>1, <4>2, EmptySeq
        <5> QED
          BY <2>2, <5>1 DEF Aligned
      <4> QED
        BY <4>1, <4>2
    <3>2. ASSUME NEW k \in 1 .. n + 1
          PROVE  open'[k].id = IF k = n + 1 THEN cur' ELSE stack'[k + 1]
      <4>1. CASE k = n + 1
        BY <2>2, <4>1
      <4>2. CASE k = n /\ k # n + 1
        <5>1. k \in 1 .. n /\ stack'[k + 1] = cur
          BY <2>2, <2>3, <4>2
        <5> QED
          BY <2>2, <4>2, <5>1 DEF Aligned
      <4>3. CASE k # n /\ k # n + 1
        <5>1. k \in 1 .. n /\ k + 1 \in 1 .. n
          BY <1>1, <4>3
        <5>2. stack'[k + 1] = stack[k + 1]
          BY <2>2, <5>1
        <5> QED
          BY <2>2, <4>3, <5>1, <5>2 DEF Aligned
      <4> QED
        BY <4>1, <4>2, <4>3
    <3>3. open' # << >>
      BY <1>1, <2>2, EmptySeq
    <3> QED
      BY <2>2, <3>1, <3>2, <3>3 DEF Aligned
  <2>5. SharedKnown'
    <3> SUFFICES ASSUME NEW j \in 1 .. n + 1, NEW k \in 1 .. n + 1, j # k,
                        open'[j].id = open'[k].id
                 PROVE  open'[j].shared
      BY <2>2 DEF SharedKnown
    <3> HIDE DEF TypeOK
    <3>1. CASE j = n + 1
      BY <2>2, <2>3, <3>1
    <3>2. CASE j # n + 1 /\ k = n + 1
      BY <2>2, <2>3, <3>2
    <3>3. CASE j # n + 1 /\ k # n + 1
      BY <2>2, <2>3, <3>3 DEF SharedKnown
    <3> QED
      BY <3>1, <3>2, <3>3
  <2> QED
    BY <2>1, <2>4, <2>5
<1>5. CASE Wait
  <2>1. TypeOK'
    BY <1>2, <1>5, WaitEffect DEF Wait
  <2>2. Aligned'
    BY <1>1, <1>5, WaitEffect DEF Wait, Aligned
  <2>3. SharedKnown'
    BY <1>1, <1>5, WaitEffect DEF SharedKnown
  <2> QED
    BY <2>1, <2>2, <2>3
<1>6. CASE Close
  <2>1. TypeOK'
    BY <1>2, <1>6, CloseEffect
  <2> DEFINE n == Len(open)
  <2>2. /\ n \in Nat \ {0} /\ Len(stack') = n - 1 /\ Len(open') = n - 1
        /\ \A k \in 1 .. n - 1 : stack'[k] = stack[k] /\ open'[k] = open[k]
        /\ cur' = stack[n] /\ stack # << >>
    BY <1>1, <1>6, CloseEffect
  <2>3. \A k \in 1 .. n - 1 : k \in 1 .. n /\ k # n
    BY <2>2
  <2>4. Aligned'
    <3>1. stack' # << >> => stack'[1] = None
      <4>1. stack' # << >> => 1 \in 1 .. n - 1
        BY <2>1, <2>2, EmptySeq
      <4> QED
        BY <2>2, <4>1 DEF Aligned
    <3>2. ASSUME NEW k \in 1 .. n - 1
          PROVE  open'[k].id = IF k = n - 1 THEN cur' ELSE stack'[k + 1]
      <4>1. open'[k].id = stack[k + 1]
        BY <2>2, <2>3 DEF Aligned
      <4>2. CASE k = n - 1
        <5>1. k + 1 = n
          BY <2>2, <4>2
        <5> QED
          BY <2>2, <4>1, <4>2, <5>1
      <4>3. CASE k # n - 1
        <5>1. k + 1 \in 1 .. n - 1
          BY <2>2, <4>3
        <5> QED
          BY <2>2, <4>1, <4>3, <5>1
      <4> QED
        BY <4>2, <4>3
    <3>3. open' = << >> => cur' = None
      <4>1. open' = << >> => n = 1
        <5> SUFFICES ASSUME open' = << >> PROVE n = 1
          OBVIOUS
        <5>1. Len(open') = 0
          BY EmptySeq
        <5>2. n \in Nat /\ Len(open') = n - 1
          BY <2>2
        <5> HIDE DEF n
        <5> QED
          BY <5>1, <5>2
      <4> QED
        BY <2>2, <4>1 DEF Aligned
    <3> QED
      BY <2>2, <3>1, <3>2, <3>3 DEF Aligned
  <2>5. SharedKnown'
    BY <2>2, <2>3 DEF SharedKnown
  <2> QED
    BY <2>1, <2>4, <2>5
<1> QED
  BY <1>3, <1>4, <1>5, <1>6, EndCloses DEF Next, End

\* The stack, with the innermost segment on top, is what the program has open.
LEMMA NestingImpliesMatch == Nesting => NestingMatches
<1> SUFFICES ASSUME Nesting PROVE NestingMatches
  OBVIOUS
<1> USE DEF Nesting, TypeOK
<1> DEFINE n == Len(open)
           S == Ids \cup {None}
           ids == [k \in 1 .. n |-> open[k].id]
<1>1. n \in Nat /\ DOMAIN open = 1 .. n /\ n = Len(stack)
      /\ \A k \in 1 .. n : open[k] \in Execution
  BY LenProperties, ElementOfSeq DEF Aligned
<1>2. ids \in [1 .. n -> S]
  BY <1>1 DEF Execution
<1>3. ids \in Seq(S) /\ Len(ids) = n
  <2> HIDE DEF ids, n, S
  <2> QED
    BY <1>1, <1>2, FunctionIsSeq
<1>4. <<None>> \in Seq(S) /\ Len(<<None>>) = 1 /\ <<None>>[1] = None
  OBVIOUS
<1>5. /\ <<None>> \o ids \in Seq(S)
      /\ Len(<<None>> \o ids) = n + 1
      /\ \A k \in 1 .. n + 1 : (<<None>> \o ids)[k] =
           IF k <= 1 THEN None ELSE ids[k - 1]
  <2> HIDE DEF ids, n, S
  <2>1. n + 1 = 1 + n
    BY <1>1
  <2> QED
    BY <1>3, <1>4, <2>1, ConcatProperties
<1>6. /\ Append(stack, cur) \in Seq(S)
      /\ Len(Append(stack, cur)) = n + 1
      /\ \A k \in 1 .. n : Append(stack, cur)[k] = stack[k]
      /\ Append(stack, cur)[n + 1] = cur
  BY <1>1, AppendProperties
<1>7. ASSUME NEW k \in 1 .. n + 1
      PROVE  (<<None>> \o ids)[k] = Append(stack, cur)[k]
  <2>1. CASE k = 1 /\ n = 0
    <3>1. cur = None
      BY <2>1, EmptySeq DEF Aligned
    <3> HIDE DEF ids
    <3> QED
      BY <1>5, <1>6, <2>1, <3>1
  <2>2. CASE k = 1 /\ n # 0
    <3>1. stack # << >>
      BY <1>1, <2>2, EmptySeq
    <3>2. stack[1] = None
      BY <3>1 DEF Aligned
    <3> HIDE DEF ids, n
    <3>3. 1 \in 1 .. n /\ 1 \in 1 .. n + 1 /\ 1 <= 1
      BY <1>1, <2>2
    <3> QED
      BY <1>5, <1>6, <2>2, <3>2, <3>3
  <2>3. CASE k # 1
    <3>1. k - 1 \in 1 .. n /\ (k - 1) + 1 = k /\ ~(k <= 1)
      BY <1>1, <2>3
    <3>2. ids[k - 1] = IF k = n + 1 THEN cur ELSE stack[k]
      <4>1. ids[k - 1] = open[k - 1].id
        BY <3>1
      <4>2. k - 1 = n <=> k = n + 1
        BY <1>1
      <4> QED
        BY <3>1, <4>1, <4>2 DEF Aligned
    <3>3. k # n + 1 => k \in 1 .. n
      BY <1>1
    <3> HIDE DEF ids
    <3> QED
      BY <1>5, <1>6, <3>1, <3>2, <3>3
  <2> QED
    BY <2>1, <2>2, <2>3
<1>8. <<None>> \o ids = Append(stack, cur)
  <2> HIDE DEF ids, n, S
  <2> QED
    BY <1>5, <1>6, <1>7, SeqEqual
<1> QED
  BY <1>1, <1>8 DEF NestingMatches

\* After any nesting, waiting and ending, also of a segment inside another one
\* of its id, the end of a segment returns to the segment around it.
THEOREM NestingMatchesHolds == Spec => []NestingMatches
BY NestingInit, NestingStep, NestingImpliesMatch, PTL DEF Spec

\* Type correctness of the segments.
THEOREM TypeCorrect == Spec => []TypeOK
<1>1. Nesting => TypeOK
  BY DEF Nesting
<1> QED
  BY <1>1, NestingInit, NestingStep, PTL DEF Spec

-----------------------------------------------------------------------------
(* Waits and windows.                                                      *)

\* has_waiter is set by a wait only, and a wait is paid for until the window is
\* adjusted.
FlagPaid == \A i \in Ids : has_waiter[i] => i \in paid

\* The end of a segment that shared its id with none leaves no open execution
\* of that id.
LEMMA OtherIds ==
  ASSUME Nesting, NEW k \in 1 .. Len(open) - 1, ~open[k].shared
  PROVE  open[k].id # cur /\ open[k].id \in Ids
<1> DEFINE n == Len(open)
<1>1. n \in Nat /\ \A j \in 1 .. n : open[j] \in Execution
  BY LenProperties, ElementOfSeq DEF Nesting, TypeOK
<1>2. k \in 1 .. n /\ n \in 1 .. n /\ k # n
  BY <1>1
<1>3. open[n].id = cur
  BY <1>2 DEF Nesting, Aligned
<1> QED
  BY <1>1, <1>2, <1>3 DEF Nesting, SharedKnown, Execution

\* Of the steps that end a segment, those that adjust the window clear its flag
\* and no other's.
LEMMA EndsClear ==
  ASSUME TypeOK, End
  PROVE  /\ \A i \in Ids : i # cur => has_waiter'[i] = has_waiter[i]
         /\ \A i \in Ids : has_waiter'[i] => has_waiter[i]
         /\ \A i \in Ids : i \in paid /\ i \notin paid' => ~has_waiter'[i]
<1> USE DEF TypeOK, windows
<1>1. CASE EndQuiet \/ EndFast
  BY <1>1 DEF EndQuiet, EndFast
<1>2. ASSUME NEW id \in Ids, EndLate(id) \/ EndInTime(id)
      PROVE  /\ cur \in Ids /\ has_waiter' = [has_waiter EXCEPT ![cur] = FALSE]
             /\ paid' = paid \ {cur}
  BY <1>2 DEF EndLate, EndInTime, Adjust
<1> QED
  BY <1>1, <1>2 DEF End

LEMMA FlagPaidStep == TypeOK /\ FlagPaid /\ [Next]_vars => FlagPaid'
<1> SUFFICES ASSUME TypeOK, FlagPaid, [Next]_vars PROVE FlagPaid'
  OBVIOUS
<1> USE DEF TypeOK, FlagPaid
<1>1. CASE UNCHANGED vars
  BY <1>1 DEF vars, windows
<1>2. ASSUME NEW id \in Ids, Start(id) PROVE FlagPaid'
  BY <1>2 DEF Start, windows
<1>3. CASE Wait
  BY <1>3 DEF Wait
<1>4. CASE End
  BY <1>4, EndsClear
<1> QED
  BY <1>1, <1>2, <1>3, <1>4 DEF Next, End

LEMMA WaitsStep == Nesting /\ WaitsAreSeen /\ [Next]_vars => WaitsAreSeen'
<1> SUFFICES ASSUME Nesting, WaitsAreSeen, [Next]_vars PROVE WaitsAreSeen'
  OBVIOUS
<1> DEFINE n == Len(open)
<1>1. /\ n \in Nat /\ DOMAIN open = 1 .. n /\ \A k \in 1 .. n : open[k] \in Execution
  BY LenProperties, ElementOfSeq DEF Nesting, TypeOK
<1>2. open' \in Seq(Execution) /\ DOMAIN open' = 1 .. Len(open')
  <2>1. TypeOK'
    BY NestingStep DEF Nesting
  <2> QED
    BY <2>1, LenProperties DEF TypeOK
<1>3. ASSUME NEW k \in 1 .. Len(open'), open'[k].waited, ~open'[k].shared
      PROVE  has_waiter'[open'[k].id]
  <2>1. CASE UNCHANGED vars
    BY <1>1, <1>3, <2>1 DEF vars, windows, WaitsAreSeen
  <2>2. ASSUME NEW id \in Ids, Start(id) PROVE has_waiter'[open'[k].id]
    <3>1. k \in 1 .. n
      <4>1. Len(open') = n + 1 /\ ~open'[n + 1].waited
        BY <2>2, StartEffect DEF Nesting
      <4>2. k # n + 1
        BY <1>3, <4>1
      <4> QED
        BY <1>1, <4>1, <4>2
    <3>2. /\ open[k].id = open'[k].id /\ open[k].waited /\ ~open[k].shared
          /\ has_waiter' = has_waiter
      <4>1. open'[k].id = open[k].id /\ open'[k].waited = open[k].waited
            /\ (open[k].shared => open'[k].shared)
        BY <2>2, <3>1, StartEffect DEF Nesting
      <4>2. has_waiter' = has_waiter
        BY <2>2 DEF Start, windows
      <4> QED
        BY <1>3, <4>1, <4>2
    <3> QED
      BY <1>1, <3>1, <3>2 DEF WaitsAreSeen
  <2>3. CASE Wait
    <3>1. has_waiter' = [has_waiter EXCEPT ![cur] = TRUE] /\ cur \in Ids
      BY <2>3 DEF Wait, Nesting, TypeOK
    <3>2. k \in 1 .. n /\ open'[k].id = open[k].id /\ open'[k].shared = open[k].shared
      BY <2>3, WaitEffect DEF Nesting
    <3>3. CASE k = n
      <4>1. open[k].id = cur
        BY <2>3, <3>3, WaitEffect DEF Nesting
      <4> QED
        BY <3>1, <3>2, <4>1 DEF Nesting, TypeOK
    <3>4. CASE k # n
      <4>1. k \in 1 .. n - 1
        BY <1>1, <3>2, <3>4
      <4>2. open'[k] = open[k]
        BY <2>3, <4>1, WaitEffect DEF Nesting
      <4>3. has_waiter[open[k].id] /\ open[k].id \in Ids
        BY <1>1, <1>3, <3>2, <4>2 DEF WaitsAreSeen, Execution
      <4> QED
        BY <3>1, <4>2, <4>3 DEF Nesting, TypeOK
    <3> QED
      BY <3>3, <3>4
  <2>4. CASE End
    <3>1. k \in 1 .. n - 1 /\ open'[k] = open[k]
      BY <1>3, <2>4, EndCloses, CloseEffect DEF Nesting
    <3>2. open[k].id # cur /\ open[k].id \in Ids
      BY <1>3, <3>1, OtherIds
    <3>3. has_waiter[open[k].id]
      <4>1. k \in DOMAIN open
        BY <1>1, <3>1
      <4> QED
        BY <1>3, <3>1, <4>1 DEF WaitsAreSeen
    <3> QED
      BY <2>4, <3>1, <3>2, <3>3, EndsClear DEF Nesting
  <2> QED
    BY <2>1, <2>2, <2>3, <2>4 DEF Next, End
<1> QED
  BY <1>2, <1>3 DEF WaitsAreSeen

\* The end of an execution sees the waits of it, unless another of the same id
\* was open and could take the flag.
THEOREM WaitsAreSeenHolds == Spec => []WaitsAreSeen
<1>1. Init => WaitsAreSeen
  BY DEF Init, WaitsAreSeen
<1> QED
  BY <1>1, NestingInit, NestingStep, WaitsStep, PTL DEF Spec

\* What a step does to the windows and units.
LEMMA WindowsStep ==
  ASSUME TypeOK, [Next]_vars
  PROVE  \/ UNCHANGED <<wait_time, unit>>
         \/ cur \in Ids /\ wait_time' = [wait_time EXCEPT ![cur] = MIN_REORDER]
            /\ unit' = unit
         \/ /\ cur \in Ids /\ has_waiter[cur]
            /\ \E w, u \in Nat :
                 /\ wait_time' = [wait_time EXCEPT ![cur] = w]
                 /\ unit' = [unit EXCEPT ![cur] = u]
                 /\ w >= MIN_REORDER
                 /\ \/ u >= MIN_ADJUST_UNIT
                    \/ u = unit[cur] /\ w \in {wait_time[cur] + u, MIN_REORDER}
<1> USE WindowAssumption DEF TypeOK
<1>1. CASE UNCHANGED vars
  BY <1>1 DEF vars, windows
<1>2. CASE Wait \/ EndQuiet \/ \E id \in Ids : Start(id)
  BY <1>2 DEF Wait, EndQuiet, Start, windows
<1>3. CASE EndFast
  BY <1>3 DEF EndFast
<1>4. ASSUME NEW id \in Ids, EndLate(id)
      PROVE  /\ cur \in Ids /\ has_waiter[cur]
             /\ \E w, u \in Nat :
                 /\ wait_time' = [wait_time EXCEPT ![cur] = w]
                 /\ unit' = [unit EXCEPT ![cur] = u]
                 /\ w >= MIN_REORDER /\ u >= MIN_ADJUST_UNIT
  <2>1. cur \in Ids /\ has_waiter[cur]
    BY <1>4 DEF EndLate
  <2> DEFINE h == wait_time[cur] \div 2
             w == Max({h, MIN_REORDER})
             u == Max({h \div UnitDivisor, MIN_ADJUST_UNIT})
  <2>2. h \in Nat
    BY <2>1, Halving
  <2>3. h \div UnitDivisor \in Nat
    <3> HIDE DEF h
    <3> QED
      BY <2>2, Halving
  <2>4. w \in Nat /\ u \in Nat /\ w >= MIN_REORDER /\ u >= MIN_ADJUST_UNIT
    <3> HIDE DEF h
    <3> QED
      BY <2>2, <2>3, MaxOfTwo
  <2>5. wait_time' = [wait_time EXCEPT ![cur] = w] /\ unit' = [unit EXCEPT ![cur] = u]
    BY <1>4 DEF EndLate, Adjust
  <2> HIDE DEF w, u
  <2> QED
    BY <2>1, <2>4, <2>5
<1>5. ASSUME NEW id \in Ids, EndInTime(id)
      PROVE  /\ cur \in Ids /\ has_waiter[cur]
             /\ \E w, u \in Nat :
                 /\ wait_time' = [wait_time EXCEPT ![cur] = w]
                 /\ unit' = [unit EXCEPT ![cur] = u]
                 /\ w >= MIN_REORDER /\ u = unit[cur]
                 /\ w \in {wait_time[cur] + u, MIN_REORDER}
  <2>1. cur \in Ids /\ has_waiter[cur]
    BY <1>5 DEF EndInTime
  <2> DEFINE g == wait_time[cur] + unit[cur]
             w == Max({g, MIN_REORDER})
  <2>2. g \in Nat /\ unit[cur] \in Nat
    BY <2>1
  <2>3. w \in Nat /\ w >= MIN_REORDER /\ w \in {g, MIN_REORDER}
    <3> HIDE DEF g
    <3> QED
      BY <2>2, MaxOfTwo
  <2>4. wait_time' = [wait_time EXCEPT ![cur] = w]
        /\ unit' = [unit EXCEPT ![cur] = unit[cur]]
    BY <1>5 DEF EndInTime, Adjust
  <2> HIDE DEF w
  <2> QED
    BY <2>1, <2>2, <2>3, <2>4
<1> QED
  BY <1>1, <1>2, <1>3, <1>4, <1>5 DEF Next

\* No window shrinks below the smallest one, and every window can grow again,
\* but for those of a thread that was not given its defaults.
THEOREM WindowsUsableHolds == Spec => []WindowsUsable
<1> USE WindowAssumption
<1>1. Init => WindowsUsable
  BY DEF Init, WindowsUsable
<1>2. Nesting /\ WindowsUsable /\ [Next]_vars => WindowsUsable'
  <2> SUFFICES ASSUME Nesting, WindowsUsable, [Next]_vars PROVE WindowsUsable'
    OBVIOUS
  <2>1. TypeOK /\ wrapped' = wrapped
    BY WindowTypes DEF Nesting
  <2> QED
    BY <2>1, WindowsStep DEF TypeOK, WindowsUsable
<1> QED
  BY <1>1, <1>2, NestingInit, NestingStep, PTL DEF Spec

\* No window is adjusted that nobody has waited for since it was adjusted last.
THEOREM AdjustmentPaidHolds == Spec => AdjustmentPaid
<1>1. Init => FlagPaid
  BY DEF Init, FlagPaid
<1>2. Nesting /\ FlagPaid /\ [Next]_vars =>
        [\A i \in Ids :
           (wait_time'[i] # wait_time[i] /\ wait_time'[i] # MIN_REORDER)
           \/ unit'[i] # unit[i]
             => i \in paid]_vars
  BY WindowsStep DEF Nesting, TypeOK, FlagPaid
<1>3. Nesting /\ FlagPaid /\ [Next]_vars => FlagPaid'
  BY FlagPaidStep DEF Nesting
<1> QED
  BY <1>1, <1>2, <1>3, NestingInit, NestingStep, PTL DEF Spec, AdjustmentPaid

=============================================================================
