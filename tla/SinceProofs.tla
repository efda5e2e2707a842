---------------------------- MODULE SinceProofs ----------------------------
(***************************************************************************)
(* Proofs about the loop of the past operators, for every number of rows,  *)
(* every set of time stamps, bounds and operand values.  The argument is   *)
(* the one for the future operators, seen backwards: the rows from curr+1  *)
(* up to the start are outside the window or undecided.                    *)
(***************************************************************************)
EXTENDS Since, TraceProofs

(* What holds at each block of the loop. *)
AtBlock ==
  /\ prev = curr - 1
  /\ curr <= call.start
  /\ pc = "emit" => 1 <= curr
  /\ pc \in {"outer", "inner", "rhs", "lhs", "prev"} => 0 <= prev
  /\ pc \notin {"emit", "crash"} => ~OneSided
  /\ pc = "inner" => Bounded(call)
  /\ pc \in {"rhs", "lhs"} => curr \in Visible(call)
  /\ pc = "lhs" => call.rhs[curr] # RhsV(call.op)
  /\ pc = "prev" /\ curr \in Visible(call) => Undecided(call, curr)
  /\ pc # "tail" => result = None
  /\ pc = "tail" => result = MeaningRows(call, Visible(call))

IInv == TypeOK /\ PassedUndecided /\ AtBlock

----------------------------------------------------------------------------
(* What a state's types say about the call's fields. *)
LEMMA CallTypes ==
  ASSUME TypeOK
  PROVE  /\ call \in CallsOf(AllOps)
         /\ call.op \in PastOps
         /\ N \in Nat \ {0}
         /\ Reach(call) = 1..call.start
         /\ Visible(call) \subseteq Reach(call)
<1>1. call \in [op : PastOps, lhs : Operands, rhs : Operands, lo : Bounds, hi : Bounds,
                time : Traces, start : 1..N]
  BY DEF TypeOK, Calls, CallsOf
<1>2. call.op \in PastOps
  BY <1>1
<1>3. call \in CallsOf(AllOps)
  BY <1>1 DEF CallsOf, AllOps
<1> QED BY <1>2, <1>3, TraceAssumption DEF Reach, Visible

(* The comparison lo < hi of the block "inner" finds out whether the row   *)
(* has an instant in the window.                                           *)
LEMMA InnerVisible ==
  ASSUME TypeOK, NEW i \in Reach(call), Bounded(call), ~OneSided
  PROVE  i \in Visible(call) <=>
           Later(call.time[i - 1], timeLo) < Earlier(timeHi, call.time[i])
<1> DEFINE lo == Later(call.time[i - 1], timeLo)
           hi == Earlier(timeHi, call.time[i])
<1>1. /\ i \in Row /\ i - 1 \in Row
      /\ call.time[i] \in Int /\ call.time[i - 1] \in Int /\ Now(call) \in Int
      /\ call.lo # None /\ call.lo \in Int
      /\ call.hi # None /\ call.hi \in Int
      /\ call.op \in PastOps
  <2>1. i \in Row /\ i - 1 \in Row
    BY CallTypes, CallFields DEF Row
  <2> QED BY <2>1, CallTypes, CallFields DEF Bounded, OneSided
<1>2. lo \in Int /\ hi \in Int
  BY <1>1 DEF timeLo, timeHi, Later, Earlier
<1>3. Instants(call, i) = {t \in Int : lo <= t /\ t < hi}
  BY <1>1 DEF Instants, Covered, InWindow, timeLo, timeHi, Later, Earlier
<1>4. i \in Visible(call) <=> Instants(call, i) # {}
  BY DEF Visible
<1>5. lo < hi => lo \in Instants(call, i)
  BY <1>2, <1>3
<1> HIDE DEF lo, hi
<1>6. Instants(call, i) # {} => lo < hi
  BY <1>2, <1>3
<1> QED BY <1>4, <1>5, <1>6 DEF lo, hi

(* Before the window's start nothing is visible any more. *)
LEMMA BeyondWindow ==
  ASSUME TypeOK, Bounded(call), ~OneSided, NEW k \in Reach(call), timeLo > call.time[k],
         NEW i \in Visible(call)
  PROVE  k < i
<1>1. i \in Reach(call) /\ call.op \in PastOps /\ call.hi # None
  BY CallTypes DEF Bounded, OneSided
<1>2. PICK t \in Instants(call, i) : TRUE
  BY <1>1 DEF Visible
<1>3. i \in Row /\ i - 1 \in Row /\ k \in Row
  BY <1>1, CallTypes, CallFields DEF Row
<1>4. call.time[i] \in Int /\ call.time[i - 1] \in Int /\ call.time[k] \in Int /\ timeLo \in Int
  BY <1>1, <1>3, CallTypes, CallFields DEF timeLo
<1>5. t < call.time[i] /\ timeLo <= t /\ t \in Int
  BY <1>1, <1>2, <1>3, <1>4 DEF Instants, Covered, InWindow, timeLo
<1>6. i <= k => call.time[i] <= call.time[k]
  BY <1>3, CallTypes, CallFields
<1> QED BY <1>3, <1>4, <1>5, <1>6 DEF Row

(* Leaving the loop because nothing visible is left. *)
LEMMA Exhausted ==
  ASSUME IInv, pc \in {"while", "outer"},
         \A i \in Visible(call) : curr < i
  PROVE  MeaningRows(call, Visible(call)) = EndV(call.op)
<1>1. Visible(call) \in SUBSET Row /\ curr \in Int /\ call.start \in Int
  BY CallTypes, CallFields DEF IInv, TypeOK, Row
<1>2. \A i \in Visible(call) : i \in (curr + 1)..call.start
  BY <1>1, CallTypes, CallFields DEF IInv, Row
<1>3. \A i \in Visible(call) : Undecided(call, i)
  BY <1>2 DEF IInv, PassedUndecided, Undecided
<1> QED BY <1>1, <1>3, NoDecision, CallTypes DEF IInv

(* Leaving the loop because the row in hand decides. *)
LEMMA Decided ==
  ASSUME IInv, pc \in {"rhs", "lhs"}
  PROVE  /\ call.rhs[curr] = RhsV(call.op) => MeaningRows(call, Visible(call)) = RhsV(call.op)
         /\ call.rhs[curr] # RhsV(call.op) /\ call.lhs[curr] = LhsV(call.op)
              => MeaningRows(call, Visible(call)) = LhsV(call.op)
<1>1. Visible(call) \in SUBSET Row /\ curr \in Visible(call)
  BY CallTypes, CallFields DEF IInv, AtBlock, Row
<1>2. \A j \in Visible(call) : Nearer(call, j, curr) => j \in (curr + 1)..call.start
  BY <1>1, CallTypes, CallFields DEF IInv, Nearer, Row
<1>3. \A j \in Visible(call) : Nearer(call, j, curr) => Undecided(call, j)
  BY <1>2 DEF IInv, PassedUndecided, Undecided
<1> QED BY <1>1, <1>3, Decision, CallTypes DEF IInv

LEMMA InitIInv == Init => IInv
<1> SUFFICES ASSUME Init PROVE IInv
  OBVIOUS
<1>1. call \in Calls
  BY DEF Init
<1>2. call.start \in 1..N
  BY <1>1, TraceAssumption DEF Calls, CallsOf
<1>3. TypeOK
  BY <1>1, <1>2, TraceAssumption DEF Init, TypeOK, Blocks
<1>4. PassedUndecided
  BY <1>2, TraceAssumption DEF Init, PassedUndecided
<1>5. AtBlock
  BY <1>2, TraceAssumption DEF Init, AtBlock
<1> QED BY <1>3, <1>4, <1>5 DEF IInv

LEMMA StepIInv == IInv /\ [Next]_vars => IInv'
<1> SUFFICES ASSUME IInv, [Next]_vars PROVE IInv'
  OBVIOUS
<1> USE DEF Goto, Leave
<1>0. /\ TypeOK /\ curr \in 0..N /\ prev = curr - 1 /\ N \in Nat \ {0}
      /\ call.start \in 1..N /\ curr <= call.start
  BY CallTypes, CallFields DEF IInv, TypeOK, AtBlock
<1>1. CASE Emit
  BY <1>0, <1>1 DEF Emit, IInv, TypeOK, Blocks, PassedUndecided, AtBlock, OneSided
<1>2. CASE While
  <2>1. CASE 0 <= prev /\ Goto("outer")
    BY <1>0, <1>2, <2>1 DEF While, IInv, TypeOK, Blocks, PassedUndecided, AtBlock, OneSided
  <2>2. CASE 0 > prev /\ Leave(EndV(call.op))
    <3>1. \A i \in Visible(call) : curr < i
      BY <1>0, <2>2, CallTypes
    <3>2. result' = MeaningRows(call, Visible(call)) /\ result' \in BOOLEAN
      BY <1>2, <2>2, <3>1, Exhausted DEF While, EndV
    <3> QED
      BY <1>0, <1>2, <2>2, <3>2
         DEF While, IInv, TypeOK, Blocks, PassedUndecided, AtBlock, OneSided
  <2> QED BY <1>2, <2>1, <2>2 DEF While
<1>3. CASE Outer
  <2>0. curr \in Reach(call) /\ ~OneSided
    BY <1>0, <1>3, CallTypes DEF Outer, IInv, AtBlock
  <2>1. CASE Bounded(call) /\ timeLo <= call.time[curr] /\ Goto("inner")
    BY <1>0, <1>3, <2>1
       DEF Outer, IInv, TypeOK, Blocks, PassedUndecided, AtBlock, OneSided, Bounded
  <2>2. CASE Bounded(call) /\ timeLo > call.time[curr] /\ Leave(EndV(call.op))
    <3>1. \A i \in Visible(call) : curr < i
      BY <1>0, <2>0, <2>2, BeyondWindow
    <3>2. result' = MeaningRows(call, Visible(call)) /\ result' \in BOOLEAN
      BY <1>3, <2>2, <3>1, Exhausted DEF Outer, EndV
    <3> QED
      BY <1>0, <1>3, <2>2, <3>2
         DEF Outer, IInv, TypeOK, Blocks, PassedUndecided, AtBlock, OneSided
  <2>3. CASE ~Bounded(call) /\ Goto("rhs")
    <3>1. curr \in Visible(call)
      BY <2>0, <2>3 DEF Visible
    <3> QED
      BY <1>0, <1>3, <2>3, <3>1
         DEF Outer, IInv, TypeOK, Blocks, PassedUndecided, AtBlock, OneSided
  <2> QED BY <1>3, <2>1, <2>2, <2>3 DEF Outer
<1>4. CASE Inner
  <2> DEFINE lo == Later(call.time[prev], timeLo)
             hi == Earlier(timeHi, call.time[curr])
  <2>1. curr \in Reach(call) /\ Bounded(call) /\ ~OneSided
    BY <1>0, <1>4, CallTypes DEF Inner, IInv, AtBlock
  <2>2. curr \in Visible(call) <=> lo < hi
    BY <1>0, <2>1, InnerVisible
  <2>3. pc = "inner" /\ Goto(IF lo < hi THEN "rhs" ELSE "prev")
    BY <1>4 DEF Inner
  <2> HIDE DEF lo, hi
  <2> QED
    BY <1>0, <2>1, <2>2, <2>3 DEF IInv, TypeOK, Blocks, PassedUndecided, AtBlock, OneSided
<1>5. CASE Rhs
  <2>1. CASE call.rhs[curr] = RhsV(call.op)
    <3>1. result' = MeaningRows(call, Visible(call)) /\ result' \in BOOLEAN
      BY <1>5, <2>1, Decided DEF Rhs, RhsV
    <3> QED
      BY <1>0, <1>5, <2>1, <3>1
         DEF Rhs, IInv, TypeOK, Blocks, PassedUndecided, AtBlock, OneSided
  <2>2. CASE call.rhs[curr] # RhsV(call.op)
    BY <1>0, <1>5, <2>2 DEF Rhs, IInv, TypeOK, Blocks, PassedUndecided, AtBlock, OneSided
  <2> QED BY <2>1, <2>2
<1>6. CASE Lhs
  <2>1. CASE call.lhs[curr] = LhsV(call.op)
    <3>1. result' = MeaningRows(call, Visible(call)) /\ result' \in BOOLEAN
      BY <1>6, <2>1, Decided DEF Lhs, LhsV, IInv, AtBlock
    <3> QED
      BY <1>0, <1>6, <2>1, <3>1
         DEF Lhs, IInv, TypeOK, Blocks, PassedUndecided, AtBlock, OneSided
  <2>2. CASE call.lhs[curr] # LhsV(call.op)
    BY <1>0, <1>6, <2>2
       DEF Lhs, IInv, TypeOK, Blocks, PassedUndecided, AtBlock, Undecided, OneSided
  <2> QED BY <2>1, <2>2
<1>7. CASE Retreat
  <2>1. TypeOK' /\ AtBlock'
    BY <1>0, <1>7 DEF Retreat, IInv, TypeOK, Blocks, AtBlock, OneSided
  <2>2. curr \in Visible(call) => Undecided(call, curr)
    BY <1>7 DEF Retreat, IInv, AtBlock
  <2>3. \A i \in (curr' + 1)..call.start : i \in (curr + 1)..call.start \/ i = curr
    BY <1>0, <1>7 DEF Retreat
  <2>4. PassedUndecided'
    BY <1>7, <2>2, <2>3 DEF Retreat, IInv, PassedUndecided, Undecided
  <2> QED BY <2>1, <2>4 DEF IInv
<1>8. CASE UNCHANGED vars
  BY <1>8 DEF vars, IInv, TypeOK, PassedUndecided, AtBlock, OneSided
<1> QED BY <1>1, <1>2, <1>3, <1>4, <1>5, <1>6, <1>7, <1>8 DEF Next

LEMMA Invariance == Spec => []IInv
BY InitIInv, StepIInv, PTL DEF Spec

(* No evaluation looks in front of *frst, and only an evaluation that      *)
(* starts at *last looks at *last.                                         *)
THEOREM StaysInside == Spec => []InsideSegment
<1>1. IInv => InsideSegment
  <2> SUFFICES ASSUME IInv PROVE InsideSegment
    OBVIOUS
  <2>1. call.start \in 1..N /\ N \in Nat \ {0}
    BY CallTypes, CallFields DEF IInv
  <2> QED BY <2>1 DEF IInv, TypeOK, AtBlock, InsideSegment
<1> QED BY <1>1, Invariance, PTL

(* The loop returns the truth value of the past formula over the instants  *)
(* of its window, or over the rows up to now when it has no window, for    *)
(* traces of any length, with any time stamps that do not decrease.        *)
THEOREM Correctness == Spec => []Correct
<1>1. IInv => Correct
  <2> SUFFICES ASSUME IInv PROVE Correct
    OBVIOUS
  <2> QED BY CallTypes, MeaningIsRows DEF IInv, AtBlock, Correct
<1> QED BY <1>1, Invariance, PTL

(* Since implements Answer: at most one answer, never revised, equal to    *)
(* the meaning of the call.                                                *)
THEOREM Refinement == Spec => Implements
<1>1. Init => Promise!Init
  BY DEF Init, Promise!Init
<1>2. IInv /\ IInv' /\ [Next]_vars => [Promise!Return]_(Promise!avars)
  <2> SUFFICES ASSUME IInv, IInv', [Next]_vars,
                      result' # result \/ call' # call
               PROVE  Promise!Return
    BY DEF Promise!avars
  <2>1. call' = call /\ pc' = "tail" /\ pc # "tail"
    BY DEF Next, vars, Emit, While, Outer, Inner, Rhs, Lhs, Retreat, Goto, Leave
  <2>2. result = None /\ result' = MeaningRows(call', Visible(call'))
    BY <2>1 DEF IInv, AtBlock, Visible
  <2>3. result' = Meaning(call)
    BY <2>1, <2>2, CallTypes, MeaningIsRows DEF IInv
  <2> QED BY <2>1, <2>2, <2>3 DEF Promise!Return
<1> QED BY <1>1, <1>2, Invariance, PTL DEF Spec, Implements, Promise!Spec

----------------------------------------------------------------------------
(* The blocks of one turn, from the last to the first. *)
BlocksLeft ==
  CASE pc = "emit" -> 7
    [] pc = "while" -> 6 [] pc = "outer" -> 5 [] pc = "inner" -> 4
    [] pc = "rhs"   -> 3 [] pc = "lhs"   -> 2 [] pc = "prev"  -> 1

StepsLeft == IF pc \in {"tail", "crash"} THEN 0 ELSE 6 * curr + BlocksLeft

(* No evaluation runs for ever: every block brings it closer to its end,   *)
(* and there are 6 * N + 7 of them at most, whatever the times, the window *)
(* and the operands.                                                       *)
THEOREM EndsSoon == Spec => [](StepsLeft \in 0..(6 * N + 7)) /\ [][StepsLeft' < StepsLeft]_vars
<1>1. IInv => StepsLeft \in 0..(6 * N + 7)
  <2> SUFFICES ASSUME IInv PROVE StepsLeft \in 0..(6 * N + 7)
    OBVIOUS
  <2>1. N \in Nat /\ curr \in 0..N /\ pc \in Blocks
    BY TraceAssumption DEF IInv, TypeOK
  <2> QED BY <2>1 DEF StepsLeft, BlocksLeft, Blocks
<1>2. IInv /\ IInv' /\ [Next]_vars => [StepsLeft' < StepsLeft]_vars
  <2> SUFFICES ASSUME IInv, IInv', Next PROVE StepsLeft' < StepsLeft
    OBVIOUS
  <2>1. N \in Nat /\ curr \in 0..N /\ prev = curr - 1 /\ curr' \in 0..N
    BY TraceAssumption DEF IInv, TypeOK, AtBlock
  <2> QED BY <2>1 DEF Next, Emit, While, Outer, Inner, Rhs, Lhs, Retreat, Goto, Leave, StepsLeft, BlocksLeft
<1> QED BY <1>1, <1>2, Invariance, PTL DEF Spec
=============================================================================
