------------------------------- MODULE Since -------------------------------
(***************************************************************************)
(* The loop that CompileExprImpl::ST emits for the past operators: since   *)
(* and its dual (trigger), strong and weak, with or without a time window. *)
(*                                                                         *)
(* The window is [now - hi, now - lo).  ST tests the lower end when lo is  *)
(* given and the upper one when hi is: with only one of the two the other  *)
(* is a null llvm::Value* and emitting the loop fails.                     *)
(***************************************************************************)
EXTENDS Trace

VARIABLES
  call,    \* the arguments, fixed
  pc,      \* the block to run; "emit" while the compiler emits the loop
  curr,    \* the PHI nodes of the block "while"
  prev,
  result   \* the PHI node of the block "tail"; None before the loop is left

vars == <<call, pc, curr, prev, result>>

Calls == CallsOf(PastOps)

Blocks == {"emit", "crash", "while", "outer", "inner", "rhs", "lhs", "prev", "tail"}

TypeOK ==
  /\ call \in Calls
  /\ pc \in Blocks
  /\ curr \in 0..N
  /\ prev \in (-1)..(N - 1)
  /\ result \in BOOLEAN \cup {None}

Init ==
  /\ call \in Calls
  /\ pc = "emit"
  /\ curr = call.start
  /\ prev = call.start - 1
  /\ result = None

----------------------------------------------------------------------------
Goto(block) == pc' = block /\ UNCHANGED <<call, curr, prev, result>>

Leave(value) == pc' = "tail" /\ result' = value /\ UNCHANGED <<call, curr, prev>>

timeHi == Now(call) - call.lo
timeLo == Now(call) - call.hi

OneSided == (call.lo = None) # (call.hi = None)

Emit ==
  /\ pc = "emit"
  /\ \/ OneSided /\ Goto("crash")
     \/ ~OneSided /\ Goto("while")

(* Slips to test the properties with: the loop bound off by one, the empty *)
(* interval let in, the row never left.                                    *)
WhileOneMore ==
  /\ pc = "while"
  /\ \/ -1 <= prev /\ Goto("outer")
     \/ -1 > prev /\ Leave(EndV(call.op))

InnerEmptyToo ==
  LET lo == Later(call.time[prev], timeLo)
      hi == Earlier(timeHi, call.time[curr])
  IN  /\ pc = "inner"
      /\ Goto(IF lo <= hi THEN "rhs" ELSE "prev")

RetreatNowhere == pc = "prev" /\ Goto("while")

While ==
  /\ pc = "while"
  /\ \/ 0 <= prev /\ Goto("outer")
     \/ 0 > prev /\ Leave(EndV(call.op))

(* Without a window the interval of the row is never looked at. *)
Outer ==
  /\ pc = "outer"
  /\ \/ Bounded(call) /\ timeLo <= call.time[curr] /\ Goto("inner")
     \/ Bounded(call) /\ timeLo > call.time[curr] /\ Leave(EndV(call.op))
     \/ ~Bounded(call) /\ Goto("rhs")

Inner ==
  LET lo == Later(call.time[prev], timeLo)
      hi == Earlier(timeHi, call.time[curr])
  IN  /\ pc = "inner"
      /\ Goto(IF lo < hi THEN "rhs" ELSE "prev")

Rhs ==
  /\ pc = "rhs"
  /\ IF call.rhs[curr] = RhsV(call.op) THEN Leave(RhsV(call.op)) ELSE Goto("lhs")

Lhs ==
  /\ pc = "lhs"
  /\ IF call.lhs[curr] = LhsV(call.op) THEN Leave(LhsV(call.op)) ELSE Goto("prev")

Retreat ==
  /\ pc = "prev"
  /\ pc' = "while"
  /\ curr' = prev
  /\ prev' = prev - 1
  /\ UNCHANGED <<call, result>>

Next == Emit \/ While \/ Outer \/ Inner \/ Rhs \/ Lhs \/ Retreat

Spec == Init /\ [][Next]_vars

(* The emitted code runs on its own thread of control until it returns. *)
FairSpec == Spec /\ WF_vars(Next)

----------------------------------------------------------------------------
(* The loop reads time stamps from *frst on, and evaluates its operands on *)
(* data rows only.  A segment without data rows (start = N) is the         *)
(* exception: there ST evaluates the row *last itself.                     *)
InsideSegment ==
  /\ TypeOK
  /\ pc \in {"outer", "inner"} => 0 <= prev
  /\ pc \in {"rhs", "lhs"} => curr \in 1..N /\ (curr = N => call.start = N)

(* Every row the loop has passed was outside the window or undecided. *)
PassedUndecided ==
  \A i \in (curr + 1)..call.start :
    i \in Visible(call) =>
      call.rhs[i] # RhsV(call.op) /\ call.lhs[i] # LhsV(call.op)

(* The answer is what the formula means: the truth value over the instants *)
(* of the window in the past, each of which sees the row that ends its     *)
(* interval; over the rows when the formula has no window.                 *)
Correct == pc = "tail" => result = Meaning(call)

(* The loop answers at most once, and only with the meaning. *)
Promise == INSTANCE Answer WITH Meant <- Meaning, Pending <- None, answer <- result

Implements == Promise!Spec

(* Every evaluation of emitted code ends, for every trace and window. *)
Terminates == <>(pc \in {"tail", "crash"})

(* The grammar takes a bound with one end missing for every operator that  *)
(* takes a bound (referee.g4, rules TimeUpper and TimeLower), so a past    *)
(* formula with such a bound compiles.                                     *)
OneSidedBoundCompiles == pc # "crash"
============================================================================
