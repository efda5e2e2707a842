------------------------------- MODULE Until -------------------------------
(***************************************************************************)
(* The loop that CompileExprImpl::UR emits for the future operators: until *)
(* and release, strong and weak, with or without a time window.  One       *)
(* action per basic block of the emitted code; pc names the block that     *)
(* runs next.                                                              *)
(*                                                                         *)
(* UR is called with the operand values that decide: the block rhs leaves  *)
(* the loop with rhsV when rhs = rhsV, the block lhs with lhsV when        *)
(* lhs = lhsV, and running out of rows or of the window gives endV.        *)
(***************************************************************************)
EXTENDS Trace

VARIABLES
  call,    \* the arguments, fixed
  pc,      \* the block to run
  curr,    \* the PHI nodes of the block "while"
  next,
  result   \* the PHI node of the block "tail"; None before the loop is left

vars == <<call, pc, curr, next, result>>

Calls == CallsOf(FutureOps)

Blocks == {"while", "outer", "inner", "rhs", "lhs", "next", "tail"}

TypeOK ==
  /\ call \in Calls
  /\ pc \in Blocks
  /\ curr \in 1..(N + 1)
  /\ next \in 2..(N + 2)
  /\ result \in BOOLEAN \cup {None}

Init ==
  /\ call \in Calls
  /\ pc = "while"
  /\ curr = call.start
  /\ next = call.start + 1
  /\ result = None

----------------------------------------------------------------------------
Goto(block) == pc' = block /\ UNCHANGED <<call, curr, next, result>>

Leave(value) == pc' = "tail" /\ result' = value /\ UNCHANGED <<call, curr, next>>

timeLo == Now(call) + call.lo
timeHi == Now(call) + call.hi

(* Slips to test the properties with: the loop bound off by one, the empty *)
(* interval let in, the row never advanced.                                *)
WhileOneMore ==
  /\ pc = "while"
  /\ \/ next <= N + 1 /\ Goto("outer")
     \/ next > N + 1 /\ Leave(EndV(call.op))

InnerEmptyToo ==
  LET lo == IF call.lo = None THEN call.time[curr] ELSE Later(call.time[curr], timeLo)
      hi == IF call.hi = None THEN call.time[next] ELSE Earlier(timeHi, call.time[next])
  IN  /\ pc = "inner"
      /\ Goto(IF lo <= hi THEN "rhs" ELSE "next")

AdvanceNowhere == pc = "next" /\ Goto("while")

While ==
  /\ pc = "while"
  /\ \/ next <= N /\ Goto("outer")
     \/ next > N /\ Leave(EndV(call.op))

(* Without a window the interval of the row is never looked at. *)
Outer ==
  /\ pc = "outer"
  /\ \/ call.hi # None /\ timeHi > call.time[curr] /\ Goto("inner")
     \/ call.hi # None /\ timeHi <= call.time[curr] /\ Leave(EndV(call.op))
     \/ call.hi = None /\ call.lo # None /\ Goto("inner")
     \/ ~Bounded(call) /\ Goto("rhs")

Inner ==
  LET lo == IF call.lo = None THEN call.time[curr] ELSE Later(call.time[curr], timeLo)
      hi == IF call.hi = None THEN call.time[next] ELSE Earlier(timeHi, call.time[next])
  IN  /\ pc = "inner"
      /\ Goto(IF lo < hi THEN "rhs" ELSE "next")

Rhs ==
  /\ pc = "rhs"
  /\ IF call.rhs[curr] = RhsV(call.op) THEN Leave(RhsV(call.op)) ELSE Goto("lhs")

Lhs ==
  /\ pc = "lhs"
  /\ IF call.lhs[curr] = LhsV(call.op) THEN Leave(LhsV(call.op)) ELSE Goto("next")

Advance ==
  /\ pc = "next"
  /\ pc' = "while"
  /\ curr' = next
  /\ next' = next + 1
  /\ UNCHANGED <<call, result>>

Next == While \/ Outer \/ Inner \/ Rhs \/ Lhs \/ Advance

Spec == Init /\ [][Next]_vars

(* The emitted code runs on its own thread of control until it returns. *)
FairSpec == Spec /\ WF_vars(Next)

----------------------------------------------------------------------------
(* The loop reads the time stamps of rows up to *last only, and evaluates  *)
(* its operands on data rows only, never on the rows that bracket the      *)
(* segment: the trace has no row behind *last (getTime, make(expr->rhs)).  *)
InsideSegment ==
  /\ TypeOK
  /\ pc \in {"outer", "inner"} => next <= N
  /\ pc \in {"rhs", "lhs"} => curr \in 1..(N - 1)

(* Every row the loop has passed was outside the window or undecided; this *)
(* is what makes the first decisive row the answer.                        *)
PassedUndecided ==
  \A i \in call.start..(curr - 1) :
    i \in Visible(call) =>
      call.rhs[i] # RhsV(call.op) /\ call.lhs[i] # LhsV(call.op)

(* The answer is what the formula means: the truth value over the instants *)
(* of the window, for a trace whose rows may share time stamps, whatever   *)
(* the window cuts off; over the rows when the formula has no window.      *)
Correct == pc = "tail" => result = Meaning(call)

(* The loop answers once, as Answer demands, and only with the meaning.    *)
Promise == INSTANCE Answer
  WITH Meant <- Meaning, Pending <- None, answer <- result

Implements == Promise!Spec

(* Every evaluation ends, for every trace and window. *)
Terminates == <>(pc = "tail")
============================================================================
