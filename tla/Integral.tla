------------------------------ MODULE Integral ------------------------------
(***************************************************************************)
(* The loop that CompileExprImpl::visit emits for I[lo:hi](cond, height):  *)
(* the integral of height over the instants of the window at which cond    *)
(* holds.  The values of a row hold until the time of the next one, and    *)
(* the sum is kept in a machine integer.  One action per basic block.      *)
(*                                                                         *)
(* A call has the condition as lhs and the height as rhs.                  *)
(***************************************************************************)
EXTENDS Trace, FiniteSets

CONSTANTS
  Heights,   \* the valuations the height may have
  Limit      \* an integer is below it, and not below -Limit; 2^63

ASSUME IntegralAssumption ==
  /\ Heights \subseteq [Row -> Int]
  /\ Limit \in Nat \ {0}

VARIABLES
  call,   \* the arguments, fixed
  pc,     \* the block to run
  curr,   \* the PHI nodes of the block "head"
  next,
  sum

vars == <<call, pc, curr, next, sum>>

Calls ==
  [op : {"I"}, lhs : Operands, rhs : Heights, lo : Bounds, hi : Bounds,
   time : Traces, start : 1..N]

Blocks == {"head", "time", "cond", "body", "next", "tail"}

(* Two's complement. *)
Wrap(n) == ((n + Limit) % (2 * Limit)) - Limit

TypeOK ==
  /\ call \in Calls
  /\ pc \in Blocks
  /\ curr \in 1..(N + 1)
  /\ next \in 2..(N + 2)
  /\ sum \in -Limit .. (Limit - 1)

Init ==
  /\ call \in Calls
  /\ pc = "head"
  /\ curr = call.start
  /\ next = call.start + 1
  /\ sum = 0

----------------------------------------------------------------------------
Goto(block) == pc' = block /\ UNCHANGED <<call, curr, next, sum>>

timeLo == Now(call) + call.lo
timeHi == Now(call) + call.hi

lo == IF call.lo = None THEN call.time[curr] ELSE Later(call.time[curr], timeLo)
hi == IF call.hi = None THEN call.time[next] ELSE Earlier(timeHi, call.time[next])

(* Slips to test the properties with: one row too many, an empty interval  *)
(* not skipped, the row's whole interval whatever the window cuts off, a   *)
(* row that is never left.                                                 *)
HeadOneMore ==
  /\ pc = "head"
  /\ Goto(IF next <= N + 1 /\ (call.hi # None => timeHi > call.time[curr]) THEN "time" ELSE "tail")

TimeBlockAlways == pc = "time" /\ Goto("cond")

BodyWholeRow ==
  /\ pc = "body"
  /\ pc' = "next"
  /\ sum' = Wrap(sum + call.rhs[curr] * (call.time[next] - call.time[curr]))
  /\ UNCHANGED <<call, curr, next>>

AdvanceNowhere == pc = "next" /\ Goto("head")

Head ==
  /\ pc = "head"
  /\ Goto(IF next <= N /\ (call.hi # None => timeHi > call.time[curr]) THEN "time" ELSE "tail")

TimeBlock ==
  /\ pc = "time"
  /\ Goto(IF lo < hi THEN "cond" ELSE "next")

Cond ==
  /\ pc = "cond"
  /\ Goto(IF call.lhs[curr] THEN "body" ELSE "next")

Body ==
  /\ pc = "body"
  /\ pc' = "next"
  /\ sum' = Wrap(sum + call.rhs[curr] * (hi - lo))
  /\ UNCHANGED <<call, curr, next>>

Advance ==
  /\ pc = "next"
  /\ pc' = "head"
  /\ curr' = curr + 1
  /\ next' = next + 1
  /\ UNCHANGED <<call, sum>>

Next == Head \/ TimeBlock \/ Cond \/ Body \/ Advance

Spec == Init /\ [][Next]_vars

FairSpec == Spec /\ WF_vars(Next)

----------------------------------------------------------------------------
(* The time of curr is read before the loop knows whether there is another *)
(* row, so curr may be *last; the condition and the height are evaluated   *)
(* on data rows only.                                                      *)
InsideSegment ==
  /\ TypeOK
  /\ pc = "head" /\ call.hi # None => curr <= N
  /\ pc = "time" => next <= N
  /\ pc \in {"cond", "body"} => curr \in 1..(N - 1)

(* The height summed over every single instant of row i that is in the     *)
(* window, if the condition holds there.                                   *)
Share(c, i) ==
  IF i \in Reach(c) /\ c.lhs[i] THEN c.rhs[i] * Cardinality(Instants(c, i)) ELSE 0

(* The same over all rows up to i. *)
Total(c) ==
  LET upto[i \in Row] == IF i = 0 THEN 0 ELSE upto[i - 1] + Share(c, i)
  IN  upto

Whole(c) == Wrap(Total(c)[N])

(* At any time the sum is what the rows passed so far contribute, as a     *)
(* machine integer: it does not matter that it is wrapped on the way.      *)
SumOfPassed == sum = Wrap(Total(call)[IF pc = "next" THEN curr ELSE curr - 1])

Answered == IF pc = "tail" THEN sum ELSE None

Promise == INSTANCE Answer WITH Meant <- Whole, Pending <- None, answer <- Answered

(* The answer is the integral over the segment, and is given once: what    *)
(* the window cuts off at either end does not count, rows without an       *)
(* interval do not, and an overflow on the way is made good.               *)
Implements == Promise!Spec

(* Every evaluation ends. *)
Terminates == <>(pc = "tail")
============================================================================
