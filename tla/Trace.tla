------------------------------- MODULE Trace -------------------------------
(***************************************************************************)
(* The trace segment a compiled REF formula runs over, and what a formula  *)
(* about it means.                                                         *)
(*                                                                         *)
(* A compiled function is bool f(frst, last, conf): frst and last point at *)
(* two rows that only bracket the segment, the rows strictly between them  *)
(* carry data.  Here the bracketing rows are 0 and N.  The values of row i *)
(* hold from time[i] until time[i + 1], so the time of row N closes the    *)
(* interval of the last data row.  A nested scope runs its body on such a  *)
(* segment too, which may be empty: the evaluation may start at row N.     *)
(*                                                                         *)
(* An operand of a temporal operator is an arbitrary sub-formula.  Within  *)
(* a fixed segment its value depends on the row only, so it is a function  *)
(* from rows to Booleans.                                                  *)
(***************************************************************************)
EXTENDS Integers

CONSTANTS
  N,         \* the row *last; row 0 is *frst
  Time,      \* the time stamps a row may have
  Offset,    \* the bounds lo and hi that a formula may carry
  Operands,  \* the valuations an operand may have
  None       \* a bound the formula leaves out

Row == 0..N

ASSUME TraceAssumption ==
  /\ N \in Nat \ {0}
  /\ Time \subseteq Int
  /\ Offset \subseteq Int
  /\ Operands \subseteq [Row -> BOOLEAN]
  /\ None \notin Int \cup BOOLEAN

(* Time never runs backwards; several rows may share a time stamp. *)
Traces == {time \in [Row -> Time] : \A i, j \in Row : i <= j => time[i] <= time[j]}

Bounds == Offset \cup {None}

(* The CreateICmpSLT / CreateSelect pairs of the compiler. *)
Later(a, b)   == IF a < b THEN b ELSE a
Earlier(a, b) == IF a < b THEN a ELSE b

(***************************************************************************)
(* A call c: the operator, its operands, its bounds, the segment's time    *)
(* stamps and the row the evaluation starts at.                            *)
(***************************************************************************)
FutureOps == {"Us", "Uw", "Rs", "Rw"}
PastOps   == {"Ss", "Sw", "Ts", "Tw"}

CallsOf(Ops) ==
  [op : Ops, lhs : Operands, rhs : Operands, lo : Bounds, hi : Bounds,
   time : Traces, start : 1..N]

Bounded(c) == c.lo # None \/ c.hi # None

Now(c) == c.time[c.start]

(***************************************************************************)
(* The values the compiler passes to UR and ST as rhsV, lhsV and endV: the *)
(* operand values that decide, and the answer when nothing did.            *)
(***************************************************************************)
RhsV(op) == op \in {"Us", "Uw", "Ss", "Sw"}
LhsV(op) == op \in {"Rs", "Rw", "Ts", "Tw"}
EndV(op) == op \in {"Uw", "Rw", "Sw", "Tw"}

----------------------------------------------------------------------------
(***************************************************************************)
(* What a call means.  The rows in reach are those from the start to the   *)
(* end of the segment the operator looks at, and the values of a row hold  *)
(* over an interval: until the next row's time for a future operator,      *)
(* since the previous row's time for a past one.                           *)
(***************************************************************************)
Reach(c) == IF c.op \in PastOps THEN 1..c.start ELSE c.start..(N - 1)

Covered(c, i) ==
  IF c.op \in PastOps
    THEN c.time[i - 1] .. (c.time[i] - 1)
    ELSE c.time[i] .. (c.time[i + 1] - 1)

(* [now + lo, now + hi) for a future operator, [now - hi, now - lo) for a past one *)
InWindow(c, t) ==
  IF c.op \in PastOps
    THEN /\ c.lo # None => t < Now(c) - c.lo
         /\ c.hi # None => Now(c) - c.hi <= t
    ELSE /\ c.lo # None => Now(c) + c.lo <= t
         /\ c.hi # None => t < Now(c) + c.hi

Instants(c, i) == {t \in Covered(c, i) : InWindow(c, t)}

(* j is looked at before i; rows and instants alike *)
Nearer(c, j, i) == IF c.op \in PastOps THEN i < j ELSE j < i

(* c.rhs holds at an instant before which c.lhs always holds *)
UntilTimed(c) ==
  \E i \in Reach(c) : \E t \in Instants(c, i) :
    c.rhs[i] /\ \A j \in Reach(c) : \A u \in Instants(c, j) : Nearer(c, u, t) => c.lhs[j]

(* c.rhs holds at every instant before which c.lhs has not yet held *)
ReleaseTimed(c) ==
  \A i \in Reach(c) : \A t \in Instants(c, i) :
    c.rhs[i] \/ \E j \in Reach(c) : \E u \in Instants(c, j) : Nearer(c, u, t) /\ c.lhs[j]

MeaningTimed(c) ==
  \/ c.op \in {"Us", "Ss"} /\ UntilTimed(c)
  \/ c.op \in {"Uw", "Sw"} /\ (UntilTimed(c) \/ \A i \in Reach(c) : Instants(c, i) # {} => c.lhs[i])
  \/ c.op \in {"Rs", "Ts"} /\ ReleaseTimed(c) /\ \E i \in Reach(c) : Instants(c, i) # {} /\ c.lhs[i]
  \/ c.op \in {"Rw", "Tw"} /\ ReleaseTimed(c)

(***************************************************************************)
(* The same over a set V of rows.  An unbounded formula looks at rows and  *)
(* not at instants: every row counts, however short its interval.          *)
(***************************************************************************)
UntilRows(c, V) ==
  \E i \in V : c.rhs[i] /\ \A j \in V : Nearer(c, j, i) => c.lhs[j]

ReleaseRows(c, V) ==
  \A i \in V : c.rhs[i] \/ \E j \in V : Nearer(c, j, i) /\ c.lhs[j]

MeaningRows(c, V) ==
  \/ c.op \in {"Us", "Ss"} /\ UntilRows(c, V)
  \/ c.op \in {"Uw", "Sw"} /\ (UntilRows(c, V) \/ \A i \in V : c.lhs[i])
  \/ c.op \in {"Rs", "Ts"} /\ ReleaseRows(c, V) /\ \E i \in V : c.lhs[i]
  \/ c.op \in {"Rw", "Tw"} /\ ReleaseRows(c, V)

(* The rows that have an instant in the window; all of them without one. *)
Visible(c) == {i \in Reach(c) : Bounded(c) => Instants(c, i) # {}}

Meaning(c) == IF Bounded(c) THEN MeaningTimed(c) ELSE MeaningRows(c, Reach(c))
============================================================================
