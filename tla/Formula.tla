------------------------------ MODULE Formula ------------------------------
(***************************************************************************)
(* REF formulas as trees, and the rows at which a formula holds.           *)
(*                                                                         *)
(* A node has an operator, the parameter the operator carries (the time    *)
(* bound of a temporal operator, the distance of Xs, Xw, Ys and Yw; None   *)
(* otherwise) and its operands.  The leaves are the constants true and     *)
(* false, a data item of the current row, and the same item of the row     *)
(* that "x@" has bound to the name x.  Numbers do not occur: comparisons   *)
(* are between Booleans.                                                   *)
(***************************************************************************)
EXTENDS Trace, Sequences

CONSTANTS
  Data,   \* the names of the data items
  Trees   \* the formulas: whatever can be built from these nodes

Node(op, par, args) == [op |-> op, par |-> par, args |-> args]

Leaf(name)       == Node(name, None, <<>>)
Unary(op, e)     == Node(op, None, <<e>>)
Binary(op, e, f) == Node(op, None, <<e, f>>)

True  == Leaf("true")
False == Leaf("false")

Item(d)  == Leaf(d)
Bound(d) == Node("bound", d, <<>>)   \* x.d

Window(lo, hi) == [lo |-> lo, hi |-> hi]
NoWindow       == Window(None, None)

(* The operators that take a time bound. *)
Timed == FutureOps \cup PastOps \cup {"G", "F", "H", "O"}

Operators[e \in Trees] == {e.op} \cup UNION {Operators[e.args[k]] : k \in DOMAIN e.args}

----------------------------------------------------------------------------
(* A segment gives its rows their time stamps, and each item the data rows *)
(* at which it is true.                                                    *)
DataRow == 1..(N - 1)

CallAt(op, window, lhs, rhs, s, i) ==
  [op |-> op, lo |-> window.lo, hi |-> window.hi, time |-> s.time, start |-> i,
   lhs |-> [r \in Row |-> r \in lhs], rhs |-> [r \in Row |-> r \in rhs]]

(* The rows a future or a past operator with this window looks at from i. *)
Ahead(window, s, i)  == Visible(CallAt("Us", window, {}, {}, s, i))
Behind(window, s, i) == Visible(CallAt("Ss", window, {}, {}, s, i))

(* XY: the rows whose n-th successor is a data row, and lies in V. *)
Before(V, n) == {i \in DataRow : i + n \in V}

Order(op, m, n) ==
  \/ op = "Lt" /\ m < n
  \/ op = "Le" /\ m <= n
  \/ op = "Gt" /\ m > n
  \/ op = "Ge" /\ m >= n

(* The data rows of s at which a node holds when x names the row x, and    *)
(* its k-th operand holds at the rows V[k][x].                             *)
Holds(e, V, s, x) ==
  LET lhs     == V[1][x]
      rhs     == V[2][x]
      i1(W, i) == IF i \in W THEN -1 ELSE 0   \* compared signed, and the bit is the sign
      not(W)  == DataRow \ W
  IN CASE e.op = "true"  -> DataRow
       [] e.op = "false" -> {}
       [] e.op \in Data  -> s.data[e.op]
       [] e.op = "bound" -> IF x \in s.data[e.par] THEN DataRow ELSE {}
       [] e.op = "At"    -> {i \in DataRow : i \in V[1][i]}
       [] e.op = "Paren" -> lhs
       [] e.op = "Not"   -> not(lhs)
       [] e.op = "And"   -> lhs \cap rhs
       [] e.op = "Or"    -> lhs \cup rhs
       [] e.op = "Imp"   -> not(lhs) \cup rhs
       [] e.op \in {"Equ", "Eq"} -> {i \in DataRow : (i \in lhs) = (i \in rhs)}
       [] e.op \in {"Xor", "Ne"} -> {i \in DataRow : (i \in lhs) # (i \in rhs)}
       [] e.op \in {"Lt", "Le", "Gt", "Ge"} ->
            {i \in DataRow : Order(e.op, i1(lhs, i), i1(rhs, i))}
       [] e.op = "Choice" -> (lhs \cap rhs) \cup (not(lhs) \cap V[3][x])
       [] e.op = "Xs" -> Before(lhs, e.par)
       [] e.op = "Xw" -> not(Before(not(lhs), e.par))
       [] e.op = "Ys" -> Before(lhs, -e.par)
       [] e.op = "Yw" -> not(Before(not(lhs), -e.par))
       [] e.op = "G"  -> {i \in DataRow : Ahead(e.par, s, i) \subseteq lhs}
       [] e.op = "F"  -> {i \in DataRow : Ahead(e.par, s, i) \cap lhs # {}}
       [] e.op = "H"  -> {i \in DataRow : Behind(e.par, s, i) \subseteq lhs}
       [] e.op = "O"  -> {i \in DataRow : Behind(e.par, s, i) \cap lhs # {}}
       [] OTHER -> {i \in DataRow : Meaning(CallAt(e.op, e.par, lhs, rhs, s, i))}

(* The data rows of s at which e holds. *)
Sat(e, s, x) ==
  LET sat[f \in Trees] ==
        [y \in Row |-> Holds(f, [k \in DOMAIN f.args |-> sat[f.args[k]]], s, y)]
  IN  sat[e][x]
============================================================================
