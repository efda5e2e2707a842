-------------------------- MODULE StatementProofs --------------------------
(***************************************************************************)
(* Proofs about Statement: what the three rewriters make of a formula      *)
(* means what was written, is settled and can be compiled, and a pattern   *)
(* says what its sentence says; for formulas of any size, segments of any  *)
(* length and any time stamps.                                             *)
(***************************************************************************)
EXTENDS Statement, TraceProofs, SequenceTheorems, WellFoundedInduction

----------------------------------------------------------------------------
(* Induction and recursion on a set whose elements have a height.          *)
LEMMA AllNumbers ==
  ASSUME NEW S, 0 \in S, \A n \in Nat : n \in S => n + 1 \in S
  PROVE  Nat \subseteq S
<1> DEFINE R == OpToRel(<, Nat)
           T == Nat \ S
<1>1. IsWellFoundedOn(R, Nat)
  BY NatLessThanWellFounded
<1>2. \A i, j \in Nat : i < j => <<i, j>> \in R
  BY DEF OpToRel
<1>3. T \subseteq Nat
  OBVIOUS
<1> SUFFICES ASSUME T # {} PROVE FALSE
  OBVIOUS
<1> HIDE DEF R
<1>4. PICK x \in T : \A y \in T : ~(<<y, x>> \in R)
  BY <1>1, <1>3, WFMin
<1>5. x \in Nat /\ x # 0 /\ x - 1 \in Nat /\ x - 1 < x
  BY <1>4
<1>6. x - 1 \notin T
  BY <1>2, <1>4, <1>5, Zenon
<1>7. x - 1 \in S /\ (x - 1) + 1 = x
  BY <1>5, <1>6
<1> QED BY <1>4, <1>5, <1>7

(* What holds of an element whenever it holds of the lower ones holds of   *)
(* all.                                                                    *)
LEMMA Upwards ==
  ASSUME NEW D, NEW high \in [D -> Nat], NEW S,
         \A e \in D : (\A c \in D : high[c] < high[e] => c \in S) => e \in S
  PROVE  D \subseteq S
<1> DEFINE T == {n \in Nat : \A e \in D : high[e] < n => e \in S}
<1>1. 0 \in T
  OBVIOUS
<1>2. ASSUME NEW n \in Nat, n \in T PROVE n + 1 \in T
  <2> SUFFICES ASSUME NEW e \in D, high[e] < n + 1 PROVE e \in S
    OBVIOUS
  <2>1. \A c \in D : high[c] < high[e] => high[c] < n
    OBVIOUS
  <2> QED BY <1>2, <2>1
<1> HIDE DEF T
<1>3. Nat \subseteq T
  BY <1>1, <1>2, AllNumbers
<1>4. ASSUME NEW e \in D PROVE e \in S
  <2>1. high[e] + 1 \in T /\ high[e] < high[e] + 1
    BY <1>3
  <2> QED BY <2>1 DEF T
<1> QED BY <1>4

(* A function may be defined by what it is at lower elements: its value at *)
(* e is calculated from e and its values at deps[e], all lower than e.     *)
Lowers(D, deps, high) ==
  /\ deps \in [D -> Seq(D)] /\ high \in [D -> Nat]
  /\ \A e \in D : \A k \in DOMAIN deps[e] : high[deps[e][k]] < high[e]

Yields(D, V, deps, calc) ==
  \A e \in D : \A v \in Seq(V) : DOMAIN v = DOMAIN deps[e] => calc[<<e, v>>] \in V

Solves(f, D, V, deps, calc) ==
  /\ f \in [D -> V]
  /\ \A e \in D : f[e] = calc[<<e, [k \in DOMAIN deps[e] |-> f[deps[e][k]]]>>]

LEMMA Recursion ==
  ASSUME NEW D, NEW V, NEW deps, NEW high, NEW calc, NEW some \in V,
         Lowers(D, deps, high), Yields(D, V, deps, calc)
  PROVE  \E f : Solves(f, D, V, deps, calc)
<1> DEFINE Over(f, e) == [k \in DOMAIN deps[e] |-> f[deps[e][k]]]
           Fits(f, n) == f \in [D -> V] /\ \A e \in D : high[e] < n => f[e] = calc[<<e, Over(f, e)>>]
<1>0. /\ deps \in [D -> Seq(D)] /\ high \in [D -> Nat]
      /\ \A e \in D : \A k \in DOMAIN deps[e] : high[deps[e][k]] < high[e]
      /\ \A e \in D : \A v \in Seq(V) : DOMAIN v = DOMAIN deps[e] => calc[<<e, v>>] \in V
  BY DEF Lowers, Yields
<1> USE <1>0
<1>1. ASSUME NEW e \in D PROVE deps[e] \in Seq(D) /\ \A k \in DOMAIN deps[e] : deps[e][k] \in D
  OBVIOUS
<1>2. ASSUME NEW f \in [D -> V], NEW e \in D PROVE Over(f, e) \in Seq(V) /\ DOMAIN Over(f, e) = DOMAIN deps[e]
  <2>1. DOMAIN deps[e] = 1..Len(deps[e]) /\ Len(deps[e]) \in Nat
    BY <1>1
  <2>2. \A k \in DOMAIN deps[e] : f[deps[e][k]] \in V
    BY <1>1
  <2>3. Over(f, e) \in [1..Len(deps[e]) -> V]
    BY <2>1, <2>2
  <2> DEFINE v == Over(f, e)
  <2>4. v \in [1..Len(deps[e]) -> V]
    BY <2>3
  <2> HIDE DEF v
  <2>5. v \in UNION {[1..n -> V] : n \in Nat}
    BY <2>1, <2>4, Zenon
  <2>6. v \in Seq(V)
    BY <2>5, SeqDef, Zenon
  <2> QED BY <2>6 DEF v
<1>3. ASSUME NEW f \in [D -> V], NEW g \in [D -> V], NEW e \in D,
             \A c \in D : high[c] < high[e] => f[c] = g[c]
      PROVE  Over(f, e) = Over(g, e)
  <2>1. \A k \in DOMAIN deps[e] : f[deps[e][k]] = g[deps[e][k]]
    BY <1>1, <1>3
  <2> QED BY <2>1, Zenon
<1> HIDE DEF Over
<1>4. ASSUME NEW n \in Nat, NEW m \in Nat, NEW f, NEW g, Fits(f, n), Fits(g, m)
      PROVE  \A e \in D : high[e] < n /\ high[e] < m => f[e] = g[e]
  <2> DEFINE S == {e \in D : high[e] < n /\ high[e] < m => f[e] = g[e]}
  <2>1. ASSUME NEW e \in D, \A c \in D : high[c] < high[e] => c \in S PROVE e \in S
    <3> SUFFICES ASSUME high[e] < n, high[e] < m PROVE f[e] = g[e]
      OBVIOUS
    <3>1. \A c \in D : high[c] < high[e] => f[c] = g[c]
      <4> SUFFICES ASSUME NEW c \in D, high[c] < high[e] PROVE f[c] = g[c]
        OBVIOUS
      <4>1. high[c] < n /\ high[c] < m
        <5>1. high[c] \in Nat /\ high[e] \in Nat
          OBVIOUS
        <5> HIDE DEF S, Fits
        <5> QED BY <5>1
      <4>2. c \in S
        BY <2>1
      <4> HIDE DEF Fits
      <4> QED BY <4>1, <4>2
    <3>2. Over(f, e) = Over(g, e)
      BY <1>3, <1>4, <3>1
    <3> QED BY <1>4, <3>2
  <2> HIDE DEF S
  <2>2. D \subseteq S
    BY <2>1, Upwards
  <2> QED BY <2>2 DEF S
<1>5. \A n \in Nat : \E f : Fits(f, n)
  <2> DEFINE S == {n \in Nat : \E f : Fits(f, n)}
  <2>1. 0 \in S
    <3> DEFINE f == [e \in D |-> some]
    <3>1. f \in [D -> V]
      OBVIOUS
    <3> HIDE DEF f
    <3>2. Fits(f, 0)
      BY <3>1
    <3> QED BY <3>2
  <2>2. ASSUME NEW n \in Nat, n \in S PROVE n + 1 \in S
    <3>1. PICK f : Fits(f, n)
      BY <2>2
    <3> DEFINE g == [e \in D |-> calc[<<e, Over(f, e)>>]]
    <3>2. g \in [D -> V]
      BY <1>2, <3>1
    <3>3. \A e \in D : g[e] = calc[<<e, Over(f, e)>>]
      OBVIOUS
    <3> HIDE DEF g
    <3>4. ASSUME NEW e \in D, high[e] < n + 1 PROVE Over(f, e) = Over(g, e)
      <4>1. ASSUME NEW c \in D, high[c] < high[e] PROVE f[c] = g[c]
        <5>1. high[c] < n
          BY <3>4, <4>1
        <5> QED BY <3>1, <3>3, <5>1
      <4> QED BY <1>3, <3>1, <3>2, <4>1
    <3>5. Fits(g, n + 1)
      BY <3>2, <3>3, <3>4
    <3> QED BY <3>5
  <2> HIDE DEF S
  <2>3. Nat \subseteq S
    BY <2>1, <2>2, AllNumbers
  <2> QED BY <2>3 DEF S
<1> DEFINE Upto(n) == CHOOSE f : Fits(f, n)
           h == [e \in D |-> Upto(high[e] + 1)[e]]
<1>6. \A n \in Nat : Fits(Upto(n), n)
  BY <1>5, Zenon
<1> HIDE DEF Upto
<1>7. \A e \in D : h[e] = Upto(high[e] + 1)[e] /\ high[e] + 1 \in Nat /\ high[e] < high[e] + 1
  OBVIOUS
<1>8. h \in [D -> V]
  BY <1>6, <1>7
<1> HIDE DEF h
<1>9. ASSUME NEW e \in D PROVE h[e] = calc[<<e, Over(h, e)>>]
  <2>1. Fits(Upto(high[e] + 1), high[e] + 1)
    BY <1>6, <1>7
  <2>2. ASSUME NEW c \in D, high[c] < high[e] PROVE Upto(high[e] + 1)[c] = h[c]
    <3>1. Fits(Upto(high[c] + 1), high[c] + 1) /\ high[c] < high[e] + 1
      BY <1>6, <1>7, <2>2
    <3> HIDE DEF Fits
    <3> QED BY <1>4, <1>7, <2>1, <3>1
  <2>3. Over(Upto(high[e] + 1), e) = Over(h, e)
    BY <1>3, <1>8, <2>1, <2>2
  <2> QED BY <1>7, <2>1, <2>3
<1> QED BY <1>8, <1>9 DEF Over, Solves

----------------------------------------------------------------------------
(* The formulas: which nodes there are, and what they carry.               *)
Truths      == {"true", "false"}
Wrapping    == {"At", "Paren", "Not"}
Steps       == {"Xs", "Xw", "Ys", "Yw"}
Quantifiers == {"G", "F", "H", "O"}
Connectives == {"And", "Or", "Imp", "Equ", "Xor", "Eq", "Ne", "Lt", "Le", "Gt", "Ge"}

Names ==
  Truths \cup Wrapping \cup Steps \cup Quantifiers \cup Connectives \cup AllOps
  \cup {"bound", "Choice"}

Windows == [lo : Bounds, hi : Bounds]

Choices(T) == {Node("Choice", None, <<a, b, c>>) : a \in T, b \in T, c \in T}

(* The formulas whose operands are in T. *)
Formulas(T) ==
  {Leaf(d) : d \in Truths \cup Data}
  \cup {Bound(d) : d \in Data}
  \cup {Unary(op, a) : op \in Wrapping, a \in T}
  \cup {Node(op, n, <<a>>) : op \in Steps, n \in Int, a \in T}
  \cup {Node(op, w, <<a>>) : op \in Quantifiers, w \in Windows, a \in T}
  \cup {Binary(op, a, b) : op \in Connectives, a \in T, b \in T}
  \cup {Node(op, w, <<a, b>>) : op \in AllOps, w \in Windows, a \in T, b \in T}
  \cup Choices(T)

(* Trees are all the formulas, and only those: each is built from smaller  *)
(* ones.  Nobody calls a data item like an operator, and a segment has a   *)
(* first row.                                                              *)
AllTrees ==
  /\ Trees = Formulas(Trees)
  /\ \E high \in [Trees -> Nat] :
       \A e \in Trees : \A k \in DOMAIN e.args : high[e.args[k]] < high[e]
  /\ Data \cap Names = {}

(* A formula by its operator. *)
LEMMA Kinds ==
  ASSUME NEW T, NEW e \in Formulas(T)
  PROVE  LET a == e.args[1]
             b == e.args[2]
             c == e.args[3]
         IN  \/ e.op \in Truths \cup Data /\ e = Leaf(e.op)
             \/ e.op = "bound" /\ e.par \in Data /\ e = Bound(e.par)
             \/ e.op \in Wrapping /\ a \in T /\ e = Unary(e.op, a)
             \/ e.op \in Steps /\ e.par \in Int /\ a \in T /\ e = Node(e.op, e.par, <<a>>)
             \/ e.op \in Quantifiers /\ e.par \in Windows /\ a \in T /\ e = Node(e.op, e.par, <<a>>)
             \/ e.op \in Connectives /\ a \in T /\ b \in T /\ e = Binary(e.op, a, b)
             \/ e.op \in AllOps /\ e.par \in Windows /\ a \in T /\ b \in T
                /\ e = Node(e.op, e.par, <<a, b>>)
             \/ e.op = "Choice" /\ a \in T /\ b \in T /\ c \in T
                /\ e = Node("Choice", None, <<a, b, c>>)
<1>1. CASE e \in {Leaf(d) : d \in Truths \cup Data}
  BY <1>1 DEF Leaf, Node
<1>2. CASE e \in {Bound(d) : d \in Data}
  BY <1>2 DEF Bound, Node
<1>3. CASE e \in {Unary(op, a) : op \in Wrapping, a \in T}
  BY <1>3 DEF Unary, Node
<1>4. CASE e \in {Node(op, n, <<a>>) : op \in Steps, n \in Int, a \in T}
  BY <1>4 DEF Node
<1>5. CASE e \in {Node(op, w, <<a>>) : op \in Quantifiers, w \in Windows, a \in T}
  BY <1>5 DEF Node
<1>6. CASE e \in {Binary(op, a, b) : op \in Connectives, a \in T, b \in T}
  BY <1>6 DEF Binary, Node
<1>7. CASE e \in {Node(op, w, <<a, b>>) : op \in AllOps, w \in Windows, a \in T, b \in T}
  BY <1>7 DEF Node
<1>8. CASE e \in Choices(T)
  BY <1>8 DEF Choices, Node
<1> QED BY <1>1, <1>2, <1>3, <1>4, <1>5, <1>6, <1>7, <1>8 DEF Formulas

LEMMA Built1 ==
  ASSUME NEW T, NEW a \in T
  PROVE  /\ \A op \in Wrapping : Unary(op, a) \in Formulas(T)
         /\ \A op \in Steps, n \in Int : Node(op, n, <<a>>) \in Formulas(T)
         /\ \A op \in Quantifiers, w \in Windows : Node(op, w, <<a>>) \in Formulas(T)
<1>1. \A op \in Wrapping : Unary(op, a) \in Formulas(T)
  BY DEF Formulas
<1>2. \A op \in Steps, n \in Int : Node(op, n, <<a>>) \in Formulas(T)
  BY DEF Formulas
<1>3. \A op \in Quantifiers, w \in Windows : Node(op, w, <<a>>) \in Formulas(T)
  BY DEF Formulas
<1> QED BY <1>1, <1>2, <1>3

LEMMA Built2 ==
  ASSUME NEW T, NEW a \in T, NEW b \in T
  PROVE  /\ \A op \in Connectives : Binary(op, a, b) \in Formulas(T)
         /\ \A op \in AllOps, w \in Windows : Node(op, w, <<a, b>>) \in Formulas(T)
<1>1. \A op \in Connectives : Binary(op, a, b) \in Formulas(T)
  BY DEF Formulas
<1>2. \A op \in AllOps, w \in Windows : Node(op, w, <<a, b>>) \in Formulas(T)
  BY DEF Formulas
<1> QED BY <1>1, <1>2

LEMMA Built3 ==
  ASSUME NEW T, NEW a \in T, NEW b \in T, NEW c \in T
  PROVE  Node("Choice", None, <<a, b, c>>) \in Formulas(T)
<1>1. Node("Choice", None, <<a, b, c>>) \in Choices(T)
  BY SMT DEF Choices
<1> QED BY <1>1 DEF Formulas

LEMMA Leaves ==
  ASSUME NEW T
  PROVE  /\ \A d \in Truths \cup Data : Leaf(d) \in Formulas(T)
         /\ \A d \in Data : Bound(d) \in Formulas(T)
BY DEF Formulas

LEMMA ArgsWithin ==
  ASSUME NEW T, NEW e \in Formulas(T), NEW k \in DOMAIN e.args
  PROVE  e.args[k] \in T
<1> DEFINE a == e.args[1]
           b == e.args[2]
           c == e.args[3]
<1>1. \/ e.op \in Truths \cup Data /\ e = Leaf(e.op)
      \/ e.op = "bound" /\ e.par \in Data /\ e = Bound(e.par)
      \/ e.op \in Wrapping /\ a \in T /\ e = Unary(e.op, a)
      \/ e.op \in Steps /\ e.par \in Int /\ a \in T /\ e = Node(e.op, e.par, <<a>>)
      \/ e.op \in Quantifiers /\ e.par \in Windows /\ a \in T /\ e = Node(e.op, e.par, <<a>>)
      \/ e.op \in Connectives /\ a \in T /\ b \in T /\ e = Binary(e.op, a, b)
      \/ e.op \in AllOps /\ e.par \in Windows /\ a \in T /\ b \in T
         /\ e = Node(e.op, e.par, <<a, b>>)
      \/ e.op = "Choice" /\ a \in T /\ b \in T /\ c \in T
         /\ e = Node("Choice", None, <<a, b, c>>)
  BY Kinds
<1> HIDE DEF a, b, c
<1>2. \/ e.args = <<>>
      \/ a \in T /\ e.args = <<a>>
      \/ a \in T /\ b \in T /\ e.args = <<a, b>>
      \/ a \in T /\ b \in T /\ c \in T /\ e.args = <<a, b, c>>
  BY <1>1 DEF Leaf, Bound, Unary, Binary, Node
<1>3. CASE e.args = <<>>
  BY <1>3
<1>4. CASE a \in T /\ e.args = <<a>>
  BY <1>4
<1>5. CASE a \in T /\ b \in T /\ e.args = <<a, b>>
  BY <1>5
<1>6. CASE a \in T /\ b \in T /\ c \in T /\ e.args = <<a, b, c>>
  BY <1>6
<1> QED BY <1>2, <1>3, <1>4, <1>5, <1>6

(* A larger set of operands makes more formulas. *)
LEMMA OnWhole ==
  ASSUME NEW T, NEW U, T \subseteq U
  PROVE  Formulas(T) \subseteq Formulas(U)
<1> SUFFICES ASSUME NEW e \in Formulas(T) PROVE e \in Formulas(U)
  OBVIOUS
<1> DEFINE a == e.args[1]
           b == e.args[2]
           c == e.args[3]
<1>1. \/ e.op \in Truths \cup Data /\ e = Leaf(e.op)
      \/ e.op = "bound" /\ e.par \in Data /\ e = Bound(e.par)
      \/ e.op \in Wrapping /\ a \in T /\ e = Unary(e.op, a)
      \/ e.op \in Steps /\ e.par \in Int /\ a \in T /\ e = Node(e.op, e.par, <<a>>)
      \/ e.op \in Quantifiers /\ e.par \in Windows /\ a \in T /\ e = Node(e.op, e.par, <<a>>)
      \/ e.op \in Connectives /\ a \in T /\ b \in T /\ e = Binary(e.op, a, b)
      \/ e.op \in AllOps /\ e.par \in Windows /\ a \in T /\ b \in T
         /\ e = Node(e.op, e.par, <<a, b>>)
      \/ e.op = "Choice" /\ a \in T /\ b \in T /\ c \in T
         /\ e = Node("Choice", None, <<a, b, c>>)
  BY Kinds
<1>2. (a \in T => a \in U) /\ (b \in T => b \in U) /\ (c \in T => c \in U)
  OBVIOUS
<1> HIDE DEF a, b, c
<1>3. CASE (e.op \in Truths \cup Data /\ e = Leaf(e.op)) \/ (e.op = "bound" /\ e.par \in Data /\ e = Bound(e.par))
  BY <1>3, Leaves
<1>4. CASE \/ e.op \in Wrapping /\ a \in T /\ e = Unary(e.op, a)
           \/ e.op \in Steps /\ e.par \in Int /\ a \in T /\ e = Node(e.op, e.par, <<a>>)
           \/ e.op \in Quantifiers /\ e.par \in Windows /\ a \in T /\ e = Node(e.op, e.par, <<a>>)
  BY <1>2, <1>4, Built1
<1>5. CASE \/ e.op \in Connectives /\ a \in T /\ b \in T /\ e = Binary(e.op, a, b)
           \/ e.op \in AllOps /\ e.par \in Windows /\ a \in T /\ b \in T
              /\ e = Node(e.op, e.par, <<a, b>>)
  BY <1>2, <1>5, Built2
<1>6. CASE e.op = "Choice" /\ a \in T /\ b \in T /\ c \in T /\ e = Node("Choice", None, <<a, b, c>>)
  BY <1>2, <1>6, Built3
<1> QED BY <1>1, <1>3, <1>4, <1>5, <1>6

Climbs(f, n) ==
  /\ f[0] = {}
  /\ \A k \in 0..(n - 1) : f[k + 1] = Formulas(f[k])

LEMMA ClimbExists ==
  ASSUME NEW n \in Nat
  PROVE  \E f : Climbs(f, n)
<1> DEFINE S == {m \in Nat : \E f : Climbs(f, m)}
<1>1. 0 \in S
  <2>1. Climbs([k \in {0} |-> {}], 0)
    BY DEF Climbs
  <2> QED BY <2>1
<1>2. ASSUME NEW m \in Nat, m \in S PROVE m + 1 \in S
  <2>1. PICK f : Climbs(f, m)
    BY <1>2
  <2> DEFINE g == [k \in 0..(m + 1) |-> IF k = m + 1 THEN Formulas(f[m]) ELSE f[k]]
  <2>2. g[0] = {}
    BY <2>1 DEF Climbs
  <2>3. ASSUME NEW k \in 0..m PROVE g[k + 1] = Formulas(g[k])
    <3>1. g[k] = f[k]
      OBVIOUS
    <3>2. CASE k = m
      BY <3>1, <3>2
    <3>3. CASE k < m
      <4>1. g[k + 1] = f[k + 1] /\ f[k + 1] = Formulas(f[k])
        BY <2>1, <3>3 DEF Climbs
      <4> QED BY <3>1, <4>1
    <3> QED BY <3>2, <3>3
  <2> HIDE DEF g
  <2>4. Climbs(g, m + 1)
    BY <2>2, <2>3 DEF Climbs
  <2> QED BY <2>4
<1> HIDE DEF S
<1>3. Nat \subseteq S
  BY <1>1, <1>2, AllNumbers
<1> QED BY <1>3 DEF S

LEMMA ClimbsMeet ==
  ASSUME NEW n \in Nat, NEW m \in Nat, NEW f, NEW g, Climbs(f, n), Climbs(g, m)
  PROVE  \A k \in Nat : k <= n /\ k <= m => f[k] = g[k]
<1> DEFINE S == {k \in Nat : k <= n /\ k <= m => f[k] = g[k]}
<1>1. 0 \in S
  BY DEF Climbs
<1>2. ASSUME NEW k \in Nat, k \in S PROVE k + 1 \in S
  <2> SUFFICES ASSUME k + 1 <= n, k + 1 <= m PROVE f[k + 1] = g[k + 1]
    OBVIOUS
  <2>1. f[k] = g[k]
    BY <1>2
  <2>2. f[k + 1] = Formulas(f[k]) /\ g[k + 1] = Formulas(g[k])
    BY DEF Climbs
  <2> QED BY <2>1, <2>2
<1> HIDE DEF S
<1>3. Nat \subseteq S
  BY <1>1, <1>2, AllNumbers
<1> QED BY <1>3 DEF S

LEMMA LevelsExist ==
  \E level : level[0] = {} /\ \A n \in Nat : level[n + 1] = Formulas(level[n])
<1> DEFINE climb(n) == CHOOSE f : Climbs(f, n)
           level == [n \in Nat |-> climb(n)[n]]
<1>1. \A n \in Nat : Climbs(climb(n), n)
  BY ClimbExists
<1> HIDE DEF climb
<1>2. level[0] = {}
  BY <1>1 DEF Climbs
<1>3. ASSUME NEW n \in Nat PROVE level[n + 1] = Formulas(level[n])
  <2>1. Climbs(climb(n), n) /\ Climbs(climb(n + 1), n + 1)
    BY <1>1
  <2>2. climb(n)[n] = climb(n + 1)[n]
    BY <2>1, ClimbsMeet
  <2>3. climb(n + 1)[n + 1] = Formulas(climb(n + 1)[n])
    BY <2>1 DEF Climbs
  <2> QED BY <2>2, <2>3
<1> HIDE DEF level
<1> QED BY <1>2, <1>3

LEMMA LevelsRise ==
  ASSUME NEW level, level[0] = {}, \A n \in Nat : level[n + 1] = Formulas(level[n])
  PROVE  \A m, n \in Nat : m <= n => level[m] \subseteq level[n]
<1> DEFINE Up == {n \in Nat : level[n] \subseteq level[n + 1]}
<1>1. 0 \in Up
  OBVIOUS
<1>2. ASSUME NEW n \in Nat, n \in Up PROVE n + 1 \in Up
  <2>1. Formulas(level[n]) \subseteq Formulas(level[n + 1])
    BY <1>2, OnWhole
  <2> QED BY <2>1
<1> HIDE DEF Up
<1>3. Nat \subseteq Up
  BY <1>1, <1>2, AllNumbers
<1> SUFFICES ASSUME NEW m \in Nat PROVE \A n \in Nat : m <= n => level[m] \subseteq level[n]
  OBVIOUS
<1> DEFINE S == {n \in Nat : m <= n => level[m] \subseteq level[n]}
<1>4. 0 \in S
  OBVIOUS
<1>5. ASSUME NEW n \in Nat, n \in S PROVE n + 1 \in S
  <2>1. level[n] \subseteq level[n + 1]
    BY <1>3 DEF Up
  <2>2. m <= n + 1 => m <= n \/ m = n + 1
    OBVIOUS
  <2> QED BY <1>5, <2>1, <2>2
<1> HIDE DEF S
<1>6. Nat \subseteq S
  BY <1>4, <1>5, AllNumbers
<1> QED BY <1>6 DEF S

(* There is a set of trees that AllTrees describes, whatever the data      *)
(* items: the formulas of finite height.                                   *)
LEMMA TreesExist ==
  \E T : /\ T = Formulas(T)
         /\ \E high \in [T -> Nat] :
              \A e \in T : \A k \in DOMAIN e.args : high[e.args[k]] < high[e]
<1>1. PICK level : level[0] = {} /\ \A n \in Nat : level[n + 1] = Formulas(level[n])
  BY LevelsExist
<1>2. \A m, n \in Nat : m <= n => level[m] \subseteq level[n]
  BY <1>1, LevelsRise
<1> DEFINE T == UNION {level[n] : n \in Nat}
<1>3. \A e : e \in T <=> \E n \in Nat : e \in level[n]
  OBVIOUS
<1>4. \A n \in Nat : level[n] \subseteq T
  OBVIOUS
<1> HIDE DEF T
<1>5. ASSUME NEW e \in T PROVE e \in Formulas(T)
  <2>1. PICK n \in Nat : e \in level[n]
    BY <1>3
  <2>2. n # 0 /\ n - 1 \in Nat /\ (n - 1) + 1 = n
    BY <1>1, <2>1
  <2>3. e \in Formulas(level[n - 1])
    BY <1>1, <2>1, <2>2
  <2> QED BY <1>4, <2>2, <2>3, OnWhole
<1>6. ASSUME NEW e \in Formulas(T) PROVE e \in T
  <2> SUFFICES \E n \in Nat : e \in Formulas(level[n])
    BY <1>1, <1>3
  <2>0. \A a \in T : \E n \in Nat : a \in level[n]
    BY <1>3
  <2>1. ASSUME NEW a \in T PROVE \E n \in Nat : a \in level[n]
    BY <2>0
  <2>2. ASSUME NEW a \in T, NEW b \in T PROVE \E n \in Nat : a \in level[n] /\ b \in level[n]
    <3>1. PICK i \in Nat : a \in level[i]
      BY <2>0
    <3>2. PICK j \in Nat : b \in level[j]
      BY <2>0
    <3>3. i <= j \/ j <= i
      OBVIOUS
    <3> QED BY <1>2, <3>1, <3>2, <3>3
  <2>3. ASSUME NEW a \in T, NEW b \in T, NEW c \in T
        PROVE  \E n \in Nat : a \in level[n] /\ b \in level[n] /\ c \in level[n]
    <3>1. PICK i \in Nat : a \in level[i] /\ b \in level[i]
      BY <2>2
    <3>2. PICK j \in Nat : c \in level[j]
      BY <2>0
    <3>3. i <= j \/ j <= i
      OBVIOUS
    <3> QED BY <1>2, <3>1, <3>2, <3>3
  <2> DEFINE a == e.args[1]
             b == e.args[2]
             c == e.args[3]
  <2>4. \/ e.op \in Truths \cup Data /\ e = Leaf(e.op)
        \/ e.op = "bound" /\ e.par \in Data /\ e = Bound(e.par)
        \/ e.op \in Wrapping /\ a \in T /\ e = Unary(e.op, a)
        \/ e.op \in Steps /\ e.par \in Int /\ a \in T /\ e = Node(e.op, e.par, <<a>>)
        \/ e.op \in Quantifiers /\ e.par \in Windows /\ a \in T /\ e = Node(e.op, e.par, <<a>>)
        \/ e.op \in Connectives /\ a \in T /\ b \in T /\ e = Binary(e.op, a, b)
        \/ e.op \in AllOps /\ e.par \in Windows /\ a \in T /\ b \in T
           /\ e = Node(e.op, e.par, <<a, b>>)
        \/ e.op = "Choice" /\ a \in T /\ b \in T /\ c \in T
           /\ e = Node("Choice", None, <<a, b, c>>)
    BY Kinds
  <2> HIDE DEF a, b, c
  <2>5. CASE (e.op \in Truths \cup Data /\ e = Leaf(e.op)) \/ (e.op = "bound" /\ e.par \in Data /\ e = Bound(e.par))
    <3>1. e \in Formulas(level[0])
      BY <2>5, Leaves
    <3> QED BY <3>1
  <2>6. CASE \/ e.op \in Wrapping /\ a \in T /\ e = Unary(e.op, a)
             \/ e.op \in Steps /\ e.par \in Int /\ a \in T /\ e = Node(e.op, e.par, <<a>>)
             \/ e.op \in Quantifiers /\ e.par \in Windows /\ a \in T /\ e = Node(e.op, e.par, <<a>>)
    <3>1. PICK n \in Nat : a \in level[n]
      BY <2>1, <2>6
    <3>2. e \in Formulas(level[n])
      BY <2>6, <3>1, Built1
    <3> QED BY <3>2
  <2>7. CASE \/ e.op \in Connectives /\ a \in T /\ b \in T /\ e = Binary(e.op, a, b)
             \/ e.op \in AllOps /\ e.par \in Windows /\ a \in T /\ b \in T
                /\ e = Node(e.op, e.par, <<a, b>>)
    <3>1. PICK n \in Nat : a \in level[n] /\ b \in level[n]
      BY <2>2, <2>7
    <3>2. e \in Formulas(level[n])
      BY <2>7, <3>1, Built2
    <3> QED BY <3>2
  <2>8. CASE e.op = "Choice" /\ a \in T /\ b \in T /\ c \in T /\ e = Node("Choice", None, <<a, b, c>>)
    <3>1. PICK n \in Nat : a \in level[n] /\ b \in level[n] /\ c \in level[n]
      BY <2>3, <2>8
    <3>2. e \in Formulas(level[n])
      BY <2>8, <3>1, Built3
    <3> QED BY <3>2
  <2> QED BY <2>4, <2>5, <2>6, <2>7, <2>8
<1> DEFINE Lowest(e, n) == e \in level[n] /\ \A m \in Nat : m < n => e \notin level[m]
           high == [e \in T |-> CHOOSE n \in Nat : Lowest(e, n)]
<1>7. ASSUME NEW e \in T PROVE \E n \in Nat : Lowest(e, n)
  <2> SUFFICES ASSUME \A n \in Nat : ~Lowest(e, n) PROVE FALSE
    OBVIOUS
  <2> DEFINE S == {n \in Nat : e \notin level[n]}
  <2>1. 0 \in S
    BY <1>1
  <2>2. ASSUME NEW n \in Nat, n \in S PROVE n + 1 \in S
    <3> SUFFICES ASSUME e \in level[n + 1] PROVE Lowest(e, n + 1)
      OBVIOUS
    <3>1. ASSUME NEW m \in Nat, m < n + 1 PROVE e \notin level[m]
      BY <1>2, <2>2, <3>1
    <3> QED BY <3>1
  <2> HIDE DEF S
  <2>3. Nat \subseteq S
    BY <2>1, <2>2, AllNumbers
  <2> QED BY <1>3, <2>3 DEF S
<1>8. \A e \in T : high[e] \in Nat /\ Lowest(e, high[e])
  <2> SUFFICES ASSUME NEW e \in T PROVE high[e] \in Nat /\ Lowest(e, high[e])
    OBVIOUS
  <2>1. high[e] = CHOOSE n \in Nat : Lowest(e, n)
    OBVIOUS
  <2>2. \E n \in Nat : Lowest(e, n)
    BY <1>7
  <2> HIDE DEF high, Lowest
  <2> QED BY <2>1, <2>2
<1>9. high \in [T -> Nat]
  BY <1>8
<1> HIDE DEF high
<1>10. ASSUME NEW e \in T, NEW k \in DOMAIN e.args PROVE high[e.args[k]] < high[e]
  <2>1. high[e] \in Nat /\ high[e] # 0 /\ e \in level[high[e]]
    BY <1>1, <1>8
  <2>2. high[e] - 1 \in Nat /\ (high[e] - 1) + 1 = high[e]
    BY <2>1
  <2>3. e \in Formulas(level[high[e] - 1])
    BY <1>1, <2>1, <2>2
  <2>4. e.args[k] \in level[high[e] - 1]
    BY <2>3, ArgsWithin
  <2>5. e.args[k] \in T /\ ~(high[e] - 1 < high[e.args[k]])
    BY <1>4, <1>8, <2>2, <2>4
  <2> QED BY <1>8, <2>1, <2>5
<1>11. T = Formulas(T)
  BY <1>5, <1>6
<1> QED BY <1>9, <1>10, <1>11

----------------------------------------------------------------------------
(* What holds of a formula whenever it holds of its operands holds of all. *)
LEMMA OnFormulas ==
  ASSUME AllTrees, NEW S, S \subseteq Trees, Formulas(S) \subseteq S
  PROVE  S = Trees
<1>1. PICK high \in [Trees -> Nat] :
        \A e \in Trees : \A k \in DOMAIN e.args : high[e.args[k]] < high[e]
  BY DEF AllTrees
<1>2. ASSUME NEW e \in Trees, \A c \in Trees : high[c] < high[e] => c \in S PROVE e \in S
  <2> DEFINE a == e.args[1]
             b == e.args[2]
             c == e.args[3]
  <2>1. e \in Formulas(Trees)
    BY DEF AllTrees
  <2>2. \A k \in DOMAIN e.args : e.args[k] \in Trees => e.args[k] \in S
    BY <1>1, <1>2, Zenon
  <2>3. a \in Trees /\ e.args = <<a>> => a \in S
    BY <2>2
  <2>4. a \in Trees /\ b \in Trees /\ e.args = <<a, b>> => a \in S /\ b \in S
    BY <2>2
  <2>5. a \in Trees /\ b \in Trees /\ c \in Trees /\ e.args = <<a, b, c>>
          => a \in S /\ b \in S /\ c \in S
    BY <2>2
  <2>6. CASE (e.op \in Truths \cup Data /\ e = Leaf(e.op))
             \/ (e.op = "bound" /\ e.par \in Data /\ e = Bound(e.par))
    BY <1>2, <2>6, Leaves
  <2>7. CASE e.op \in Wrapping /\ a \in Trees /\ e = Unary(e.op, a)
    BY <1>2, <2>3, <2>7, Built1 DEF Unary, Node
  <2>8. CASE e.op \in Steps /\ e.par \in Int /\ a \in Trees /\ e = Node(e.op, e.par, <<a>>)
    BY <1>2, <2>3, <2>8, Built1 DEF Node
  <2>9. CASE e.op \in Quantifiers /\ e.par \in Windows /\ a \in Trees /\ e = Node(e.op, e.par, <<a>>)
    BY <1>2, <2>3, <2>9, Built1 DEF Node
  <2>10. CASE e.op \in Connectives /\ a \in Trees /\ b \in Trees /\ e = Binary(e.op, a, b)
    BY <1>2, <2>4, <2>10, Built2 DEF Binary, Node
  <2>11. CASE e.op \in AllOps /\ e.par \in Windows /\ a \in Trees /\ b \in Trees
              /\ e = Node(e.op, e.par, <<a, b>>)
    BY <1>2, <2>4, <2>11, Built2 DEF Node
  <2>12. CASE e.op = "Choice" /\ a \in Trees /\ b \in Trees /\ c \in Trees
              /\ e = Node("Choice", None, <<a, b, c>>)
    BY <1>2, <2>5, <2>12, Built3 DEF Node
  <2> QED BY <2>1, <2>6, <2>7, <2>8, <2>9, <2>10, <2>11, <2>12, Kinds
<1>3. Trees \subseteq S
  BY <1>1, <1>2, Upwards
<1> QED BY <1>3

(* The operands of a formula, as the recursive definitions go through them.*)
LEMMA Operands1 ==
  ASSUME NEW op, NEW par, NEW a, NEW f
  PROVE  LET e == Node(op, par, <<a>>)
         IN  e.op = op /\ e.par = par /\ e.args = <<a>> /\ e.args[1] = a
             /\ [k \in DOMAIN e.args |-> f[e.args[k]]] = <<f[a]>>
BY DEF Node

LEMMA Operands2 ==
  ASSUME NEW op, NEW par, NEW a, NEW b, NEW f
  PROVE  LET e == Node(op, par, <<a, b>>)
         IN  e.op = op /\ e.par = par /\ e.args = <<a, b>> /\ e.args[1] = a /\ e.args[2] = b
             /\ [k \in DOMAIN e.args |-> f[e.args[k]]] = <<f[a], f[b]>>
BY DEF Node

LEMMA Operands3 ==
  ASSUME NEW op, NEW par, NEW a, NEW b, NEW c, NEW f
  PROVE  LET e == Node(op, par, <<a, b, c>>)
         IN  e.op = op /\ e.par = par /\ e.args = <<a, b, c>>
             /\ e.args[1] = a /\ e.args[2] = b /\ e.args[3] = c
             /\ [k \in DOMAIN e.args |-> f[e.args[k]]] = <<f[a], f[b], f[c]>>
BY DEF Node

----------------------------------------------------------------------------
LEMMA Nodes ==
  ASSUME AllTrees
  PROVE  /\ \A d \in Truths \cup Data : Leaf(d) \in Trees
         /\ \A d \in Data : Bound(d) \in Trees
         /\ \A op \in Wrapping, a \in Trees : Unary(op, a) \in Trees
         /\ \A op \in Steps, n \in Int, a \in Trees : Node(op, n, <<a>>) \in Trees
         /\ \A op \in Quantifiers, w \in Windows, a \in Trees : Node(op, w, <<a>>) \in Trees
         /\ \A op \in Connectives, a \in Trees, b \in Trees : Binary(op, a, b) \in Trees
         /\ \A op \in AllOps, w \in Windows, a \in Trees, b \in Trees : Node(op, w, <<a, b>>) \in Trees
         /\ \A a \in Trees, b \in Trees, c \in Trees : Node("Choice", None, <<a, b, c>>) \in Trees
         /\ True \in Trees /\ False \in Trees
<1>1. Trees = Formulas(Trees)
  BY DEF AllTrees
<1> HIDE DEF AllTrees
<1>2. /\ \A d \in Truths \cup Data : Leaf(d) \in Trees
      /\ \A d \in Data : Bound(d) \in Trees
  BY <1>1, Leaves
<1>3. /\ \A op \in Wrapping, a \in Trees : Unary(op, a) \in Trees
      /\ \A op \in Steps, n \in Int, a \in Trees : Node(op, n, <<a>>) \in Trees
      /\ \A op \in Quantifiers, w \in Windows, a \in Trees : Node(op, w, <<a>>) \in Trees
  BY <1>1, Built1
<1>4. /\ \A op \in Connectives, a \in Trees, b \in Trees : Binary(op, a, b) \in Trees
      /\ \A op \in AllOps, w \in Windows, a \in Trees, b \in Trees : Node(op, w, <<a, b>>) \in Trees
  BY <1>1, Built2
<1>5. \A a \in Trees, b \in Trees, c \in Trees : Node("Choice", None, <<a, b, c>>) \in Trees
  BY <1>1, Built3
<1>6. True \in Trees /\ False \in Trees
  BY <1>2 DEF True, False, Truths
<1> QED BY <1>2, <1>3, <1>4, <1>5, <1>6

LEMMA TreeKinds ==
  ASSUME AllTrees, NEW e \in Trees
  PROVE  LET a == e.args[1]
             b == e.args[2]
             c == e.args[3]
         IN  \/ e.op \in Truths \cup Data /\ e = Leaf(e.op)
             \/ e.op = "bound" /\ e.par \in Data /\ e = Bound(e.par)
             \/ e.op \in Wrapping /\ a \in Trees /\ e = Unary(e.op, a)
             \/ e.op \in Steps /\ e.par \in Int /\ a \in Trees /\ e = Node(e.op, e.par, <<a>>)
             \/ e.op \in Quantifiers /\ e.par \in Windows /\ a \in Trees /\ e = Node(e.op, e.par, <<a>>)
             \/ e.op \in Connectives /\ a \in Trees /\ b \in Trees /\ e = Binary(e.op, a, b)
             \/ e.op \in AllOps /\ e.par \in Windows /\ a \in Trees /\ b \in Trees
                /\ e = Node(e.op, e.par, <<a, b>>)
             \/ e.op = "Choice" /\ a \in Trees /\ b \in Trees /\ c \in Trees
                /\ e = Node("Choice", None, <<a, b, c>>)
<1>1. e \in Formulas(Trees)
  BY DEF AllTrees
<1> QED BY <1>1, Kinds

(* The operator of a formula decides what else there is to it.             *)
LEMMA ByOperator ==
  ASSUME AllTrees, NEW e \in Trees
  PROVE  LET a == e.args[1]
             b == e.args[2]
             c == e.args[3]
         IN  /\ e.op \in Truths \cup Data => e = Leaf(e.op)
             /\ e.op = "bound" => e.par \in Data /\ e = Bound(e.par)
             /\ e.op \in Wrapping => a \in Trees /\ e = Unary(e.op, a)
             /\ e.op \in Steps => e.par \in Int /\ a \in Trees /\ e = Node(e.op, e.par, <<a>>)
             /\ e.op \in Quantifiers => e.par \in Windows /\ a \in Trees /\ e = Node(e.op, e.par, <<a>>)
             /\ e.op \in Connectives => a \in Trees /\ b \in Trees /\ e = Binary(e.op, a, b)
             /\ e.op \in AllOps =>
                  e.par \in Windows /\ a \in Trees /\ b \in Trees /\ e = Node(e.op, e.par, <<a, b>>)
             /\ e.op = "Choice" =>
                  a \in Trees /\ b \in Trees /\ c \in Trees /\ e = Node("Choice", None, <<a, b, c>>)
             /\ e.op \in Names \cup Data
<1> DEFINE op == e.op
<1>1. Data \cap Names = {}
  BY DEF AllTrees
<1>2. /\ op \in Truths => op \notin Wrapping \cup Steps \cup Quantifiers \cup Connectives \cup AllOps \cup {"bound", "Choice"}
      /\ op \in Wrapping => op \notin Truths \cup Steps \cup Quantifiers \cup Connectives \cup AllOps \cup {"bound", "Choice"}
      /\ op \in Steps => op \notin Truths \cup Wrapping \cup Quantifiers \cup Connectives \cup AllOps \cup {"bound", "Choice"}
      /\ op \in Quantifiers => op \notin Truths \cup Wrapping \cup Steps \cup Connectives \cup AllOps \cup {"bound", "Choice"}
      /\ op \in Connectives => op \notin Truths \cup Wrapping \cup Steps \cup Quantifiers \cup AllOps \cup {"bound", "Choice"}
      /\ op \in AllOps => op \notin Truths \cup Wrapping \cup Steps \cup Quantifiers \cup Connectives \cup {"bound", "Choice"}
      /\ op \in {"bound", "Choice"} => op \notin Truths \cup Wrapping \cup Steps \cup Quantifiers \cup Connectives \cup AllOps
  BY DEF Truths, Wrapping, Steps, Quantifiers, Connectives, AllOps, FutureOps, PastOps
<1>3. op \in Data => op \notin Truths \cup Wrapping \cup Steps \cup Quantifiers \cup Connectives \cup AllOps \cup {"bound", "Choice"}
  BY <1>1 DEF Names
<1>4. op \in Names <=> op \in Truths \cup Wrapping \cup Steps \cup Quantifiers \cup Connectives \cup AllOps \cup {"bound", "Choice"}
  BY DEF Names
<1> HIDE DEF op
<1> QED BY <1>2, <1>3, <1>4, TreeKinds DEF op

LEMMA TreeFields ==
  ASSUME AllTrees, NEW e \in Trees
  PROVE  e = Node(e.op, e.par, e.args) /\ e.args \in Seq(Trees)
<1> DEFINE a == e.args[1]
           b == e.args[2]
           c == e.args[3]
<1>1. CASE (e.op \in Truths \cup Data /\ e = Leaf(e.op))
           \/ (e.op = "bound" /\ e.par \in Data /\ e = Bound(e.par))
  <2>1. e.args = <<>> /\ e = Node(e.op, e.par, <<>>)
    BY <1>1 DEF Leaf, Bound, Node
  <2> QED BY <2>1
<1>2. CASE \/ e.op \in Wrapping /\ a \in Trees /\ e = Unary(e.op, a)
           \/ e.op \in Steps /\ e.par \in Int /\ a \in Trees /\ e = Node(e.op, e.par, <<a>>)
           \/ e.op \in Quantifiers /\ e.par \in Windows /\ a \in Trees /\ e = Node(e.op, e.par, <<a>>)
  <2>1. e.args = <<a>> /\ e = Node(e.op, e.par, <<a>>) /\ a \in Trees
    BY <1>2 DEF Unary, Node
  <2>2. <<a>> \in Seq(Trees)
    BY <2>1
  <2> QED BY <2>1, <2>2, Zenon
<1>3. CASE \/ e.op \in Connectives /\ a \in Trees /\ b \in Trees /\ e = Binary(e.op, a, b)
           \/ e.op \in AllOps /\ e.par \in Windows /\ a \in Trees /\ b \in Trees
              /\ e = Node(e.op, e.par, <<a, b>>)
  <2>1. e.args = <<a, b>> /\ e = Node(e.op, e.par, <<a, b>>) /\ a \in Trees /\ b \in Trees
    BY <1>3 DEF Binary, Node
  <2>2. <<a, b>> \in Seq(Trees)
    BY <2>1
  <2> QED BY <2>1, <2>2, Zenon
<1>4. CASE e.op = "Choice" /\ a \in Trees /\ b \in Trees /\ c \in Trees
           /\ e = Node("Choice", None, <<a, b, c>>)
  <2>1. e.args = <<a, b, c>> /\ e = Node(e.op, e.par, <<a, b, c>>)
    BY <1>4 DEF Node
  <2>2. <<a, b, c>> \in Seq(Trees)
    BY <1>4
  <2> QED BY <2>1, <2>2, Zenon
<1> QED BY <1>1, <1>2, <1>3, <1>4, TreeKinds

(* A function may be defined by what it is at the operands.                *)
Args == [e \in Trees |-> e.args]

LEMMA FromOperands ==
  ASSUME AllTrees, NEW V, NEW calc, NEW some \in V, Yields(Trees, V, Args, calc)
  PROVE  \E f : Solves(f, Trees, V, Args, calc)
<1>1. PICK high \in [Trees -> Nat] :
        \A e \in Trees : \A k \in DOMAIN e.args : high[e.args[k]] < high[e]
  BY DEF AllTrees
<1>2. Args \in [Trees -> Seq(Trees)]
  BY TreeFields DEF Args
<1>3. \A e \in Trees : Args[e] = e.args
  BY DEF Args
<1>4. Lowers(Trees, Args, high)
  BY <1>1, <1>2, <1>3 DEF Lowers
<1> QED BY <1>4, Recursion

LEMMA Same ==
  ASSUME AllTrees, NEW f, NEW g,
         \A e \in Trees : (\A k \in DOMAIN e.args : f[e.args[k]] = g[e.args[k]]) => f[e] = g[e]
  PROVE  \A e \in Trees : f[e] = g[e]
<1> DEFINE S == {e \in Trees : f[e] = g[e]}
<1>1. PICK high \in [Trees -> Nat] :
        \A e \in Trees : \A k \in DOMAIN e.args : high[e.args[k]] < high[e]
  BY DEF AllTrees
<1>2. ASSUME NEW e \in Trees, \A c \in Trees : high[c] < high[e] => c \in S PROVE e \in S
  <2>1. \A k \in DOMAIN e.args : e.args[k] \in Trees
    BY TreeFields
  <2>2. \A k \in DOMAIN e.args : f[e.args[k]] = g[e.args[k]]
    BY <1>1, <1>2, <2>1
  <2> QED BY <2>2
<1> HIDE DEF S
<1>3. Trees \subseteq S
  BY <1>1, <1>2, Upwards
<1> QED BY <1>3 DEF S

(* The values at the operands. *)
Over(f, e) == [k \in DOMAIN e.args |-> f[e.args[k]]]

LEMMA OverType ==
  ASSUME AllTrees, NEW V, NEW f \in [Trees -> V], NEW e \in Trees
  PROVE  Over(f, e) \in Seq(V) /\ DOMAIN Over(f, e) = DOMAIN e.args
<1>1. e.args \in Seq(Trees)
  BY TreeFields
<1>2. Len(e.args) \in Nat /\ DOMAIN e.args = 1..Len(e.args) /\ \A k \in DOMAIN e.args : e.args[k] \in Trees
  BY <1>1
<1> DEFINE v == Over(f, e)
<1>3. v \in [1..Len(e.args) -> V]
  BY <1>2 DEF Over
<1>4. DOMAIN v = DOMAIN e.args
  BY DEF Over
<1> HIDE DEF v
<1>5. v \in UNION {[1..n -> V] : n \in Nat}
  BY <1>2, <1>3, Zenon
<1>6. v \in Seq(V)
  BY <1>5, SeqDef, Zenon
<1> QED BY <1>4, <1>6 DEF v

LEMMA OverSame ==
  ASSUME NEW f, NEW g, NEW e, \A k \in DOMAIN e.args : f[e.args[k]] = g[e.args[k]]
  PROVE  Over(f, e) = Over(g, e)
BY Zenon DEF Over

LEMMA SolvesOver ==
  ASSUME AllTrees, NEW V, NEW calc, NEW f, Solves(f, Trees, V, Args, calc)
  PROVE  f \in [Trees -> V] /\ \A e \in Trees : f[e] = calc[<<e, Over(f, e)>>]
<1>1. f \in [Trees -> V]
  BY DEF Solves
<1>2. ASSUME NEW e \in Trees PROVE f[e] = calc[<<e, Over(f, e)>>]
  <2>1. Args[e] = e.args
    BY DEF Args
  <2>2. f[e] = calc[<<e, [k \in DOMAIN Args[e] |-> f[Args[e][k]]]>>]
    BY DEF Solves
  <2> QED BY <2>1, <2>2 DEF Over
<1> QED BY <1>1, <1>2

----------------------------------------------------------------------------
(* What NegatedImpl makes of a formula, given what it made of its operands.*)
NegationOf(e, v) ==
  CASE e.op \in DOMAIN Dual -> Node(Dual[e.op], e.par, v)
    [] e.op \in DOMAIN Opposite -> Node(Opposite[e.op], e.par, e.args)
    [] e.op = "Imp"   -> Binary("And", e.args[1], v[2])
    [] e.op = "Not"   -> e.args[1]
    [] e.op = "Paren" -> v[1]
    [] OTHER -> Unary("Not", e)

LEMMA Domains ==
  /\ DOMAIN Dual = Truths \cup {"Or", "And", "At"} \cup Quantifiers \cup Steps \cup AllOps
  /\ DOMAIN Opposite = Connectives \ {"And", "Or", "Imp"}
  /\ Dual["true"] = "false" /\ Dual["false"] = "true"
  /\ Dual["Or"] = "And" /\ Dual["And"] = "Or" /\ Dual["At"] = "At"
  /\ \A op \in Steps : Dual[op] \in Steps
  /\ \A op \in Quantifiers : Dual[op] \in Quantifiers
  /\ \A op \in AllOps : Dual[op] \in AllOps
  /\ \A op \in DOMAIN Opposite : Opposite[op] \in DOMAIN Opposite
<1>1. DOMAIN Dual = Truths \cup {"Or", "And", "At"} \cup Quantifiers \cup Steps \cup AllOps
  BY DEF Dual, Truths, Quantifiers, Steps, AllOps, FutureOps, PastOps
<1>2. DOMAIN Opposite = Connectives \ {"And", "Or", "Imp"}
  BY DEF Opposite, Connectives
<1>3. /\ Dual["true"] = "false" /\ Dual["false"] = "true"
      /\ Dual["Or"] = "And" /\ Dual["And"] = "Or" /\ Dual["At"] = "At"
  BY DEF Dual
<1>4. \A op \in Steps : Dual[op] \in Steps
  BY DEF Dual, Steps
<1>5. \A op \in Quantifiers : Dual[op] \in Quantifiers
  BY DEF Dual, Quantifiers
<1>6. \A op \in AllOps : Dual[op] \in AllOps
  BY DEF Dual, AllOps, FutureOps, PastOps
<1>7. \A op \in DOMAIN Opposite : Opposite[op] \in DOMAIN Opposite
  BY <1>2 DEF Opposite, Connectives
<1> QED BY <1>1, <1>2, <1>3, <1>4, <1>5, <1>6, <1>7

(* The operators that NegatedImpl leaves under a negation. *)
Atoms == Data \cup {"bound", "Choice"}

LEMMA NegationCases ==
  ASSUME AllTrees, NEW e, NEW v
  PROVE  /\ e.op \in DOMAIN Dual => NegationOf(e, v) = Node(Dual[e.op], e.par, v)
         /\ e.op \in DOMAIN Opposite => NegationOf(e, v) = Node(Opposite[e.op], e.par, e.args)
         /\ e.op = "Imp" => NegationOf(e, v) = Binary("And", e.args[1], v[2])
         /\ e.op = "Not" => NegationOf(e, v) = e.args[1]
         /\ e.op = "Paren" => NegationOf(e, v) = v[1]
         /\ e.op \in Atoms => NegationOf(e, v) = Unary("Not", e)
<1>1. Data \cap Names = {}
  BY DEF AllTrees
<1>2. /\ e.op \in DOMAIN Dual => e.op \notin DOMAIN Opposite \cup {"Imp", "Not", "Paren"}
      /\ e.op \in DOMAIN Opposite => e.op \notin DOMAIN Dual \cup {"Imp", "Not", "Paren"}
  BY Domains DEF Connectives, Truths, Quantifiers, Steps, AllOps, FutureOps, PastOps
<1>3. /\ e.op \in DOMAIN Dual => NegationOf(e, v) = Node(Dual[e.op], e.par, v)
      /\ e.op \in DOMAIN Opposite => NegationOf(e, v) = Node(Opposite[e.op], e.par, e.args)
  BY <1>2 DEF NegationOf
<1>4. ASSUME e.op \in {"Imp", "Not", "Paren"} \cup Atoms
      PROVE  e.op \notin DOMAIN Dual /\ e.op \notin DOMAIN Opposite
  <2>1. e.op \in {"Imp", "Not", "Paren", "bound", "Choice"}
          => e.op \notin DOMAIN Dual /\ e.op \notin DOMAIN Opposite
    BY Domains DEF Connectives, Truths, Quantifiers, Steps, AllOps, FutureOps, PastOps
  <2>2. e.op \in Data => e.op \notin DOMAIN Dual /\ e.op \notin DOMAIN Opposite
    BY <1>1, Domains DEF Names, Wrapping, Connectives
  <2> QED BY <1>4, <2>1, <2>2 DEF Atoms
<1>5. e.op \in Atoms => e.op \notin {"Imp", "Not", "Paren"}
  BY <1>1 DEF Atoms, Names, Wrapping, Connectives
<1>6. /\ e.op = "Imp" => NegationOf(e, v) = Binary("And", e.args[1], v[2])
      /\ e.op = "Not" => NegationOf(e, v) = e.args[1]
      /\ e.op = "Paren" => NegationOf(e, v) = v[1]
  BY <1>4 DEF NegationOf
<1>7. e.op \in Atoms => NegationOf(e, v) = Unary("Not", e)
  BY <1>4, <1>5 DEF NegationOf
<1> QED BY <1>3, <1>6, <1>7

(* The values at the operands of a formula. *)
LEMMA Values ==
  ASSUME NEW T, NEW v \in Seq(T)
  PROVE  /\ \A a : DOMAIN v = DOMAIN <<a>> => v[1] \in T /\ v = <<v[1]>>
         /\ \A a, b : DOMAIN v = DOMAIN <<a, b>> => v[1] \in T /\ v[2] \in T /\ v = <<v[1], v[2]>>
         /\ \A a, b, c : DOMAIN v = DOMAIN <<a, b, c>> =>
              v[1] \in T /\ v[2] \in T /\ v[3] \in T /\ v = <<v[1], v[2], v[3]>>
         /\ DOMAIN v = DOMAIN <<>> => v = <<>>
<1>1. Len(v) \in Nat /\ v \in [1..Len(v) -> T] /\ DOMAIN v = 1..Len(v)
  BY LenProperties
<1> DEFINE n == Len(v)
<1> HIDE DEF n
<1>2. \A a : DOMAIN v = DOMAIN <<a>> => v[1] \in T /\ v = <<v[1]>>
  <2> SUFFICES ASSUME NEW a, DOMAIN v = DOMAIN <<a>> PROVE v[1] \in T /\ v = <<v[1]>>
    OBVIOUS
  <2>1. DOMAIN v = 1..1
    OBVIOUS
  <2> QED BY <1>1, <2>1
<1>3. \A a, b : DOMAIN v = DOMAIN <<a, b>> => v[1] \in T /\ v[2] \in T /\ v = <<v[1], v[2]>>
  <2> SUFFICES ASSUME NEW a, NEW b, DOMAIN v = DOMAIN <<a, b>>
               PROVE v[1] \in T /\ v[2] \in T /\ v = <<v[1], v[2]>>
    OBVIOUS
  <2>1. DOMAIN v = 1..2
    OBVIOUS
  <2> QED BY <1>1, <2>1
<1>4. \A a, b, c : DOMAIN v = DOMAIN <<a, b, c>> =>
        v[1] \in T /\ v[2] \in T /\ v[3] \in T /\ v = <<v[1], v[2], v[3]>>
  <2> SUFFICES ASSUME NEW a, NEW b, NEW c, DOMAIN v = DOMAIN <<a, b, c>>
               PROVE  v[1] \in T /\ v[2] \in T /\ v[3] \in T /\ v = <<v[1], v[2], v[3]>>
    OBVIOUS
  <2>1. DOMAIN v = 1..3
    OBVIOUS
  <2> QED BY <1>1, <2>1
<1>5. DOMAIN v = DOMAIN <<>> => v = <<>>
  BY <1>1
<1> QED BY <1>2, <1>3, <1>4, <1>5

LEMMA NegationType ==
  ASSUME AllTrees, NEW e \in Trees, NEW v \in Seq(Trees), DOMAIN v = DOMAIN e.args
  PROVE  NegationOf(e, v) \in Trees
<1> DEFINE a == e.args[1]
           b == e.args[2]
           c == e.args[3]
<1>1. CASE e.op \in Truths \cup Data /\ e = Leaf(e.op)
  <2>1. CASE e.op \in Truths
    <3>1. e.op \in DOMAIN Dual /\ Dual[e.op] \in Truths /\ e.par = None /\ v = <<>>
      BY <1>1, <2>1, Domains, Values DEF Truths, Leaf, Node
    <3>2. NegationOf(e, v) = Leaf(Dual[e.op])
      BY <3>1, NegationCases DEF Leaf
    <3> QED BY <3>1, <3>2, Nodes
  <2>2. CASE e.op \in Data
    BY <2>2, NegationCases, Nodes DEF Atoms, Wrapping
  <2> QED BY <1>1, <2>1, <2>2
<1>2. CASE e.op \in Atoms
  BY <1>2, NegationCases, Nodes DEF Wrapping
<1>3. CASE e.op \in Wrapping /\ a \in Trees /\ e = Unary(e.op, a)
  <2>1. e.args = <<a>> /\ e.par = None
    BY <1>3 DEF Unary, Node
  <2>2. v[1] \in Trees /\ v = <<v[1]>>
    BY <2>1, Values
  <2>3. e.op = "At" => NegationOf(e, v) = Unary("At", v[1])
    <3>1. "At" \in DOMAIN Dual /\ Dual["At"] = "At"
      BY Domains
    <3>2. e.op = "At" => NegationOf(e, v) = Node("At", None, v)
      BY <2>1, <3>1, NegationCases
    <3> QED BY <2>2, <3>2 DEF Unary
  <2> QED BY <1>3, <2>2, <2>3, NegationCases, Nodes DEF Wrapping
<1>4. CASE \/ e.op \in Steps /\ e.par \in Int /\ a \in Trees /\ e = Node(e.op, e.par, <<a>>)
           \/ e.op \in Quantifiers /\ e.par \in Windows /\ a \in Trees /\ e = Node(e.op, e.par, <<a>>)
  <2>1. e.args = <<a>> /\ e.op \in DOMAIN Dual
    BY <1>4, Domains DEF Node
  <2>2. v[1] \in Trees /\ v = <<v[1]>>
    BY <2>1, Values
  <2>3. NegationOf(e, v) = Node(Dual[e.op], e.par, <<v[1]>>)
    BY <2>1, <2>2, NegationCases
  <2> QED BY <1>4, <2>2, <2>3, Domains, Nodes
<1>5. CASE e.op \in Connectives /\ a \in Trees /\ b \in Trees /\ e = Binary(e.op, a, b)
  <2>1. e.args = <<a, b>> /\ e.par = None
    BY <1>5 DEF Binary, Node
  <2>2. v[1] \in Trees /\ v[2] \in Trees /\ v = <<v[1], v[2]>>
    BY <2>1, Values
  <2>3. e.op \in {"And", "Or"} => NegationOf(e, v) = Binary(Dual[e.op], v[1], v[2])
    BY <2>1, <2>2, Domains, NegationCases, ZenonT(60) DEF Binary
  <2>4. e.op \in DOMAIN Opposite => NegationOf(e, v) = Binary(Opposite[e.op], a, b)
    BY <2>1, NegationCases, ZenonT(60) DEF Binary
  <2>5. e.op = "Imp" => NegationOf(e, v) = Binary("And", a, v[2])
    BY NegationCases
  <2>6. /\ e.op \in {"And", "Or"} => Dual[e.op] \in Connectives
        /\ e.op \in DOMAIN Opposite => Opposite[e.op] \in Connectives
        /\ "And" \in Connectives
        /\ e.op \in {"And", "Or"} \/ e.op \in DOMAIN Opposite \/ e.op = "Imp"
    BY <1>5, Domains DEF Connectives
  <2> QED BY <1>5, <2>2, <2>3, <2>4, <2>5, <2>6, Nodes
<1>6. CASE e.op \in AllOps /\ e.par \in Windows /\ a \in Trees /\ b \in Trees /\ e = Node(e.op, e.par, <<a, b>>)
  <2>1. e.args = <<a, b>> /\ e.op \in DOMAIN Dual
    BY <1>6, Domains DEF Node
  <2>2. v[1] \in Trees /\ v[2] \in Trees /\ v = <<v[1], v[2]>>
    BY <2>1, Values
  <2>3. NegationOf(e, v) = Node(Dual[e.op], e.par, <<v[1], v[2]>>)
    BY <2>1, <2>2, NegationCases
  <2> QED BY <1>6, <2>2, <2>3, Domains, Nodes
<1> QED BY <1>1, <1>2, <1>3, <1>4, <1>5, <1>6, TreeKinds DEF Atoms

(* The recursive definition has a solution, and so is one. *)
LEMMA NegatedIs ==
  ASSUME AllTrees
  PROVE  Negated \in [Trees -> Trees] /\ \A e \in Trees : Negated[e] = NegationOf(e, Over(Negated, e))
<1> DEFINE calc == [p \in Trees \X Seq(Trees) |-> NegationOf(p[1], p[2])]
           Body0(g, e) ==
             CASE e.op \in DOMAIN Dual ->
                    Node(Dual[e.op], e.par, [k \in DOMAIN e.args |-> g[e.args[k]]])
               [] e.op \in DOMAIN Opposite -> Node(Opposite[e.op], e.par, e.args)
               [] e.op = "Imp"   -> Binary("And", e.args[1], g[e.args[2]])
               [] e.op = "Not"   -> e.args[1]
               [] e.op = "Paren" -> g[e.args[1]]
               [] OTHER -> Unary("Not", e)
           D(g) == g = [e \in Trees |-> Body0(g, e)]
           t == CHOOSE g : D(g)
<1>1. \A e \in Trees : \A v \in Seq(Trees) : calc[<<e, v>>] = NegationOf(e, v)
  OBVIOUS
<1> HIDE DEF calc
<1>2. Yields(Trees, Trees, Args, calc)
  BY <1>1, NegationType DEF Yields, Args
<1>3. PICK f : Solves(f, Trees, Trees, Args, calc)
  BY <1>2, Nodes, FromOperands
<1>4. f \in [Trees -> Trees] /\ \A e \in Trees : f[e] = NegationOf(e, Over(f, e))
  <2>1. f \in [Trees -> Trees] /\ \A e \in Trees : f[e] = calc[<<e, Over(f, e)>>]
    BY <1>3, SolvesOver
  <2>2. \A e \in Trees : Over(f, e) \in Seq(Trees)
    BY <2>1, OverType
  <2> QED BY <1>1, <2>1, <2>2
<1>5. ASSUME NEW e \in Trees, NEW g PROVE NegationOf(e, Over(g, e)) = Body0(g, e)
  <2>1. e.op = "Imp" => Over(g, e)[2] = g[e.args[2]]
    <3>1. e.op = "Imp" => e = Binary("Imp", e.args[1], e.args[2])
      BY ByOperator DEF Connectives
    <3>2. e.op = "Imp" => e.args = <<e.args[1], e.args[2]>>
      BY <3>1 DEF Binary, Node
    <3> QED BY <3>2 DEF Over
  <2>2. e.op = "Paren" => Over(g, e)[1] = g[e.args[1]]
    <3>1. e.op = "Paren" => e = Unary("Paren", e.args[1])
      BY ByOperator DEF Wrapping
    <3>2. e.op = "Paren" => e.args = <<e.args[1]>>
      BY <3>1 DEF Unary, Node
    <3> QED BY <3>2 DEF Over
  <2> QED BY <2>1, <2>2 DEF NegationOf, Over
<1> HIDE DEF Body0
<1>6. D(f)
  <2>1. f = [e \in Trees |-> f[e]]
    BY <1>4
  <2> QED BY <1>4, <1>5, <2>1, Zenon
<1>7. Negated = t
  BY DEF Negated, Body0
<1>8. D(t)
  BY <1>6, Zenon
<1> HIDE DEF t
<1>9. t = [e \in Trees |-> t[e]] /\ \A e \in Trees : t[e] = NegationOf(e, Over(t, e))
  BY <1>5, <1>8, Zenon
<1>10. \A e \in Trees : f[e] = t[e]
  <2>1. ASSUME NEW e \in Trees, \A k \in DOMAIN e.args : f[e.args[k]] = t[e.args[k]]
        PROVE  f[e] = t[e]
    <3>1. Over(f, e) = Over(t, e)
      BY <2>1, OverSame
    <3> QED BY <1>4, <1>9, <3>1
  <2> QED BY <2>1, Same
<1>11. t = f
  BY <1>4, <1>9, <1>10, Zenon
<1> QED BY <1>4, <1>7, <1>11

(* Negation, node by node. *)
LEMMA Negations ==
  ASSUME AllTrees
  PROVE  /\ Negated[True] = False /\ Negated[False] = True
         /\ \A e \in Trees : e.op \in Atoms => Negated[e] = Unary("Not", e)
         /\ \A a \in Trees : Negated[Unary("At", a)] = Unary("At", Negated[a])
         /\ \A a \in Trees : Negated[Unary("Paren", a)] = Negated[a]
         /\ \A a \in Trees : Negated[Unary("Not", a)] = a
         /\ \A op \in Steps, n \in Int, a \in Trees :
              Negated[Node(op, n, <<a>>)] = Node(Dual[op], n, <<Negated[a]>>)
         /\ \A op \in Quantifiers, w \in Windows, a \in Trees :
              Negated[Node(op, w, <<a>>)] = Node(Dual[op], w, <<Negated[a]>>)
         /\ \A op \in {"And", "Or"}, a \in Trees, b \in Trees :
              Negated[Binary(op, a, b)] = Binary(Dual[op], Negated[a], Negated[b])
         /\ \A a \in Trees, b \in Trees :
              Negated[Binary("Imp", a, b)] = Binary("And", a, Negated[b])
         /\ \A op \in DOMAIN Opposite, a \in Trees, b \in Trees :
              Negated[Binary(op, a, b)] = Binary(Opposite[op], a, b)
         /\ \A op \in AllOps, w \in Windows, a \in Trees, b \in Trees :
              Negated[Node(op, w, <<a, b>>)] = Node(Dual[op], w, <<Negated[a], Negated[b]>>)
<1>1. \A e \in Trees : Negated[e] = NegationOf(e, Over(Negated, e))
  BY NegatedIs
<1>2. Negated[True] = False /\ Negated[False] = True
  <2>1. /\ True.op = "true" /\ False.op = "false" /\ True.par = None /\ False.par = None
        /\ Over(Negated, True) = <<>> /\ Over(Negated, False) = <<>>
    BY DEF True, False, Leaf, Node, Over
  <2>2. /\ NegationOf(True, <<>>) = Node("false", None, <<>>)
        /\ NegationOf(False, <<>>) = Node("true", None, <<>>)
    BY <2>1, Domains, NegationCases DEF Truths
  <2> QED BY <1>1, <2>1, <2>2, Nodes DEF True, False, Leaf
<1>3. \A e \in Trees : e.op \in Atoms => Negated[e] = Unary("Not", e)
  BY <1>1, NegationCases
<1>4. ASSUME NEW a \in Trees
      PROVE  /\ Negated[Unary("At", a)] = Unary("At", Negated[a])
             /\ Negated[Unary("Paren", a)] = Negated[a]
             /\ Negated[Unary("Not", a)] = a
  <2>1. \A op \in Wrapping :
          LET e == Unary(op, a)
          IN  /\ e \in Trees /\ e.op = op /\ e.par = None /\ e.args[1] = a
              /\ Over(Negated, e) = <<Negated[a]>>
    BY Nodes, Operands1 DEF Unary, Over
  <2>2. "At" \in DOMAIN Dual /\ Dual["At"] = "At" /\ "At" \in Wrapping /\ "Paren" \in Wrapping /\ "Not" \in Wrapping
    BY Domains DEF Wrapping
  <2>3. Negated[Unary("At", a)] = Unary("At", Negated[a])
    <3>1. NegationOf(Unary("At", a), <<Negated[a]>>) = Node("At", None, <<Negated[a]>>)
      BY <2>1, <2>2, NegationCases
    <3> QED BY <1>1, <2>1, <2>2, <3>1 DEF Unary
  <2>4. Negated[Unary("Paren", a)] = Negated[a]
    <3>1. NegationOf(Unary("Paren", a), <<Negated[a]>>) = <<Negated[a]>>[1]
      BY <2>1, <2>2, NegationCases
    <3> QED BY <1>1, <2>1, <2>2, <3>1
  <2>5. Negated[Unary("Not", a)] = a
    <3>1. NegationOf(Unary("Not", a), <<Negated[a]>>) = a
      BY <2>1, <2>2, NegationCases
    <3> QED BY <1>1, <2>1, <2>2, <3>1
  <2> QED BY <2>3, <2>4, <2>5
<1>5. ASSUME NEW op, NEW par, NEW a \in Trees, Node(op, par, <<a>>) \in Trees, op \in DOMAIN Dual
      PROVE  Negated[Node(op, par, <<a>>)] = Node(Dual[op], par, <<Negated[a]>>)
  <2> DEFINE e == Node(op, par, <<a>>)
  <2>1. e.op = op /\ e.par = par /\ Over(Negated, e) = <<Negated[a]>>
    BY Operands1 DEF Over
  <2> HIDE DEF e
  <2>2. NegationOf(e, <<Negated[a]>>) = Node(Dual[op], par, <<Negated[a]>>)
    BY <1>5, <2>1, NegationCases
  <2> QED BY <1>1, <1>5, <2>1, <2>2 DEF e
<1>6. ASSUME NEW op, NEW par, NEW a \in Trees, NEW b \in Trees, Node(op, par, <<a, b>>) \in Trees
      PROVE  /\ op \in DOMAIN Dual =>
                  Negated[Node(op, par, <<a, b>>)] = Node(Dual[op], par, <<Negated[a], Negated[b]>>)
             /\ op \in DOMAIN Opposite =>
                  Negated[Node(op, par, <<a, b>>)] = Node(Opposite[op], par, <<a, b>>)
             /\ op = "Imp" =>
                  Negated[Node(op, par, <<a, b>>)] = Binary("And", a, Negated[b])
  <2> DEFINE e == Node(op, par, <<a, b>>)
             v == <<Negated[a], Negated[b]>>
  <2>0. Over(Negated, e) = v
    BY DEF Over, Node
  <2>2. v[2] = Negated[b]
    OBVIOUS
  <2> HIDE DEF v
  <2>1. e.op = op /\ e.par = par /\ e.args = <<a, b>> /\ e.args[1] = a
    BY DEF Node
  <2> HIDE DEF e
  <2>3. /\ op \in DOMAIN Dual => NegationOf(e, v) = Node(Dual[op], par, v)
        /\ op \in DOMAIN Opposite => NegationOf(e, v) = Node(Opposite[op], par, <<a, b>>)
        /\ op = "Imp" => NegationOf(e, v) = Binary("And", a, v[2])
    BY <2>1, NegationCases
  <2>4. Negated[e] = NegationOf(e, v)
    BY <1>1, <1>6, <2>0 DEF e
  <2> QED BY <2>2, <2>3, <2>4 DEF e, v
<1>7. \A op \in Steps, n \in Int, a \in Trees :
        Negated[Node(op, n, <<a>>)] = Node(Dual[op], n, <<Negated[a]>>)
  <2> SUFFICES ASSUME NEW op \in Steps, NEW n \in Int, NEW a \in Trees
               PROVE  Negated[Node(op, n, <<a>>)] = Node(Dual[op], n, <<Negated[a]>>)
    OBVIOUS
  <2>1. Node(op, n, <<a>>) \in Trees
    BY Nodes, Zenon
  <2>2. op \in DOMAIN Dual
    BY Domains
  <2> QED BY <1>5, <2>1, <2>2, Zenon
<1>8. \A op \in Quantifiers, w \in Windows, a \in Trees :
        Negated[Node(op, w, <<a>>)] = Node(Dual[op], w, <<Negated[a]>>)
  <2> SUFFICES ASSUME NEW op \in Quantifiers, NEW w \in Windows, NEW a \in Trees
               PROVE  Negated[Node(op, w, <<a>>)] = Node(Dual[op], w, <<Negated[a]>>)
    OBVIOUS
  <2>1. Node(op, w, <<a>>) \in Trees
    BY Nodes, Zenon
  <2>2. op \in DOMAIN Dual
    BY Domains
  <2> QED BY <1>5, <2>1, <2>2, Zenon
<1>9. \A op \in Connectives, a \in Trees, b \in Trees : Node(op, None, <<a, b>>) \in Trees
  BY Nodes DEF Binary
<1>10. ASSUME NEW op \in Connectives, NEW a \in Trees, NEW b \in Trees
       PROVE  /\ op \in {"And", "Or"} => Negated[Binary(op, a, b)] = Binary(Dual[op], Negated[a], Negated[b])
              /\ op \in DOMAIN Opposite => Negated[Binary(op, a, b)] = Binary(Opposite[op], a, b)
              /\ op = "Imp" => Negated[Binary(op, a, b)] = Binary("And", a, Negated[b])
  <2>1. Node(op, None, <<a, b>>) \in Trees
    BY <1>9
  <2>2. op \in {"And", "Or"} => op \in DOMAIN Dual
    BY Domains
  <2> QED BY <1>6, <2>1, <2>2 DEF Binary
<1>11. {"And", "Or", "Imp"} \subseteq Connectives /\ DOMAIN Opposite \subseteq Connectives
  BY Domains DEF Connectives
<1>12. ASSUME NEW op \in AllOps, NEW w \in Windows, NEW a \in Trees, NEW b \in Trees
       PROVE  Negated[Node(op, w, <<a, b>>)] = Node(Dual[op], w, <<Negated[a], Negated[b]>>)
  <2>1. Node(op, w, <<a, b>>) \in Trees
    BY Nodes
  <2>2. op \in DOMAIN Dual
    BY Domains
  <2> QED BY <1>6, <2>1, <2>2
<1>13. /\ \A op \in {"And", "Or"}, a \in Trees, b \in Trees :
            Negated[Binary(op, a, b)] = Binary(Dual[op], Negated[a], Negated[b])
       /\ \A op \in DOMAIN Opposite, a \in Trees, b \in Trees :
            Negated[Binary(op, a, b)] = Binary(Opposite[op], a, b)
  BY <1>10, <1>11
<1>14. \A a \in Trees, b \in Trees : Negated[Binary("Imp", a, b)] = Binary("And", a, Negated[b])
  BY <1>10, <1>11
<1> QED BY <1>2, <1>3, <1>4, <1>7, <1>8, <1>12, <1>13, <1>14

----------------------------------------------------------------------------
(* A segment the formulas are judged on, and what a formula may be at its  *)
(* rows: for each row that x may name, the data rows it holds at.          *)
Segment(s) == s.time \in [Row -> Int] /\ s.data \in [Data -> SUBSET DataRow]

Judgements == [Row -> SUBSET DataRow]

LEMMA HoldsLeaves ==
  ASSUME AllTrees, NEW e, NEW V, NEW s, NEW x
  PROVE  /\ e.op = "true" => Holds(e, V, s, x) = DataRow
         /\ e.op = "false" => Holds(e, V, s, x) = {}
         /\ e.op \in Data => Holds(e, V, s, x) = s.data[e.op]
         /\ e.op = "bound" => Holds(e, V, s, x) = IF x \in s.data[e.par] THEN DataRow ELSE {}
<1>1. Data \cap Names = {}
  BY DEF AllTrees
<1>2. /\ e.op = "true" => e.op \notin Data
      /\ e.op = "false" => e.op \notin Data
      /\ e.op = "bound" => e.op \notin Data
  BY <1>1 DEF Names, Truths
<1>3. e.op \in Data => e.op \notin Names
  BY <1>1
<1>4. e.op = "true" => Holds(e, V, s, x) = DataRow
  BY <1>2 DEF Holds
<1>5. e.op = "false" => Holds(e, V, s, x) = {}
  BY <1>2 DEF Holds
<1>6. e.op = "bound" => Holds(e, V, s, x) = IF x \in s.data[e.par] THEN DataRow ELSE {}
  BY <1>2 DEF Holds
<1>7. e.op \in Data => Holds(e, V, s, x) = s.data[e.op]
  BY <1>3 DEF Holds, Names, Truths, Wrapping, Steps, Quantifiers, Connectives
<1> QED BY <1>4, <1>5, <1>6, <1>7

LEMMA HoldsWrapping ==
  ASSUME AllTrees, NEW e, NEW V, NEW s, NEW x
  PROVE  /\ e.op = "At" => Holds(e, V, s, x) = {i \in DataRow : i \in V[1][i]}
         /\ e.op = "Paren" => Holds(e, V, s, x) = V[1][x]
         /\ e.op = "Not" => Holds(e, V, s, x) = DataRow \ V[1][x]
<1>1. Data \cap Names = {}
  BY DEF AllTrees
<1>2. e.op \in Wrapping => e.op \notin Data
  BY <1>1 DEF Names
<1>3. e.op = "At" => Holds(e, V, s, x) = {i \in DataRow : i \in V[1][i]}
  BY <1>2 DEF Holds, Wrapping
<1>4. e.op = "Paren" => Holds(e, V, s, x) = V[1][x]
  BY <1>2 DEF Holds, Wrapping
<1>5. e.op = "Not" => Holds(e, V, s, x) = DataRow \ V[1][x]
  BY <1>2 DEF Holds, Wrapping
<1> QED BY <1>3, <1>4, <1>5

LEMMA HoldsConnectives ==
  ASSUME AllTrees, NEW e, NEW V, NEW s, NEW x
  PROVE  LET lhs == V[1][x]
             rhs == V[2][x]
             sign(W, i) == IF i \in W THEN -1 ELSE 0
         IN  /\ e.op = "And" => Holds(e, V, s, x) = lhs \cap rhs
             /\ e.op = "Or"  => Holds(e, V, s, x) = lhs \cup rhs
             /\ e.op = "Imp" => Holds(e, V, s, x) = (DataRow \ lhs) \cup rhs
             /\ e.op \in {"Equ", "Eq"} => Holds(e, V, s, x) = {i \in DataRow : (i \in lhs) = (i \in rhs)}
             /\ e.op \in {"Xor", "Ne"} => Holds(e, V, s, x) = {i \in DataRow : (i \in lhs) # (i \in rhs)}
             /\ e.op \in {"Lt", "Le", "Gt", "Ge"} =>
                  Holds(e, V, s, x) = {i \in DataRow : Order(e.op, sign(lhs, i), sign(rhs, i))}
             /\ e.op = "Choice" =>
                  Holds(e, V, s, x) = (lhs \cap rhs) \cup ((DataRow \ lhs) \cap V[3][x])
<1> DEFINE lhs == V[1][x]
           rhs == V[2][x]
           sign(W, i) == IF i \in W THEN -1 ELSE 0
<1>1. Data \cap Names = {}
  BY DEF AllTrees
<1>2. e.op \in Connectives \cup {"Choice"} => e.op \notin Data
  BY <1>1 DEF Names
<1>3. e.op = "And" => Holds(e, V, s, x) = lhs \cap rhs
  BY <1>2 DEF Holds, Connectives
<1>4. e.op = "Or" => Holds(e, V, s, x) = lhs \cup rhs
  BY <1>2 DEF Holds, Connectives
<1>5. e.op = "Imp" => Holds(e, V, s, x) = (DataRow \ lhs) \cup rhs
  BY <1>2 DEF Holds, Connectives
<1>6. e.op \in {"Equ", "Eq"} => Holds(e, V, s, x) = {i \in DataRow : (i \in lhs) = (i \in rhs)}
  BY <1>2 DEF Holds, Connectives
<1>7. e.op \in {"Xor", "Ne"} => Holds(e, V, s, x) = {i \in DataRow : (i \in lhs) # (i \in rhs)}
  BY <1>2 DEF Holds, Connectives
<1>8. e.op \in {"Lt", "Le", "Gt", "Ge"} =>
        Holds(e, V, s, x) = {i \in DataRow : Order(e.op, sign(lhs, i), sign(rhs, i))}
  BY <1>2 DEF Holds, Connectives
<1>9. e.op = "Choice" =>
        Holds(e, V, s, x) = (lhs \cap rhs) \cup ((DataRow \ lhs) \cap V[3][x])
  BY <1>2 DEF Holds, Connectives
<1> QED BY <1>3, <1>4, <1>5, <1>6, <1>7, <1>8, <1>9

LEMMA HoldsSteps ==
  ASSUME AllTrees, NEW e, NEW V, NEW s, NEW x
  PROVE  /\ e.op = "Xs" => Holds(e, V, s, x) = Before(V[1][x], e.par)
         /\ e.op = "Xw" => Holds(e, V, s, x) = DataRow \ Before(DataRow \ V[1][x], e.par)
         /\ e.op = "Ys" => Holds(e, V, s, x) = Before(V[1][x], -e.par)
         /\ e.op = "Yw" => Holds(e, V, s, x) = DataRow \ Before(DataRow \ V[1][x], -e.par)
<1>1. Data \cap Names = {}
  BY DEF AllTrees
<1>2. e.op \in Steps => e.op \notin Data
  BY <1>1 DEF Names
<1>3. e.op = "Xs" => Holds(e, V, s, x) = Before(V[1][x], e.par)
  BY <1>2 DEF Holds, Steps
<1>4. e.op = "Xw" => Holds(e, V, s, x) = DataRow \ Before(DataRow \ V[1][x], e.par)
  BY <1>2 DEF Holds, Steps
<1>5. e.op = "Ys" => Holds(e, V, s, x) = Before(V[1][x], -e.par)
  BY <1>2 DEF Holds, Steps
<1>6. e.op = "Yw" => Holds(e, V, s, x) = DataRow \ Before(DataRow \ V[1][x], -e.par)
  BY <1>2 DEF Holds, Steps
<1> QED BY <1>3, <1>4, <1>5, <1>6

LEMMA HoldsTemporal ==
  ASSUME AllTrees, NEW e, NEW V, NEW s, NEW x
  PROVE  LET lhs == V[1][x]
             rhs == V[2][x]
         IN  /\ e.op = "G" => Holds(e, V, s, x) = {i \in DataRow : Ahead(e.par, s, i) \subseteq lhs}
             /\ e.op = "F" => Holds(e, V, s, x) = {i \in DataRow : Ahead(e.par, s, i) \cap lhs # {}}
             /\ e.op = "H" => Holds(e, V, s, x) = {i \in DataRow : Behind(e.par, s, i) \subseteq lhs}
             /\ e.op = "O" => Holds(e, V, s, x) = {i \in DataRow : Behind(e.par, s, i) \cap lhs # {}}
             /\ e.op \in AllOps =>
                  Holds(e, V, s, x) = {i \in DataRow : Meaning(CallAt(e.op, e.par, lhs, rhs, s, i))}
<1> DEFINE lhs == V[1][x]
           rhs == V[2][x]
<1>1. Data \cap Names = {}
  BY DEF AllTrees
<1>2. e.op \in Quantifiers \cup AllOps => e.op \notin Data
  BY <1>1 DEF Names
<1>3. e.op = "G" => Holds(e, V, s, x) = {i \in DataRow : Ahead(e.par, s, i) \subseteq lhs}
  BY <1>2 DEF Holds, Quantifiers
<1>4. e.op = "F" => Holds(e, V, s, x) = {i \in DataRow : Ahead(e.par, s, i) \cap lhs # {}}
  BY <1>2 DEF Holds, Quantifiers
<1>5. e.op = "H" => Holds(e, V, s, x) = {i \in DataRow : Behind(e.par, s, i) \subseteq lhs}
  BY <1>2 DEF Holds, Quantifiers
<1>6. e.op = "O" => Holds(e, V, s, x) = {i \in DataRow : Behind(e.par, s, i) \cap lhs # {}}
  BY <1>2 DEF Holds, Quantifiers
<1>7. e.op \in AllOps =>
        Holds(e, V, s, x) = {i \in DataRow : Meaning(CallAt(e.op, e.par, lhs, rhs, s, i))}
  BY <1>2 DEF Holds, AllOps, FutureOps, PastOps
<1> QED BY <1>3, <1>4, <1>5, <1>6, <1>7

LEMMA BeforeType ==
  ASSUME NEW V, NEW n
  PROVE  Before(V, n) \subseteq DataRow
BY DEF Before

LEMMA HoldsType ==
  ASSUME AllTrees, NEW e \in Trees, NEW v \in Seq(Judgements), DOMAIN v = DOMAIN e.args,
         NEW s, Segment(s), NEW x \in Row
  PROVE  Holds(e, v, s, x) \subseteq DataRow
<1> DEFINE a == e.args[1]
           b == e.args[2]
           c == e.args[3]
<1>1. CASE e.op \in Truths \cup Data /\ e = Leaf(e.op)
  BY <1>1, HoldsLeaves DEF Segment, Truths
<1>2. CASE e.op = "bound"
  BY <1>2, HoldsLeaves
<1>3. CASE e.op \in Wrapping /\ a \in Trees /\ e = Unary(e.op, a)
  <2>1. e.args = <<a>>
    BY <1>3 DEF Unary, Node
  <2>2. v[1] \in Judgements
    BY <2>1, Values
  <2>3. v[1][x] \subseteq DataRow
    BY <2>2 DEF Judgements
  <2> QED BY <1>3, <2>3, HoldsWrapping DEF Wrapping
<1>4. CASE e.op \in Steps \cup Quantifiers \cup AllOps
  <2>1. e.op \in Steps => Holds(e, v, s, x) \subseteq DataRow
    <3>1. \A V, n : Before(V, n) \subseteq DataRow
      BY BeforeType
    <3>2. /\ e.op = "Xs" => Holds(e, v, s, x) = Before(v[1][x], e.par)
          /\ e.op = "Xw" => Holds(e, v, s, x) = DataRow \ Before(DataRow \ v[1][x], e.par)
      BY HoldsSteps, ZenonT(60)
    <3>3. /\ e.op = "Ys" => Holds(e, v, s, x) = Before(v[1][x], -e.par)
          /\ e.op = "Yw" => Holds(e, v, s, x) = DataRow \ Before(DataRow \ v[1][x], -e.par)
      BY HoldsSteps, ZenonT(60)
    <3> QED BY <3>1, <3>2, <3>3 DEF Steps
  <2>2. e.op \in Quantifiers => Holds(e, v, s, x) \subseteq DataRow
    BY HoldsTemporal DEF Quantifiers
  <2>3. e.op \in AllOps => Holds(e, v, s, x) \subseteq DataRow
    BY HoldsTemporal
  <2> QED BY <1>4, <2>1, <2>2, <2>3
<1>5. CASE e.op \in Connectives /\ a \in Trees /\ b \in Trees /\ e = Binary(e.op, a, b)
  <2>1. e.args = <<a, b>>
    BY <1>5 DEF Binary, Node
  <2>2. v[1] \in Judgements /\ v[2] \in Judgements
    BY <2>1, Values
  <2>3. v[1][x] \subseteq DataRow /\ v[2][x] \subseteq DataRow
    BY <2>2 DEF Judgements
  <2>4. e.op \in {"And", "Or", "Imp"} => Holds(e, v, s, x) \subseteq DataRow
    BY <2>3, HoldsConnectives
  <2>5. e.op \in {"Equ", "Eq", "Xor", "Ne", "Lt", "Le", "Gt", "Ge"} => Holds(e, v, s, x) \subseteq DataRow
    BY HoldsConnectives
  <2> QED BY <1>5, <2>4, <2>5 DEF Connectives
<1>6. CASE e.op = "Choice" /\ a \in Trees /\ b \in Trees /\ c \in Trees
           /\ e = Node("Choice", None, <<a, b, c>>)
  <2>1. e.args = <<a, b, c>>
    BY <1>6 DEF Node
  <2>2. v[1] \in Judgements /\ v[2] \in Judgements /\ v[3] \in Judgements
    BY <2>1, Values
  <2>3. v[1][x] \subseteq DataRow /\ v[2][x] \subseteq DataRow /\ v[3][x] \subseteq DataRow
    BY <2>2 DEF Judgements
  <2> QED BY <1>6, <2>3, HoldsConnectives
<1> QED BY <1>1, <1>2, <1>3, <1>4, <1>5, <1>6, TreeKinds

(* What a formula is at a row depends on its operator, its parameter and   *)
(* what its operands are.                                                  *)
LEMMA HoldsSame ==
  ASSUME NEW op, NEW par, NEW a, NEW b, NEW V, NEW s, NEW x
  PROVE  Holds(Node(op, par, a), V, s, x) = Holds(Node(op, par, b), V, s, x)
BY DEF Holds, Node

(* The function Sat defines for a segment has one value for each formula.  *)
SatOf(s) ==
  CHOOSE g : g = [f \in Trees |->
                    [y \in Row |-> Holds(f, [k \in DOMAIN f.args |-> g[f.args[k]]], s, y)]]

LEMMA SatOfIs ==
  ASSUME AllTrees, NEW s, Segment(s)
  PROVE  /\ SatOf(s) \in [Trees -> Judgements]
         /\ \A e \in Trees : SatOf(s)[e] = [y \in Row |-> Holds(e, Over(SatOf(s), e), s, y)]
<1> DEFINE calc == [p \in Trees \X Seq(Judgements) |-> [y \in Row |-> Holds(p[1], p[2], s, y)]]
           Body0(g, e) == [y \in Row |-> Holds(e, [k \in DOMAIN e.args |-> g[e.args[k]]], s, y)]
           D(g) == g = [e \in Trees |-> Body0(g, e)]
           t == CHOOSE g : D(g)
<1>1. \A e \in Trees : \A v \in Seq(Judgements) : calc[<<e, v>>] = [y \in Row |-> Holds(e, v, s, y)]
  OBVIOUS
<1> HIDE DEF calc
<1>2. Yields(Trees, Judgements, Args, calc)
  <2> SUFFICES ASSUME NEW e \in Trees, NEW v \in Seq(Judgements), DOMAIN v = DOMAIN e.args
               PROVE  calc[<<e, v>>] \in Judgements
    BY DEF Yields, Args
  <2>1. ASSUME NEW y \in Row PROVE Holds(e, v, s, y) \in SUBSET DataRow
    BY HoldsType
  <2>2. [y \in Row |-> Holds(e, v, s, y)] \in Judgements
    BY <2>1 DEF Judgements
  <2> QED BY <1>1, <2>2
<1>3. PICK f : Solves(f, Trees, Judgements, Args, calc)
  <2>1. [y \in Row |-> {}] \in Judgements
    BY DEF Judgements
  <2> QED BY <1>2, <2>1, FromOperands
<1>4. f \in [Trees -> Judgements] /\ \A e \in Trees : f[e] = [y \in Row |-> Holds(e, Over(f, e), s, y)]
  <2>1. f \in [Trees -> Judgements] /\ \A e \in Trees : f[e] = calc[<<e, Over(f, e)>>]
    BY <1>3, SolvesOver
  <2>2. \A e \in Trees : Over(f, e) \in Seq(Judgements)
    BY <2>1, OverType
  <2> QED BY <1>1, <2>1, <2>2
<1>5. ASSUME NEW e \in Trees, NEW g PROVE [y \in Row |-> Holds(e, Over(g, e), s, y)] = Body0(g, e)
  BY DEF Over
<1> HIDE DEF Body0
<1>6. D(f)
  <2>1. f = [e \in Trees |-> f[e]]
    BY <1>4
  <2>2. \A e \in Trees : f[e] = Body0(f, e)
    BY <1>4, <1>5, Zenon
  <2> QED BY <2>1, <2>2, Zenon
<1>7. SatOf(s) = t
  BY DEF SatOf, Body0
<1>8. D(t)
  BY <1>6, Zenon
<1> HIDE DEF t
<1>9. t = [e \in Trees |-> t[e]] /\ \A e \in Trees : t[e] = [y \in Row |-> Holds(e, Over(t, e), s, y)]
  BY <1>5, <1>8, Zenon
<1>10. \A e \in Trees : f[e] = t[e]
  <2>1. ASSUME NEW e \in Trees, \A k \in DOMAIN e.args : f[e.args[k]] = t[e.args[k]]
        PROVE  f[e] = t[e]
    <3>1. Over(f, e) = Over(t, e)
      BY <2>1, OverSame
    <3> QED BY <1>4, <1>9, <3>1, Zenon
  <2> QED BY <2>1, Same
<1>11. t = f
  BY <1>4, <1>9, <1>10, Zenon
<1> QED BY <1>4, <1>7, <1>11

LEMMA SatIs ==
  ASSUME AllTrees, NEW s, Segment(s), NEW e \in Trees, NEW x \in Row
  PROVE  Sat(e, s, x) = SatOf(s)[e][x] /\ Sat(e, s, x) \subseteq DataRow
<1>1. Sat(e, s, x) = SatOf(s)[e][x]
  BY DEF Sat, SatOf
<1> QED BY <1>1, SatOfIs DEF Judgements

(* Where a formula holds, by where its operands hold.                      *)
Judged(e, s) == [y \in Row |-> Sat(e, s, y)]

LEMMA JudgedIs ==
  ASSUME NEW e, NEW s, NEW x \in Row
  PROVE  Judged(e, s)[x] = Sat(e, s, x)
BY DEF Judged

LEMMA SatNode ==
  ASSUME AllTrees, NEW s, Segment(s), NEW e \in Trees, NEW x \in Row
  PROVE  Sat(e, s, x) = Holds(e, [k \in DOMAIN e.args |-> Judged(e.args[k], s)], s, x)
<1>1. ASSUME NEW f \in Trees PROVE SatOf(s)[f] = Judged(f, s)
  <2>1. SatOf(s)[f] \in Judgements
    BY SatOfIs
  <2>2. \A y \in Row : SatOf(s)[f][y] = Sat(f, s, y)
    BY SatIs
  <2> QED BY <2>1, <2>2 DEF Judgements, Judged
<1>2. \A k \in DOMAIN e.args : e.args[k] \in Trees
  BY TreeFields
<1>3. Over(SatOf(s), e) = [k \in DOMAIN e.args |-> Judged(e.args[k], s)]
  BY <1>1, <1>2, Zenon DEF Over
<1>4. SatOf(s)[e] = [y \in Row |-> Holds(e, [k \in DOMAIN e.args |-> Judged(e.args[k], s)], s, y)]
  BY <1>3, SatOfIs
<1> HIDE DEF Judged
<1> QED BY <1>4, SatIs

LEMMA SatAt1 ==
  ASSUME AllTrees, NEW s, Segment(s), NEW x \in Row, NEW op, NEW par, NEW a \in Trees,
         Node(op, par, <<a>>) \in Trees
  PROVE  Sat(Node(op, par, <<a>>), s, x) = Holds(Node(op, par, <<a>>), <<Judged(a, s)>>, s, x)
<1> DEFINE e == Node(op, par, <<a>>)
<1>1. [k \in DOMAIN e.args |-> Judged(e.args[k], s)] = <<Judged(a, s)>>
  BY DEF Node
<1> HIDE DEF e
<1>2. Sat(e, s, x) = Holds(e, <<Judged(a, s)>>, s, x)
  BY <1>1, SatNode DEF e
<1> QED BY <1>2 DEF e

LEMMA SatAt2 ==
  ASSUME AllTrees, NEW s, Segment(s), NEW x \in Row, NEW op, NEW par, NEW a \in Trees, NEW b \in Trees,
         Node(op, par, <<a, b>>) \in Trees
  PROVE  Sat(Node(op, par, <<a, b>>), s, x)
           = Holds(Node(op, par, <<a, b>>), <<Judged(a, s), Judged(b, s)>>, s, x)
<1> DEFINE e == Node(op, par, <<a, b>>)
<1>1. [k \in DOMAIN e.args |-> Judged(e.args[k], s)] = <<Judged(a, s), Judged(b, s)>>
  BY DEF Node
<1> HIDE DEF e
<1>2. Sat(e, s, x) = Holds(e, <<Judged(a, s), Judged(b, s)>>, s, x)
  BY <1>1, SatNode DEF e
<1> QED BY <1>2 DEF e

LEMMA SatAt3 ==
  ASSUME AllTrees, NEW s, Segment(s), NEW x \in Row, NEW op, NEW par,
         NEW a \in Trees, NEW b \in Trees, NEW c \in Trees, Node(op, par, <<a, b, c>>) \in Trees
  PROVE  Sat(Node(op, par, <<a, b, c>>), s, x)
           = Holds(Node(op, par, <<a, b, c>>), <<Judged(a, s), Judged(b, s), Judged(c, s)>>, s, x)
<1> DEFINE e == Node(op, par, <<a, b, c>>)
<1>1. [k \in DOMAIN e.args |-> Judged(e.args[k], s)] = <<Judged(a, s), Judged(b, s), Judged(c, s)>>
  BY DEF Node
<1> HIDE DEF e
<1>2. Sat(e, s, x) = Holds(e, <<Judged(a, s), Judged(b, s), Judged(c, s)>>, s, x)
  BY <1>1, SatNode DEF e
<1> QED BY <1>2 DEF e

LEMMA SatLeaves ==
  ASSUME AllTrees, NEW s, Segment(s), NEW x \in Row
  PROVE  /\ Sat(True, s, x) = DataRow /\ Sat(False, s, x) = {}
         /\ \A d \in Data : Sat(Leaf(d), s, x) = s.data[d]
         /\ \A d \in Data : Sat(Bound(d), s, x) = IF x \in s.data[d] THEN DataRow ELSE {}
<1>1. True.op = "true" /\ False.op = "false" /\ True \in Trees /\ False \in Trees
  BY Nodes DEF True, False, Leaf, Node
<1>0. \A e \in Trees : \E V : Sat(e, s, x) = Holds(e, V, s, x)
  BY SatNode, Zenon
<1>2. Sat(True, s, x) = DataRow /\ Sat(False, s, x) = {}
  BY <1>0, <1>1, HoldsLeaves
<1>3. ASSUME NEW d \in Data PROVE Sat(Leaf(d), s, x) = s.data[d]
  <2>1. Leaf(d).op = d /\ Leaf(d) \in Trees
    BY Nodes DEF Leaf, Node
  <2> QED BY <1>0, <2>1, HoldsLeaves
<1>4. ASSUME NEW d \in Data PROVE Sat(Bound(d), s, x) = IF x \in s.data[d] THEN DataRow ELSE {}
  <2>1. Bound(d).op = "bound" /\ Bound(d).par = d /\ Bound(d) \in Trees
    BY Nodes DEF Bound, Node
  <2> QED BY <1>0, <2>1, HoldsLeaves
<1> QED BY <1>2, <1>3, <1>4

LEMMA SatWrapping ==
  ASSUME AllTrees, NEW s, Segment(s), NEW x \in Row, NEW a \in Trees
  PROVE  /\ Sat(Unary("At", a), s, x) = {i \in DataRow : i \in Sat(a, s, i)}
         /\ Sat(Unary("Paren", a), s, x) = Sat(a, s, x)
         /\ Sat(Unary("Not", a), s, x) = DataRow \ Sat(a, s, x)
<1> DEFINE V == <<Judged(a, s)>>
<1>1. V[1] = Judged(a, s)
  OBVIOUS
<1>2. \A i \in Row : V[1][i] = Sat(a, s, i)
  BY <1>1, JudgedIs
<1>3. DataRow \subseteq Row
  BY TraceAssumption DEF DataRow, Row
<1>4. ASSUME NEW op \in Wrapping
      PROVE  Unary(op, a).op = op /\ Sat(Unary(op, a), s, x) = Holds(Unary(op, a), V, s, x)
  <2>1. Node(op, None, <<a>>) \in Trees
    BY Nodes DEF Unary
  <2>2. Unary(op, a).op = op
    BY DEF Unary, Node
  <2>3. Sat(Node(op, None, <<a>>), s, x) = Holds(Node(op, None, <<a>>), V, s, x)
    BY <2>1, SatAt1
  <2> QED BY <2>2, <2>3 DEF Unary
<1> HIDE DEF V
<1>5. "At" \in Wrapping /\ "Paren" \in Wrapping /\ "Not" \in Wrapping
  BY DEF Wrapping
<1>6. Sat(Unary("At", a), s, x) = {i \in DataRow : i \in Sat(a, s, i)}
  <2>1. Holds(Unary("At", a), V, s, x) = {i \in DataRow : i \in V[1][i]}
    BY <1>4, <1>5, HoldsWrapping
  <2> QED BY <1>2, <1>3, <1>4, <1>5, <2>1
<1>7. Sat(Unary("Paren", a), s, x) = Sat(a, s, x) /\ Sat(Unary("Not", a), s, x) = DataRow \ Sat(a, s, x)
  BY <1>2, <1>4, <1>5, HoldsWrapping
<1> QED BY <1>6, <1>7

LEMMA SatConnectives ==
  ASSUME AllTrees, NEW s, Segment(s), NEW x \in Row, NEW a \in Trees, NEW b \in Trees
  PROVE  LET lhs == Sat(a, s, x)
             rhs == Sat(b, s, x)
             sign(W, i) == IF i \in W THEN -1 ELSE 0
         IN  /\ Sat(Binary("And", a, b), s, x) = lhs \cap rhs
             /\ Sat(Binary("Or", a, b), s, x) = lhs \cup rhs
             /\ Sat(Binary("Imp", a, b), s, x) = (DataRow \ lhs) \cup rhs
             /\ \A op \in {"Equ", "Eq"} :
                  Sat(Binary(op, a, b), s, x) = {i \in DataRow : (i \in lhs) = (i \in rhs)}
             /\ \A op \in {"Xor", "Ne"} :
                  Sat(Binary(op, a, b), s, x) = {i \in DataRow : (i \in lhs) # (i \in rhs)}
             /\ \A op \in {"Lt", "Le", "Gt", "Ge"} :
                  Sat(Binary(op, a, b), s, x) = {i \in DataRow : Order(op, sign(lhs, i), sign(rhs, i))}
<1> DEFINE V == <<Judged(a, s), Judged(b, s)>>
           lhs == Sat(a, s, x)
           rhs == Sat(b, s, x)
           sign(W, i) == IF i \in W THEN -1 ELSE 0
<1>1. V[1][x] = lhs /\ V[2][x] = rhs
  BY JudgedIs
<1>2. ASSUME NEW op \in Connectives
      PROVE  Binary(op, a, b).op = op /\ Sat(Binary(op, a, b), s, x) = Holds(Binary(op, a, b), V, s, x)
  <2>1. Node(op, None, <<a, b>>) \in Trees
    BY Nodes DEF Binary
  <2>2. Binary(op, a, b).op = op
    BY DEF Binary, Node
  <2>3. Sat(Node(op, None, <<a, b>>), s, x) = Holds(Node(op, None, <<a, b>>), V, s, x)
    BY <2>1, SatAt2
  <2> QED BY <2>2, <2>3 DEF Binary
<1> HIDE DEF V, lhs, rhs
<1>3. {"And", "Or", "Imp", "Equ", "Eq", "Xor", "Ne", "Lt", "Le", "Gt", "Ge"} \subseteq Connectives
  BY DEF Connectives
<1>4. /\ Sat(Binary("And", a, b), s, x) = lhs \cap rhs
      /\ Sat(Binary("Or", a, b), s, x) = lhs \cup rhs
      /\ Sat(Binary("Imp", a, b), s, x) = (DataRow \ lhs) \cup rhs
  BY <1>1, <1>2, <1>3, HoldsConnectives
<1>5. ASSUME NEW op \in {"Equ", "Eq"}
      PROVE  Sat(Binary(op, a, b), s, x) = {i \in DataRow : (i \in lhs) = (i \in rhs)}
  BY <1>1, <1>2, <1>3, HoldsConnectives
<1>6. ASSUME NEW op \in {"Xor", "Ne"}
      PROVE  Sat(Binary(op, a, b), s, x) = {i \in DataRow : (i \in lhs) # (i \in rhs)}
  BY <1>1, <1>2, <1>3, HoldsConnectives
<1>7. ASSUME NEW op \in {"Lt", "Le", "Gt", "Ge"}
      PROVE  Sat(Binary(op, a, b), s, x) = {i \in DataRow : Order(op, sign(lhs, i), sign(rhs, i))}
  BY <1>1, <1>2, <1>3, HoldsConnectives
<1> QED BY <1>4, <1>5, <1>6, <1>7 DEF lhs, rhs

LEMMA SatChoice ==
  ASSUME AllTrees, NEW s, Segment(s), NEW x \in Row, NEW a \in Trees, NEW b \in Trees, NEW c \in Trees
  PROVE  Sat(Node("Choice", None, <<a, b, c>>), s, x)
           = (Sat(a, s, x) \cap Sat(b, s, x)) \cup ((DataRow \ Sat(a, s, x)) \cap Sat(c, s, x))
<1> DEFINE V == <<Judged(a, s), Judged(b, s), Judged(c, s)>>
           e == Node("Choice", None, <<a, b, c>>)
<1>1. V[1][x] = Sat(a, s, x) /\ V[2][x] = Sat(b, s, x) /\ V[3][x] = Sat(c, s, x)
  BY JudgedIs
<1>2. e \in Trees /\ e.op = "Choice"
  BY Nodes DEF Node
<1>3. Sat(e, s, x) = Holds(e, V, s, x)
  BY <1>2, SatAt3
<1> HIDE DEF V, e
<1> QED BY <1>1, <1>2, <1>3, HoldsConnectives DEF e

Stepped(op, n, V) ==
  CASE op = "Xs" -> Before(V, n)
    [] op = "Xw" -> DataRow \ Before(DataRow \ V, n)
    [] op = "Ys" -> Before(V, -n)
    [] op = "Yw" -> DataRow \ Before(DataRow \ V, -n)

LEMMA SatSteps ==
  ASSUME AllTrees, NEW s, Segment(s), NEW x \in Row, NEW op \in Steps, NEW n \in Int, NEW a \in Trees
  PROVE  Sat(Node(op, n, <<a>>), s, x) = Stepped(op, n, Sat(a, s, x))
<1> DEFINE V == <<Judged(a, s)>>
           lhs == Sat(a, s, x)
           e == Node(op, n, <<a>>)
<1>1. V[1][x] = lhs
  BY JudgedIs
<1>2. e \in Trees
  BY Nodes
<1>3. e.op = op /\ e.par = n
  BY DEF Node
<1>4. Sat(e, s, x) = Holds(e, V, s, x)
  BY <1>2, SatAt1
<1> HIDE DEF V, e, lhs
<1>5. /\ e.op = "Xs" => Holds(e, V, s, x) = Before(V[1][x], e.par)
      /\ e.op = "Xw" => Holds(e, V, s, x) = DataRow \ Before(DataRow \ V[1][x], e.par)
  BY HoldsSteps, ZenonT(60)
<1>6. /\ e.op = "Ys" => Holds(e, V, s, x) = Before(V[1][x], -e.par)
      /\ e.op = "Yw" => Holds(e, V, s, x) = DataRow \ Before(DataRow \ V[1][x], -e.par)
  BY HoldsSteps, ZenonT(60)
<1>7. Sat(e, s, x) = Stepped(op, n, lhs)
  BY <1>1, <1>3, <1>4, <1>5, <1>6 DEF Steps, Stepped
<1> QED BY <1>7 DEF e, lhs

LEMMA DualSteps ==
  ASSUME NEW op \in Steps, NEW n, NEW V, V \subseteq DataRow
  PROVE  Stepped(Dual[op], n, DataRow \ V) = DataRow \ Stepped(op, n, V)
<1>1. DataRow \ (DataRow \ V) = V
  OBVIOUS
<1>2. \A m : DataRow \ (DataRow \ Before(V, m)) = Before(V, m)
  BY BeforeType
<1>3. \A m : DataRow \ (DataRow \ Before(DataRow \ V, m)) = Before(DataRow \ V, m)
  BY BeforeType
<1>4. Dual["Xs"] = "Xw" /\ Dual["Xw"] = "Xs" /\ Dual["Ys"] = "Yw" /\ Dual["Yw"] = "Ys"
  BY DEF Dual
<1>5. CASE op = "Xs"
  BY <1>1, <1>4, <1>5 DEF Stepped
<1>6. CASE op = "Xw"
  BY <1>3, <1>4, <1>6 DEF Stepped
<1>7. CASE op = "Ys"
  BY <1>1, <1>4, <1>7 DEF Stepped
<1>8. CASE op = "Yw"
  BY <1>3, <1>4, <1>8 DEF Stepped
<1> QED BY <1>5, <1>6, <1>7, <1>8 DEF Steps

LEMMA SatQuantifiers ==
  ASSUME AllTrees, NEW s, Segment(s), NEW x \in Row, NEW a \in Trees, NEW w \in Windows
  PROVE  LET lhs == Sat(a, s, x)
         IN  /\ Sat(Node("G", w, <<a>>), s, x) = {i \in DataRow : Ahead(w, s, i) \subseteq lhs}
             /\ Sat(Node("F", w, <<a>>), s, x) = {i \in DataRow : Ahead(w, s, i) \cap lhs # {}}
             /\ Sat(Node("H", w, <<a>>), s, x) = {i \in DataRow : Behind(w, s, i) \subseteq lhs}
             /\ Sat(Node("O", w, <<a>>), s, x) = {i \in DataRow : Behind(w, s, i) \cap lhs # {}}
<1> DEFINE V == <<Judged(a, s)>>
           lhs == Sat(a, s, x)
<1>1. V[1][x] = lhs
  BY JudgedIs
<1>2. ASSUME NEW op \in Quantifiers
      PROVE  /\ Node(op, w, <<a>>).op = op /\ Node(op, w, <<a>>).par = w
             /\ Sat(Node(op, w, <<a>>), s, x) = Holds(Node(op, w, <<a>>), V, s, x)
  <2>1. Node(op, w, <<a>>) \in Trees
    BY Nodes
  <2>2. Node(op, w, <<a>>).op = op /\ Node(op, w, <<a>>).par = w
    BY DEF Node
  <2> QED BY <2>1, <2>2, SatAt1
<1> HIDE DEF V, lhs
<1>3. {"G", "F", "H", "O"} \subseteq Quantifiers
  BY DEF Quantifiers
<1>4. Sat(Node("G", w, <<a>>), s, x) = {i \in DataRow : Ahead(w, s, i) \subseteq lhs}
  BY <1>1, <1>2, <1>3, HoldsTemporal
<1>5. Sat(Node("F", w, <<a>>), s, x) = {i \in DataRow : Ahead(w, s, i) \cap lhs # {}}
  BY <1>1, <1>2, <1>3, HoldsTemporal
<1>6. Sat(Node("H", w, <<a>>), s, x) = {i \in DataRow : Behind(w, s, i) \subseteq lhs}
  BY <1>1, <1>2, <1>3, HoldsTemporal
<1>7. Sat(Node("O", w, <<a>>), s, x) = {i \in DataRow : Behind(w, s, i) \cap lhs # {}}
  BY <1>1, <1>2, <1>3, HoldsTemporal
<1> QED BY <1>4, <1>5, <1>6, <1>7 DEF lhs

LEMMA SatTemporal ==
  ASSUME AllTrees, NEW s, Segment(s), NEW x \in Row, NEW op \in AllOps, NEW w \in Windows,
         NEW a \in Trees, NEW b \in Trees
  PROVE  Sat(Node(op, w, <<a, b>>), s, x)
           = {i \in DataRow : Meaning(CallAt(op, w, Sat(a, s, x), Sat(b, s, x), s, i))}
<1> DEFINE V == <<Judged(a, s), Judged(b, s)>>
           e == Node(op, w, <<a, b>>)
<1>1. V[1][x] = Sat(a, s, x) /\ V[2][x] = Sat(b, s, x)
  BY JudgedIs
<1>2. e \in Trees
  BY Nodes
<1>3. e.op = op /\ e.par = w
  BY DEF Node
<1>4. Sat(e, s, x) = Holds(e, V, s, x)
  BY <1>2, SatAt2
<1> HIDE DEF V, e
<1> QED BY <1>1, <1>2, <1>3, <1>4, HoldsTemporal DEF e

----------------------------------------------------------------------------
(* The dual operator on the negated operands is the negation.              *)
LEMMA CallFacts ==
  ASSUME NEW op \in AllOps, NEW w \in Windows, NEW s, NEW L, NEW R, NEW i \in DataRow
  PROVE  LET c == CallAt(op, w, L, R, s, i)
         IN  /\ c.op = op /\ c.lo = w.lo /\ c.hi = w.hi /\ c.time = s.time /\ c.start = i
             /\ \A r \in Row : c.lhs[r] = (r \in L) /\ c.rhs[r] = (r \in R)
             /\ Reach(c) \subseteq DataRow
<1> DEFINE c == CallAt(op, w, L, R, s, i)
<1>1. /\ c.op = op /\ c.lo = w.lo /\ c.hi = w.hi /\ c.time = s.time /\ c.start = i
      /\ c.lhs = [r \in Row |-> r \in L] /\ c.rhs = [r \in Row |-> r \in R]
  BY DEF CallAt
<1> HIDE DEF c
<1>2. i \in Int /\ 1 <= i /\ i <= N - 1 /\ N \in Int
  BY TraceAssumption DEF DataRow
<1>3. Reach(c) \subseteq DataRow
  BY <1>1, <1>2 DEF Reach, DataRow
<1> QED BY <1>1, <1>3 DEF c

LEMMA DualTimes ==
  ASSUME NEW op \in AllOps
  PROVE  Dual[op] \in AllOps /\ (Dual[op] \in PastOps <=> op \in PastOps)
BY DEF Dual, AllOps, FutureOps, PastOps

LEMMA MeaningDual ==
  ASSUME NEW op \in AllOps, NEW w \in Windows, NEW s, NEW L \in SUBSET DataRow, NEW R \in SUBSET DataRow,
         NEW i \in DataRow
  PROVE  Meaning(CallAt(Dual[op], w, DataRow \ L, DataRow \ R, s, i))
           <=> ~ Meaning(CallAt(op, w, L, R, s, i))
<1> DEFINE c == CallAt(op, w, L, R, s, i)
           d == CallAt(Dual[op], w, DataRow \ L, DataRow \ R, s, i)
<1>1. DataRow \subseteq Row
  BY TraceAssumption DEF DataRow, Row
<1>2. /\ c.op = op /\ c.lo = w.lo /\ c.hi = w.hi /\ c.time = s.time /\ c.start = i
      /\ \A r \in DataRow : c.lhs[r] = (r \in L) /\ c.rhs[r] = (r \in R)
      /\ Reach(c) \subseteq DataRow
  BY <1>1, CallFacts
<1>3. /\ d.op = Dual[op] /\ d.lo = w.lo /\ d.hi = w.hi /\ d.time = s.time /\ d.start = i
      /\ \A r \in DataRow : d.lhs[r] = (r \in DataRow \ L) /\ d.rhs[r] = (r \in DataRow \ R)
  BY <1>1, DualTimes, CallFacts
<1> HIDE DEF c, d
<1>4. Reach(d) = Reach(c) /\ (Bounded(d) <=> Bounded(c))
  BY <1>2, <1>3, DualTimes DEF Reach, Bounded
<1>5. \A j : Instants(d, j) = Instants(c, j)
  BY <1>2, <1>3, DualTimes DEF Instants, Covered, InWindow, Now
<1>6. \A j, k : Nearer(d, j, k) <=> Nearer(c, j, k)
  BY <1>2, <1>3, DualTimes DEF Nearer
<1>7. \A r \in Reach(c) : (d.lhs[r] <=> ~c.lhs[r]) /\ (d.rhs[r] <=> ~c.rhs[r])
  BY <1>2, <1>3
<1>8. /\ UntilTimed(d) <=> ~ReleaseTimed(c)
      /\ ReleaseTimed(d) <=> ~UntilTimed(c)
  BY <1>4, <1>5, <1>6, <1>7 DEF UntilTimed, ReleaseTimed
<1>9. /\ UntilRows(d, Reach(d)) <=> ~ReleaseRows(c, Reach(c))
      /\ ReleaseRows(d, Reach(d)) <=> ~UntilRows(c, Reach(c))
  BY <1>4, <1>6, <1>7 DEF UntilRows, ReleaseRows
<1>10. MeaningTimed(d) <=> ~MeaningTimed(c)
  <2>1. /\ (\A j \in Reach(d) : Instants(d, j) # {} => d.lhs[j])
             <=> ~(\E j \in Reach(c) : Instants(c, j) # {} /\ c.lhs[j])
        /\ (\E j \in Reach(d) : Instants(d, j) # {} /\ d.lhs[j])
             <=> ~(\A j \in Reach(c) : Instants(c, j) # {} => c.lhs[j])
    BY <1>4, <1>5, <1>7
  <2> QED BY <1>2, <1>3, <1>8, <2>1 DEF MeaningTimed, Dual, AllOps, FutureOps, PastOps
<1>11. MeaningRows(d, Reach(d)) <=> ~MeaningRows(c, Reach(c))
  <2>1. /\ (\A j \in Reach(d) : d.lhs[j]) <=> ~(\E j \in Reach(c) : c.lhs[j])
        /\ (\E j \in Reach(d) : d.lhs[j]) <=> ~(\A j \in Reach(c) : c.lhs[j])
    BY <1>4, <1>7
  <2> QED BY <1>2, <1>3, <1>9, <2>1 DEF MeaningRows, Dual, AllOps, FutureOps, PastOps
<1> QED BY <1>4, <1>10, <1>11 DEF Meaning, c, d

(* NegatedImpl makes of a formula its negation.                            *)
Contrary(e, s) == \A x \in Row : Sat(Negated[e], s, x) = DataRow \ Sat(e, s, x)

LEMMA RowTypes ==
  /\ DataRow \subseteq Row /\ DataRow \subseteq Int
  /\ NoWindow \in Windows /\ None \in Bounds
  /\ \A s : \A e : AllTrees /\ Segment(s) /\ e \in Trees =>
       \A x \in Row : Sat(e, s, x) \subseteq DataRow
<1>1. DataRow \subseteq Row /\ DataRow \subseteq Int
  BY TraceAssumption DEF DataRow, Row
<1>2. NoWindow \in Windows /\ None \in Bounds
  BY DEF NoWindow, Window, Windows, Bounds
<1>3. \A s : \A e : AllTrees /\ Segment(s) /\ e \in Trees =>
        \A x \in Row : Sat(e, s, x) \subseteq DataRow
  BY SatIs
<1> QED BY <1>1, <1>2, <1>3

LEMMA ContraryWrapping ==
  ASSUME AllTrees, NEW s, Segment(s), NEW a \in Trees, Contrary(a, s), NEW op \in Wrapping
  PROVE  Contrary(Unary(op, a), s)
<1>1. Negated[a] \in Trees
  BY NegatedIs
<1> SUFFICES ASSUME NEW x \in Row
             PROVE  Sat(Negated[Unary(op, a)], s, x) = DataRow \ Sat(Unary(op, a), s, x)
  BY DEF Contrary
<1>2. Sat(a, s, x) \subseteq DataRow /\ Sat(Negated[a], s, x) = DataRow \ Sat(a, s, x)
  BY RowTypes DEF Contrary
<1>3. CASE op = "At"
  <2>1. Negated[Unary("At", a)] = Unary("At", Negated[a])
    BY Negations
  <2>2. Sat(Unary("At", Negated[a]), s, x) = {i \in DataRow : i \in Sat(Negated[a], s, i)}
    BY <1>1, SatWrapping
  <2>3. Sat(Unary("At", a), s, x) = {i \in DataRow : i \in Sat(a, s, i)}
    BY SatWrapping
  <2>4. \A i \in DataRow : Sat(Negated[a], s, i) = DataRow \ Sat(a, s, i)
    BY RowTypes DEF Contrary
  <2> QED BY <1>3, <2>1, <2>2, <2>3, <2>4
<1>4. CASE op = "Paren"
  BY <1>2, <1>4, Negations, SatWrapping
<1>5. CASE op = "Not"
  BY <1>2, <1>5, Negations, SatWrapping
<1> QED BY <1>3, <1>4, <1>5 DEF Wrapping

LEMMA ContrarySteps ==
  ASSUME AllTrees, NEW s, Segment(s), NEW a \in Trees, Contrary(a, s), NEW op \in Steps, NEW n \in Int
  PROVE  Contrary(Node(op, n, <<a>>), s)
<1>1. Negated[a] \in Trees
  BY NegatedIs
<1> SUFFICES ASSUME NEW x \in Row
             PROVE  Sat(Negated[Node(op, n, <<a>>)], s, x) = DataRow \ Sat(Node(op, n, <<a>>), s, x)
  BY DEF Contrary
<1>2. Sat(a, s, x) \subseteq DataRow /\ Sat(Negated[a], s, x) = DataRow \ Sat(a, s, x)
  BY RowTypes DEF Contrary
<1>3. Negated[Node(op, n, <<a>>)] = Node(Dual[op], n, <<Negated[a]>>) /\ Dual[op] \in Steps
  BY Negations, Domains
<1>4. Sat(Node(Dual[op], n, <<Negated[a]>>), s, x) = Stepped(Dual[op], n, Sat(Negated[a], s, x))
  BY <1>1, <1>3, SatSteps
<1>5. Sat(Node(op, n, <<a>>), s, x) = Stepped(op, n, Sat(a, s, x))
  BY SatSteps
<1>6. Stepped(Dual[op], n, DataRow \ Sat(a, s, x)) = DataRow \ Stepped(op, n, Sat(a, s, x))
  BY <1>2, DualSteps, ZenonT(60)
<1> QED BY <1>2, <1>3, <1>4, <1>5, <1>6, Zenon

LEMMA LookedAt ==
  ASSUME NEW w \in Windows, NEW s, NEW i \in DataRow
  PROVE  Ahead(w, s, i) \subseteq DataRow /\ Behind(w, s, i) \subseteq DataRow
<1>1. "Us" \in AllOps /\ "Ss" \in AllOps
  BY DEF AllOps, FutureOps, PastOps
<1>2. /\ Reach(CallAt("Us", w, {}, {}, s, i)) \subseteq DataRow
      /\ Reach(CallAt("Ss", w, {}, {}, s, i)) \subseteq DataRow
  BY <1>1, CallFacts
<1> QED BY <1>2 DEF Ahead, Behind, Visible

LEMMA ContraryQuantifiers ==
  ASSUME AllTrees, NEW s, Segment(s), NEW a \in Trees, Contrary(a, s), NEW op \in Quantifiers,
         NEW w \in Windows
  PROVE  Contrary(Node(op, w, <<a>>), s)
<1>1. Negated[a] \in Trees
  BY NegatedIs
<1> SUFFICES ASSUME NEW x \in Row
             PROVE  Sat(Negated[Node(op, w, <<a>>)], s, x) = DataRow \ Sat(Node(op, w, <<a>>), s, x)
  BY DEF Contrary
<1>2. Sat(a, s, x) \subseteq DataRow /\ Sat(Negated[a], s, x) = DataRow \ Sat(a, s, x)
  BY RowTypes DEF Contrary
<1>3. \A i \in DataRow : Ahead(w, s, i) \subseteq DataRow /\ Behind(w, s, i) \subseteq DataRow
  BY LookedAt
<1>4. Negated[Node(op, w, <<a>>)] = Node(Dual[op], w, <<Negated[a]>>)
  BY Negations
<1>5. Dual["G"] = "F" /\ Dual["F"] = "G" /\ Dual["H"] = "O" /\ Dual["O"] = "H"
  BY DEF Dual
<1>6. CASE op = "G"
  BY <1>1, <1>2, <1>3, <1>4, <1>5, <1>6, SatQuantifiers
<1>7. CASE op = "F"
  BY <1>1, <1>2, <1>3, <1>4, <1>5, <1>7, SatQuantifiers
<1>8. CASE op = "H"
  BY <1>1, <1>2, <1>3, <1>4, <1>5, <1>8, SatQuantifiers
<1>9. CASE op = "O"
  BY <1>1, <1>2, <1>3, <1>4, <1>5, <1>9, SatQuantifiers
<1> QED BY <1>6, <1>7, <1>8, <1>9 DEF Quantifiers

LEMMA ContraryConnectives ==
  ASSUME AllTrees, NEW s, Segment(s), NEW a \in Trees, Contrary(a, s), NEW b \in Trees, Contrary(b, s),
         NEW op \in Connectives
  PROVE  Contrary(Binary(op, a, b), s)
<1>1. Negated[a] \in Trees /\ Negated[b] \in Trees
  BY NegatedIs
<1> SUFFICES ASSUME NEW x \in Row
             PROVE  Sat(Negated[Binary(op, a, b)], s, x) = DataRow \ Sat(Binary(op, a, b), s, x)
  BY DEF Contrary
<1> DEFINE L == Sat(a, s, x)
           R == Sat(b, s, x)
           sign(W, i) == IF i \in W THEN -1 ELSE 0
<1>2. /\ L \subseteq DataRow /\ Sat(Negated[a], s, x) = DataRow \ L
      /\ R \subseteq DataRow /\ Sat(Negated[b], s, x) = DataRow \ R
  BY RowTypes DEF Contrary
<1>3. CASE op = "And"
  <2>1. Negated[Binary("And", a, b)] = Binary("Or", Negated[a], Negated[b])
    BY Negations, Domains
  <2>2. Sat(Binary("Or", Negated[a], Negated[b]), s, x) = (DataRow \ L) \cup (DataRow \ R)
    BY <1>1, <1>2, SatConnectives
  <2>3. Sat(Binary("And", a, b), s, x) = L \cap R
    BY SatConnectives
  <2> HIDE DEF L, R
  <2> QED BY <1>3, <2>1, <2>2, <2>3
<1>4. CASE op = "Or"
  <2>1. Negated[Binary("Or", a, b)] = Binary("And", Negated[a], Negated[b])
    BY Negations, Domains
  <2>2. Sat(Binary("And", Negated[a], Negated[b]), s, x) = (DataRow \ L) \cap (DataRow \ R)
    BY <1>1, <1>2, SatConnectives
  <2>3. Sat(Binary("Or", a, b), s, x) = L \cup R
    BY SatConnectives
  <2> HIDE DEF L, R
  <2> QED BY <1>4, <2>1, <2>2, <2>3
<1>5. CASE op = "Imp"
  <2>1. Negated[Binary("Imp", a, b)] = Binary("And", a, Negated[b])
    BY Negations
  <2>2. Sat(Binary("And", a, Negated[b]), s, x) = L \cap (DataRow \ R)
    BY <1>1, <1>2, SatConnectives
  <2>3. Sat(Binary("Imp", a, b), s, x) = (DataRow \ L) \cup R
    BY SatConnectives
  <2>4. L \subseteq DataRow
    BY <1>2
  <2> HIDE DEF L, R
  <2> QED BY <1>5, <2>1, <2>2, <2>3, <2>4
<1>6. CASE op \in DOMAIN Opposite
  <2>1. Negated[Binary(op, a, b)] = Binary(Opposite[op], a, b)
    BY <1>6, Negations
  <2>2. /\ \A o \in {"Equ", "Eq"} : Sat(Binary(o, a, b), s, x) = {i \in DataRow : (i \in L) = (i \in R)}
        /\ \A o \in {"Xor", "Ne"} : Sat(Binary(o, a, b), s, x) = {i \in DataRow : (i \in L) # (i \in R)}
        /\ \A o \in {"Lt", "Le", "Gt", "Ge"} :
             Sat(Binary(o, a, b), s, x) = {i \in DataRow : Order(o, sign(L, i), sign(R, i))}
    BY SatConnectives
  <2>3. /\ Opposite["Eq"] = "Ne" /\ Opposite["Ne"] = "Eq"
        /\ Opposite["Xor"] = "Equ" /\ Opposite["Equ"] = "Xor"
        /\ Opposite["Lt"] = "Ge" /\ Opposite["Ge"] = "Lt"
        /\ Opposite["Le"] = "Gt" /\ Opposite["Gt"] = "Le"
    BY DEF Opposite
  <2> HIDE DEF L, R
  <2>4. \A i : sign(L, i) \in Int /\ sign(R, i) \in Int
    OBVIOUS
  <2> HIDE DEF sign
  <2>5. /\ \A i : Order("Ge", sign(L, i), sign(R, i)) <=> ~Order("Lt", sign(L, i), sign(R, i))
        /\ \A i : Order("Gt", sign(L, i), sign(R, i)) <=> ~Order("Le", sign(L, i), sign(R, i))
    BY <2>4 DEF Order
  <2>6. CASE op \in {"Eq", "Ne", "Xor", "Equ"}
    BY <2>1, <2>2, <2>3, <2>6
  <2>7. CASE op \in {"Lt", "Le", "Gt", "Ge"}
    BY <2>1, <2>2, <2>3, <2>5, <2>7
  <2> QED BY <1>6, <2>6, <2>7, Domains DEF Connectives
<1> QED BY <1>3, <1>4, <1>5, <1>6, Domains DEF Connectives

LEMMA ContraryTemporal ==
  ASSUME AllTrees, NEW s, Segment(s), NEW a \in Trees, Contrary(a, s), NEW b \in Trees, Contrary(b, s),
         NEW op \in AllOps, NEW w \in Windows
  PROVE  Contrary(Node(op, w, <<a, b>>), s)
<1>1. Negated[a] \in Trees /\ Negated[b] \in Trees
  BY NegatedIs
<1> SUFFICES ASSUME NEW x \in Row
             PROVE  Sat(Negated[Node(op, w, <<a, b>>)], s, x) = DataRow \ Sat(Node(op, w, <<a, b>>), s, x)
  BY DEF Contrary
<1> DEFINE L == Sat(a, s, x)
           R == Sat(b, s, x)
<1>2. /\ L \subseteq DataRow /\ Sat(Negated[a], s, x) = DataRow \ L
      /\ R \subseteq DataRow /\ Sat(Negated[b], s, x) = DataRow \ R
  BY RowTypes DEF Contrary
<1>3. Negated[Node(op, w, <<a, b>>)] = Node(Dual[op], w, <<Negated[a], Negated[b]>>)
  BY Negations
<1>4. Sat(Node(op, w, <<a, b>>), s, x) = {i \in DataRow : Meaning(CallAt(op, w, L, R, s, i))}
  BY SatTemporal
<1>5. Sat(Node(Dual[op], w, <<Negated[a], Negated[b]>>), s, x)
        = {i \in DataRow : Meaning(CallAt(Dual[op], w, DataRow \ L, DataRow \ R, s, i))}
  <2>1. Dual[op] \in AllOps
    BY DualTimes
  <2>2. Sat(Node(Dual[op], w, <<Negated[a], Negated[b]>>), s, x)
          = {i \in DataRow : Meaning(CallAt(Dual[op], w, Sat(Negated[a], s, x), Sat(Negated[b], s, x), s, i))}
    BY <1>1, <2>1, SatTemporal
  <2> QED BY <1>2, <2>2
<1> HIDE DEF L, R
<1>6. \A i \in DataRow : Meaning(CallAt(Dual[op], w, DataRow \ L, DataRow \ R, s, i))
                           <=> ~ Meaning(CallAt(op, w, L, R, s, i))
  BY <1>2, MeaningDual
<1> QED BY <1>3, <1>4, <1>5, <1>6

LEMMA ContraryAtoms ==
  ASSUME AllTrees, NEW s, Segment(s), NEW e \in Trees, e.op \in Atoms
  PROVE  Contrary(e, s)
<1>1. Negated[e] = Unary("Not", e)
  BY Negations
<1>2. \A x \in Row : Sat(Unary("Not", e), s, x) = DataRow \ Sat(e, s, x)
  BY SatWrapping
<1> QED BY <1>1, <1>2 DEF Contrary

(* The negation that NegatedImpl pushes down to the leaves holds at the    *)
(* rows where the formula does not.                                        *)
THEOREM NegatedIsNot ==
  ASSUME AllTrees, NEW s, Segment(s)
  PROVE  \A e \in Trees : \A x \in Row : Sat(Negated[e], s, x) = DataRow \ Sat(e, s, x)
<1> DEFINE S == {e \in Trees : Contrary(e, s)}
<1>0. \A e : e \in S <=> e \in Trees /\ Contrary(e, s)
  OBVIOUS
<1> HIDE DEF S
<1>1. ASSUME NEW e \in Formulas(S) PROVE e \in S
  <2> DEFINE a == e.args[1]
             b == e.args[2]
             c == e.args[3]
  <2>1. CASE e.op \in Truths /\ e = Leaf(e.op)
    <3>1. e = True \/ e = False
      BY <2>1 DEF Truths, True, False
    <3>2. Contrary(True, s) /\ Contrary(False, s)
      BY Negations, SatLeaves DEF Contrary
    <3> QED BY <1>0, <3>1, <3>2, Nodes
  <2>2. CASE (e.op \in Data /\ e = Leaf(e.op)) \/ (e.op = "bound" /\ e.par \in Data /\ e = Bound(e.par))
    <3>1. e \in Trees /\ e.op \in Atoms
      BY <2>2, Nodes DEF Atoms
    <3> QED BY <1>0, <3>1, ContraryAtoms
  <2>3. CASE e.op \in Wrapping /\ a \in S /\ e = Unary(e.op, a)
    BY <1>0, <2>3, Nodes, ContraryWrapping
  <2>4. CASE e.op \in Steps /\ e.par \in Int /\ a \in S /\ e = Node(e.op, e.par, <<a>>)
    <3>1. Node(e.op, e.par, <<a>>) \in Trees
      BY <1>0, <2>4, Nodes
    <3>2. Contrary(Node(e.op, e.par, <<a>>), s)
      BY <1>0, <2>4, ContrarySteps
    <3> QED BY <1>0, <2>4, <3>1, <3>2
  <2>5. CASE e.op \in Quantifiers /\ e.par \in Windows /\ a \in S /\ e = Node(e.op, e.par, <<a>>)
    <3>1. Node(e.op, e.par, <<a>>) \in Trees
      BY <1>0, <2>5, Nodes
    <3>2. Contrary(Node(e.op, e.par, <<a>>), s)
      BY <1>0, <2>5, ContraryQuantifiers
    <3> QED BY <1>0, <2>5, <3>1, <3>2
  <2>6. CASE e.op \in Connectives /\ a \in S /\ b \in S /\ e = Binary(e.op, a, b)
    BY <1>0, <2>6, Nodes, ContraryConnectives
  <2>7. CASE e.op \in AllOps /\ e.par \in Windows /\ a \in S /\ b \in S /\ e = Node(e.op, e.par, <<a, b>>)
    <3>1. Node(e.op, e.par, <<a, b>>) \in Trees
      BY <1>0, <2>7, Nodes
    <3>2. Contrary(Node(e.op, e.par, <<a, b>>), s)
      BY <1>0, <2>7, ContraryTemporal
    <3> QED BY <1>0, <2>7, <3>1, <3>2
  <2>8. CASE e.op = "Choice" /\ a \in S /\ b \in S /\ c \in S /\ e = Node("Choice", None, <<a, b, c>>)
    <3>1. e \in Trees /\ e.op \in Atoms
      BY <1>0, <2>8, Nodes DEF Atoms
    <3> QED BY <1>0, <3>1, ContraryAtoms
  <2>9. \/ e.op \in Truths \cup Data /\ e = Leaf(e.op)
        \/ e.op = "bound" /\ e.par \in Data /\ e = Bound(e.par)
        \/ e.op \in Wrapping /\ a \in S /\ e = Unary(e.op, a)
        \/ e.op \in Steps /\ e.par \in Int /\ a \in S /\ e = Node(e.op, e.par, <<a>>)
        \/ e.op \in Quantifiers /\ e.par \in Windows /\ a \in S /\ e = Node(e.op, e.par, <<a>>)
        \/ e.op \in Connectives /\ a \in S /\ b \in S /\ e = Binary(e.op, a, b)
        \/ e.op \in AllOps /\ e.par \in Windows /\ a \in S /\ b \in S /\ e = Node(e.op, e.par, <<a, b>>)
        \/ e.op = "Choice" /\ a \in S /\ b \in S /\ c \in S /\ e = Node("Choice", None, <<a, b, c>>)
    BY Kinds
  <2> HIDE DEF a, b, c
  <2> QED BY <2>1, <2>2, <2>3, <2>4, <2>5, <2>6, <2>7, <2>8, <2>9
<1>2. S \subseteq Trees
  BY <1>0
<1>3. S = Trees
  BY <1>1, <1>2, OnFormulas
<1> QED BY <1>0, <1>3 DEF Contrary

----------------------------------------------------------------------------
(* CanonicImpl goes on below the negation of an operand, which is not an   *)
(* operand.  It ends because a negation pushed down is not larger: a       *)
(* formula weighs its operands and itself, but a negation weighs nothing.  *)
Part(v, k) == IF k \in DOMAIN v THEN v[k] ELSE 0

WeightOf(e, v) == IF e.op = "Not" THEN v[1] ELSE 1 + Part(v, 1) + Part(v, 2) + Part(v, 3)

Weighs(w) ==
  /\ w \in [Trees -> Nat]
  /\ w[True] = 1 /\ w[False] = 1
  /\ \A a \in Trees : w[Unary("Not", a)] = w[a]
  /\ \A op \in {"At", "Paren"}, a \in Trees : w[Unary(op, a)] = 1 + w[a]
  /\ \A op \in Steps, n \in Int, a \in Trees : w[Node(op, n, <<a>>)] = 1 + w[a]
  /\ \A op \in Quantifiers, t \in Windows, a \in Trees : w[Node(op, t, <<a>>)] = 1 + w[a]
  /\ \A op \in Connectives, a \in Trees, b \in Trees : w[Binary(op, a, b)] = 1 + w[a] + w[b]
  /\ \A op \in AllOps, t \in Windows, a \in Trees, b \in Trees :
       w[Node(op, t, <<a, b>>)] = 1 + w[a] + w[b]

LEMMA Parts ==
  ASSUME NEW v \in Seq(Nat)
  PROVE  \A k : Part(v, k) \in Nat
<1> SUFFICES ASSUME NEW k PROVE Part(v, k) \in Nat
  OBVIOUS
<1>1. v \in [1..Len(v) -> Nat] /\ DOMAIN v = 1..Len(v)
  BY LenProperties
<1> QED BY <1>1 DEF Part

LEMMA WeightExists ==
  ASSUME AllTrees
  PROVE  \E w \in [Trees -> Nat] : \A e \in Trees : w[e] = WeightOf(e, Over(w, e))
<1> DEFINE calc == [p \in Trees \X Seq(Nat) |-> WeightOf(p[1], p[2])]
<1>1. \A e \in Trees : \A v \in Seq(Nat) : calc[<<e, v>>] = WeightOf(e, v)
  OBVIOUS
<1> HIDE DEF calc
<1>2. Yields(Trees, Nat, Args, calc)
  <2> SUFFICES ASSUME NEW e \in Trees, NEW v \in Seq(Nat), DOMAIN v = DOMAIN e.args
               PROVE  WeightOf(e, v) \in Nat
    BY <1>1 DEF Yields, Args
  <2>1. CASE e.op = "Not"
    <3>1. e = Unary("Not", e.args[1])
      BY <2>1, ByOperator DEF Wrapping
    <3>2. e.args = <<e.args[1]>>
      BY <3>1 DEF Unary, Node
    <3>3. v[1] \in Nat
      BY <3>2, Values
    <3> QED BY <2>1, <3>3 DEF WeightOf
  <2>2. CASE e.op # "Not"
    <3>1. Part(v, 1) \in Nat /\ Part(v, 2) \in Nat /\ Part(v, 3) \in Nat
      BY Parts
    <3> QED BY <2>2, <3>1 DEF WeightOf
  <2> QED BY <2>1, <2>2
<1>3. PICK w : Solves(w, Trees, Nat, Args, calc)
  BY <1>2, FromOperands
<1>4. w \in [Trees -> Nat] /\ \A e \in Trees : w[e] = calc[<<e, Over(w, e)>>]
  BY <1>3, SolvesOver
<1>5. \A e \in Trees : Over(w, e) \in Seq(Nat)
  BY <1>4, OverType
<1> QED BY <1>1, <1>4, <1>5

LEMMA Weights ==
  ASSUME AllTrees
  PROVE  \E w : Weighs(w)
<1>1. PICK w \in [Trees -> Nat] : \A e \in Trees : w[e] = WeightOf(e, Over(w, e))
  BY WeightExists
<1>2. ASSUME NEW op, NEW par, Node(op, par, <<>>) \in Trees, op # "Not"
      PROVE  w[Node(op, par, <<>>)] = 1
  <2>1. Node(op, par, <<>>).op = op /\ Over(w, Node(op, par, <<>>)) = <<>>
    BY DEF Node, Over
  <2>2. Part(<<>>, 1) = 0 /\ Part(<<>>, 2) = 0 /\ Part(<<>>, 3) = 0
    BY DEF Part
  <2>3. w[Node(op, par, <<>>)] = 1 + 0 + 0 + 0
    BY <1>1, <1>2, <2>1, <2>2 DEF WeightOf
  <2> QED BY <2>3
<1>3. ASSUME NEW op, NEW par, NEW a \in Trees, Node(op, par, <<a>>) \in Trees
      PROVE  w[Node(op, par, <<a>>)] = IF op = "Not" THEN w[a] ELSE 1 + w[a]
  <2> DEFINE e == Node(op, par, <<a>>)
             v == <<w[a]>>
  <2>1. Over(w, e) = v
    BY DEF Over, Node
  <2>2. v[1] = w[a] /\ Part(v, 1) = w[a] /\ Part(v, 2) = 0 /\ Part(v, 3) = 0
    BY DEF Part
  <2> HIDE DEF v
  <2>3. e.op = op
    BY DEF Node
  <2> HIDE DEF e
  <2>4. w[e] = WeightOf(e, v)
    BY <1>1, <1>3, <2>1 DEF e
  <2>5. w[e] = IF op = "Not" THEN w[a] ELSE 1 + w[a]
    BY <1>1, <2>2, <2>3, <2>4 DEF WeightOf
  <2> QED BY <2>5 DEF e
<1>4. ASSUME NEW op, NEW par, NEW a \in Trees, NEW b \in Trees, Node(op, par, <<a, b>>) \in Trees, op # "Not"
      PROVE  w[Node(op, par, <<a, b>>)] = 1 + w[a] + w[b]
  <2> DEFINE e == Node(op, par, <<a, b>>)
             v == <<w[a], w[b]>>
  <2>1. Over(w, e) = v
    BY DEF Over, Node
  <2>2. Part(v, 1) = w[a] /\ Part(v, 2) = w[b] /\ Part(v, 3) = 0
    BY DEF Part
  <2> HIDE DEF v
  <2>3. e.op = op
    BY DEF Node
  <2> HIDE DEF e
  <2>4. w[e] = WeightOf(e, v)
    BY <1>1, <1>4, <2>1 DEF e
  <2>5. w[e] = 1 + w[a] + w[b]
    BY <1>1, <1>4, <2>2, <2>3, <2>4 DEF WeightOf
  <2> QED BY <2>5 DEF e
<1>5. w[True] = 1 /\ w[False] = 1
  BY <1>2, Nodes DEF True, False, Leaf
<1>6. ASSUME NEW op \in Wrapping, NEW a \in Trees
      PROVE  w[Unary(op, a)] = IF op = "Not" THEN w[a] ELSE 1 + w[a]
  <2>1. Node(op, None, <<a>>) \in Trees
    BY Nodes DEF Unary
  <2> QED BY <1>3, <2>1 DEF Unary
<1>7. ASSUME NEW op \in Connectives, NEW a \in Trees, NEW b \in Trees
      PROVE  w[Binary(op, a, b)] = 1 + w[a] + w[b]
  <2>1. Node(op, None, <<a, b>>) \in Trees
    BY Nodes DEF Binary
  <2> QED BY <1>4, <2>1 DEF Binary, Connectives
<1>8. ASSUME NEW op \in AllOps, NEW t \in Windows, NEW a \in Trees, NEW b \in Trees
      PROVE  w[Node(op, t, <<a, b>>)] = 1 + w[a] + w[b]
  <2>1. Node(op, t, <<a, b>>) \in Trees
    BY Nodes
  <2> QED BY <1>4, <2>1 DEF AllOps, FutureOps, PastOps
<1>9. ASSUME NEW op \in Steps, NEW n \in Int, NEW a \in Trees PROVE w[Node(op, n, <<a>>)] = 1 + w[a]
  <2>1. Node(op, n, <<a>>) \in Trees
    BY Nodes
  <2> QED BY <1>3, <2>1 DEF Steps
<1>10. ASSUME NEW op \in Quantifiers, NEW t \in Windows, NEW a \in Trees PROVE w[Node(op, t, <<a>>)] = 1 + w[a]
  <2>1. Node(op, t, <<a>>) \in Trees
    BY Nodes
  <2> QED BY <1>3, <2>1 DEF Quantifiers
<1>11. /\ \A a \in Trees : w[Unary("Not", a)] = w[a]
       /\ \A op \in {"At", "Paren"}, a \in Trees : w[Unary(op, a)] = 1 + w[a]
  BY <1>6 DEF Wrapping
<1> QED BY <1>1, <1>5, <1>7, <1>8, <1>9, <1>10, <1>11 DEF Weighs

(* The same induction, one hypothesis for each kind of node.               *)
LEMMA OnKinds ==
  ASSUME AllTrees, NEW S, S \subseteq Trees, True \in S, False \in S,
         \A e \in Trees : e.op \in Data \cup {"bound"} => e \in S,
         \A op \in Wrapping, a \in S : Unary(op, a) \in S,
         \A op \in Steps, n \in Int, a \in S : Node(op, n, <<a>>) \in S,
         \A op \in Quantifiers, t \in Windows, a \in S : Node(op, t, <<a>>) \in S,
         \A op \in Connectives, a \in S, b \in S : Binary(op, a, b) \in S,
         \A op \in AllOps, t \in Windows, a \in S, b \in S : Node(op, t, <<a, b>>) \in S,
         \A a \in S, b \in S, c \in S : Node("Choice", None, <<a, b, c>>) \in S
  PROVE  S = Trees
<1>1. ASSUME NEW e \in Formulas(S) PROVE e \in S
  <2> DEFINE a == e.args[1]
             b == e.args[2]
             c == e.args[3]
  <2>1. CASE e.op \in Truths /\ e = Leaf(e.op)
    BY <2>1 DEF Truths, True, False
  <2>2. CASE (e.op \in Data /\ e = Leaf(e.op)) \/ (e.op = "bound" /\ e.par \in Data /\ e = Bound(e.par))
    <3>1. e \in Trees
      BY <2>2, Nodes
    <3> QED BY <2>2, <3>1
  <2>3. CASE e.op \in Wrapping /\ a \in S /\ e = Unary(e.op, a)
    BY <2>3
  <2>4. CASE e.op \in Steps /\ e.par \in Int /\ a \in S /\ e = Node(e.op, e.par, <<a>>)
    BY <2>4
  <2>5. CASE e.op \in Quantifiers /\ e.par \in Windows /\ a \in S /\ e = Node(e.op, e.par, <<a>>)
    BY <2>5
  <2>6. CASE e.op \in Connectives /\ a \in S /\ b \in S /\ e = Binary(e.op, a, b)
    BY <2>6
  <2>7. CASE e.op \in AllOps /\ e.par \in Windows /\ a \in S /\ b \in S /\ e = Node(e.op, e.par, <<a, b>>)
    BY <2>7
  <2>8. CASE e.op = "Choice" /\ a \in S /\ b \in S /\ c \in S /\ e = Node("Choice", None, <<a, b, c>>)
    BY <2>8
  <2> QED BY <1>1, <2>1, <2>2, <2>3, <2>4, <2>5, <2>6, <2>7, <2>8, Kinds
<1> QED BY <1>1, OnFormulas

LEMMA Lighter ==
  ASSUME AllTrees, NEW w, Weighs(w)
  PROVE  \A e \in Trees : w[Negated[e]] <= w[e]
<1> DEFINE S == {e \in Trees : w[Negated[e]] <= w[e]}
<1>0. \A e : e \in S <=> e \in Trees /\ w[Negated[e]] <= w[e]
  OBVIOUS
<1> HIDE DEF S
<1>1. /\ \A e \in Trees : w[e] \in Nat
      /\ \A e \in Trees : Negated[e] \in Trees
  BY NegatedIs DEF Weighs
<1>2. True \in S /\ False \in S
  BY <1>0, Negations, Nodes DEF Weighs
<1>3. ASSUME NEW e \in Trees, e.op \in Atoms PROVE e \in S
  <2>1. Negated[e] = Unary("Not", e)
    BY <1>3, Negations
  <2>2. w[Unary("Not", e)] = w[e] /\ w[e] \in Nat
    BY <1>1 DEF Weighs
  <2> QED BY <1>0, <2>1, <2>2
<1>4. ASSUME NEW op \in Wrapping, NEW a \in S PROVE Unary(op, a) \in S
  <2>1. a \in Trees /\ Negated[a] \in Trees /\ w[a] \in Nat /\ w[Negated[a]] \in Nat /\ w[Negated[a]] <= w[a]
    BY <1>0, <1>1
  <2>2. Unary(op, a) \in Trees
    BY <2>1, Nodes
  <2>3. CASE op = "At"
    BY <1>0, <2>1, <2>2, <2>3, Negations, SMTT(60) DEF Weighs
  <2>4. CASE op = "Paren"
    BY <1>0, <2>1, <2>2, <2>4, Negations DEF Weighs
  <2>5. CASE op = "Not"
    BY <1>0, <2>1, <2>2, <2>5, Negations DEF Weighs
  <2> QED BY <2>3, <2>4, <2>5 DEF Wrapping
<1>5. ASSUME NEW op \in Steps, NEW n \in Int, NEW a \in S PROVE Node(op, n, <<a>>) \in S
  <2>1. a \in Trees /\ Negated[a] \in Trees /\ w[a] \in Nat /\ w[Negated[a]] \in Nat /\ w[Negated[a]] <= w[a]
    BY <1>0, <1>1
  <2>2. Node(op, n, <<a>>) \in Trees /\ Dual[op] \in Steps
    BY <2>1, Nodes, Domains
  <2>3. Negated[Node(op, n, <<a>>)] = Node(Dual[op], n, <<Negated[a]>>)
    BY <2>1, Negations
  <2>4. /\ w[Node(op, n, <<a>>)] = 1 + w[a]
        /\ w[Node(Dual[op], n, <<Negated[a]>>)] = 1 + w[Negated[a]]
    BY <2>1, <2>2 DEF Weighs
  <2> QED BY <1>0, <2>1, <2>2, <2>3, <2>4
<1>6. ASSUME NEW op \in Quantifiers, NEW t \in Windows, NEW a \in S PROVE Node(op, t, <<a>>) \in S
  <2>1. a \in Trees /\ Negated[a] \in Trees /\ w[a] \in Nat /\ w[Negated[a]] \in Nat /\ w[Negated[a]] <= w[a]
    BY <1>0, <1>1
  <2>2. Node(op, t, <<a>>) \in Trees /\ Dual[op] \in Quantifiers
    BY <2>1, Nodes, Domains
  <2>3. Negated[Node(op, t, <<a>>)] = Node(Dual[op], t, <<Negated[a]>>)
    BY <2>1, Negations
  <2>4. /\ w[Node(op, t, <<a>>)] = 1 + w[a]
        /\ w[Node(Dual[op], t, <<Negated[a]>>)] = 1 + w[Negated[a]]
    BY <2>1, <2>2 DEF Weighs
  <2> QED BY <1>0, <2>1, <2>2, <2>3, <2>4
<1>7. ASSUME NEW op \in Connectives, NEW a \in S, NEW b \in S PROVE Binary(op, a, b) \in S
  <2>1. /\ a \in Trees /\ Negated[a] \in Trees /\ w[a] \in Nat /\ w[Negated[a]] \in Nat /\ w[Negated[a]] <= w[a]
        /\ b \in Trees /\ Negated[b] \in Trees /\ w[b] \in Nat /\ w[Negated[b]] \in Nat /\ w[Negated[b]] <= w[b]
    BY <1>0, <1>1
  <2>2. Binary(op, a, b) \in Trees /\ w[Binary(op, a, b)] = 1 + w[a] + w[b]
    BY <2>1, Nodes DEF Weighs
  <2>3. CASE op \in {"And", "Or"}
    <3>1. Negated[Binary(op, a, b)] = Binary(Dual[op], Negated[a], Negated[b]) /\ Dual[op] \in Connectives
      BY <2>1, <2>3, Negations, Domains DEF Connectives
    <3>2. w[Binary(Dual[op], Negated[a], Negated[b])] = 1 + w[Negated[a]] + w[Negated[b]]
      BY <2>1, <3>1 DEF Weighs
    <3> QED BY <1>0, <2>1, <2>2, <3>1, <3>2
  <2>4. CASE op = "Imp"
    <3>1. Negated[Binary("Imp", a, b)] = Binary("And", a, Negated[b]) /\ "And" \in Connectives
      BY <2>1, Negations DEF Connectives
    <3>2. w[Binary("And", a, Negated[b])] = 1 + w[a] + w[Negated[b]]
      BY <2>1, <3>1 DEF Weighs
    <3> QED BY <1>0, <2>1, <2>2, <2>4, <3>1, <3>2
  <2>5. CASE op \in DOMAIN Opposite
    <3>1. Negated[Binary(op, a, b)] = Binary(Opposite[op], a, b) /\ Opposite[op] \in Connectives
      BY <2>1, <2>5, Negations, Domains DEF Connectives
    <3>2. w[Binary(Opposite[op], a, b)] = 1 + w[a] + w[b]
      BY <2>1, <3>1 DEF Weighs
    <3> QED BY <1>0, <2>1, <2>2, <3>1, <3>2
  <2> QED BY <2>3, <2>4, <2>5, Domains
<1>8. ASSUME NEW op \in AllOps, NEW t \in Windows, NEW a \in S, NEW b \in S PROVE Node(op, t, <<a, b>>) \in S
  <2>1. /\ a \in Trees /\ Negated[a] \in Trees /\ w[a] \in Nat /\ w[Negated[a]] \in Nat /\ w[Negated[a]] <= w[a]
        /\ b \in Trees /\ Negated[b] \in Trees /\ w[b] \in Nat /\ w[Negated[b]] \in Nat /\ w[Negated[b]] <= w[b]
    BY <1>0, <1>1
  <2>2. Node(op, t, <<a, b>>) \in Trees /\ Dual[op] \in AllOps
    BY <2>1, Nodes, Domains
  <2>3. Negated[Node(op, t, <<a, b>>)] = Node(Dual[op], t, <<Negated[a], Negated[b]>>)
    BY <2>1, Negations
  <2>4. /\ w[Node(op, t, <<a, b>>)] = 1 + w[a] + w[b]
        /\ w[Node(Dual[op], t, <<Negated[a], Negated[b]>>)] = 1 + w[Negated[a]] + w[Negated[b]]
    BY <2>1, <2>2 DEF Weighs
  <2> QED BY <1>0, <2>1, <2>2, <2>3, <2>4
<1>9. \A a \in S, b \in S, c \in S : Node("Choice", None, <<a, b, c>>) \in S
  <2> SUFFICES ASSUME NEW a \in S, NEW b \in S, NEW c \in S PROVE Node("Choice", None, <<a, b, c>>) \in S
    OBVIOUS
  <2>1. Node("Choice", None, <<a, b, c>>) \in Trees
    BY <1>0, Nodes
  <2>2. Node("Choice", None, <<a, b, c>>).op \in Atoms
    BY DEF Node, Atoms
  <2> QED BY <1>3, <2>1, <2>2
<1>10. \A e \in Trees : e.op \in Data \cup {"bound"} => e \in S
  BY <1>3 DEF Atoms
<1>11. S \subseteq Trees
  BY <1>0
<1>12. S = Trees
  BY <1>2, <1>4, <1>5, <1>6, <1>7, <1>8, <1>9, <1>10, <1>11, OnKinds
<1> QED BY <1>0, <1>12

----------------------------------------------------------------------------
(* The formulas CanonicImpl goes on with, and what it makes of a formula,  *)
(* given what it made of those.                                            *)
Followed ==
  [e \in Trees |->
     IF e.op \in Kept THEN e.args
     ELSE IF e.op = "Imp" THEN <<Negated[e.args[1]], e.args[2]>>
     ELSE IF e.op \in Quantifiers \cup {"Paren"} THEN <<e.args[1]>>
     ELSE <<>>]

CanonOf(e, v) ==
  CASE e.op \in Kept -> Node(e.op, e.par, v)
    [] e.op = "Imp" -> Binary("Or", v[1], v[2])
    [] e.op = "G"   -> Node("Rw", e.par, <<False, v[1]>>)
    [] e.op = "F"   -> Node("Us", e.par, <<True, v[1]>>)
    [] e.op = "H"   -> Node("Tw", e.par, <<False, v[1]>>)
    [] e.op = "O"   -> Node("Ss", e.par, <<True, v[1]>>)
    [] e.op = "Not" -> Negated[e.args[1]]
    [] e.op = "Paren" -> v[1]
    [] OTHER -> e

(* The formulas CanonicImpl leaves as they are. *)
Untouched == Truths \cup Data \cup {"bound", "Choice", "Eq", "Ne", "Lt", "Le", "Gt", "Ge"}

LEMMA KeptKinds ==
  /\ Kept = {"At"} \cup {"Or", "And", "Xor", "Equ"} \cup Steps \cup AllOps
  /\ AllTrees => Data \cap (Kept \cup {"Imp", "Not", "Paren"} \cup Quantifiers) = {}
<1>1. Kept = {"At"} \cup {"Or", "And", "Xor", "Equ"} \cup Steps \cup AllOps
  BY DEF Kept, Steps, AllOps
<1>2. Kept \cup {"Imp", "Not", "Paren"} \cup Quantifiers \subseteq Names
  BY <1>1 DEF Names, Wrapping, Connectives
<1> QED BY <1>1, <1>2 DEF AllTrees

LEMMA CanonCases ==
  ASSUME AllTrees, NEW e, NEW v
  PROVE  /\ e.op \in Kept => CanonOf(e, v) = Node(e.op, e.par, v)
         /\ e.op = "Imp" => CanonOf(e, v) = Binary("Or", v[1], v[2])
         /\ e.op = "G" => CanonOf(e, v) = Node("Rw", e.par, <<False, v[1]>>)
         /\ e.op = "F" => CanonOf(e, v) = Node("Us", e.par, <<True, v[1]>>)
         /\ e.op = "H" => CanonOf(e, v) = Node("Tw", e.par, <<False, v[1]>>)
         /\ e.op = "O" => CanonOf(e, v) = Node("Ss", e.par, <<True, v[1]>>)
         /\ e.op = "Not" => CanonOf(e, v) = Negated[e.args[1]]
         /\ e.op = "Paren" => CanonOf(e, v) = v[1]
         /\ e.op \in Untouched => CanonOf(e, v) = e
<1>1. e.op \in Kept => e.op \notin {"Imp", "G", "F", "H", "O", "Not", "Paren"} \cup Untouched
  BY KeptKinds DEF Untouched, Truths, Steps, AllOps, FutureOps, PastOps
<1>2. e.op \in {"Imp", "G", "F", "H", "O", "Not", "Paren"} => e.op \notin Kept
  BY <1>1
<1>3. e.op \in Untouched => e.op \notin Kept /\ e.op \notin {"Imp", "G", "F", "H", "O", "Not", "Paren"}
  BY <1>1, KeptKinds DEF Untouched, Truths, Quantifiers
<1>4. e.op \in Kept => CanonOf(e, v) = Node(e.op, e.par, v)
  BY <1>1 DEF CanonOf
<1>5. /\ e.op = "Imp" => CanonOf(e, v) = Binary("Or", v[1], v[2])
      /\ e.op = "G" => CanonOf(e, v) = Node("Rw", e.par, <<False, v[1]>>)
      /\ e.op = "F" => CanonOf(e, v) = Node("Us", e.par, <<True, v[1]>>)
      /\ e.op = "H" => CanonOf(e, v) = Node("Tw", e.par, <<False, v[1]>>)
      /\ e.op = "O" => CanonOf(e, v) = Node("Ss", e.par, <<True, v[1]>>)
  BY <1>2 DEF CanonOf
<1>6. /\ e.op = "Not" => CanonOf(e, v) = Negated[e.args[1]]
      /\ e.op = "Paren" => CanonOf(e, v) = v[1]
  BY <1>2 DEF CanonOf
<1>7. e.op \in Untouched => CanonOf(e, v) = e
  BY <1>3 DEF CanonOf
<1> QED BY <1>4, <1>5, <1>6, <1>7

LEMMA FollowedCases ==
  ASSUME AllTrees, NEW e \in Trees
  PROVE  /\ e.op \in Kept => Followed[e] = e.args
         /\ e.op = "Imp" => Followed[e] = <<Negated[e.args[1]], e.args[2]>>
         /\ e.op \in Quantifiers \cup {"Paren"} => Followed[e] = <<e.args[1]>>
         /\ e.op \in Untouched \cup {"Not"} => Followed[e] = <<>>
         /\ e.op \in Kept \cup {"Imp", "Paren", "Not"} \cup Quantifiers \cup Untouched
<1>1. e.op \in Kept => e.op \notin {"Imp", "Paren", "Not"} \cup Quantifiers \cup Untouched
  BY KeptKinds DEF Untouched, Truths, Quantifiers, Steps, AllOps, FutureOps, PastOps
<1>2. e.op \in Untouched \cup {"Not"} => e.op \notin {"Imp", "Paren"} \cup Quantifiers
  BY KeptKinds DEF Untouched, Truths, Quantifiers
<1>3. e.op \in Quantifiers \cup {"Paren"} => e.op # "Imp"
  BY DEF Quantifiers
<1>4. e.op \in Kept \cup {"Imp", "Paren", "Not"} \cup Quantifiers \cup Untouched
  <2>1. e.op \in Names \cup Data
    BY ByOperator
  <2> QED BY <2>1, KeptKinds DEF Names, Wrapping, Connectives, Untouched
<1> QED BY <1>1, <1>2, <1>3, <1>4 DEF Followed

LEMMA FollowedType ==
  ASSUME AllTrees, NEW e \in Trees
  PROVE  Followed[e] \in Seq(Trees)
<1>1. e.op \in Kept => Followed[e] \in Seq(Trees)
  BY FollowedCases, TreeFields
<1>2. e.op = "Imp" => Followed[e] \in Seq(Trees)
  <2> SUFFICES ASSUME e.op = "Imp" PROVE Followed[e] \in Seq(Trees)
    OBVIOUS
  <2>1. e.args[1] \in Trees /\ e.args[2] \in Trees
    BY ByOperator DEF Connectives
  <2>2. Negated[e.args[1]] \in Trees
    BY <2>1, NegatedIs
  <2>3. <<Negated[e.args[1]], e.args[2]>> \in Seq(Trees)
    BY <2>1, <2>2
  <2> QED BY <2>3, FollowedCases
<1>3. e.op \in Quantifiers \cup {"Paren"} => Followed[e] \in Seq(Trees)
  <2> SUFFICES ASSUME e.op \in Quantifiers \cup {"Paren"} PROVE Followed[e] \in Seq(Trees)
    OBVIOUS
  <2>1. e.args[1] \in Trees
    BY ByOperator DEF Wrapping
  <2>2. <<e.args[1]>> \in Seq(Trees)
    BY <2>1
  <2> QED BY <2>2, FollowedCases
<1>4. e.op \in Untouched \cup {"Not"} => Followed[e] \in Seq(Trees)
  <2>1. <<>> \in Seq(Trees)
    OBVIOUS
  <2> QED BY <2>1, FollowedCases, Zenon
<1> QED BY <1>1, <1>2, <1>3, <1>4, FollowedCases

LEMMA FollowedLower ==
  ASSUME AllTrees, NEW w, Weighs(w), NEW e \in Trees, NEW k \in DOMAIN Followed[e]
  PROVE  w[Followed[e][k]] < w[e]
<1> DEFINE a == e.args[1]
           b == e.args[2]
<1>0. \A f \in Trees : w[f] \in Nat
  BY DEF Weighs
<1>1. CASE e.op = "Imp"
  <2>1. a \in Trees /\ b \in Trees /\ e = Binary("Imp", a, b) /\ "Imp" \in Connectives
    BY <1>1, ByOperator DEF Connectives
  <2>2. Negated[a] \in Trees /\ w[Negated[a]] <= w[a]
    BY <2>1, NegatedIs, Lighter
  <2> HIDE DEF a, b
  <2>3. w[e] = 1 + w[a] + w[b]
    BY <2>1 DEF Weighs
  <2>4. Followed[e] = <<Negated[a], b>>
    BY <1>1, FollowedCases DEF a, b
  <2> QED BY <1>0, <2>1, <2>2, <2>3, <2>4
<1>2. CASE e.op \in Quantifiers
  <2>1. a \in Trees /\ e.par \in Windows /\ e = Node(e.op, e.par, <<a>>)
    BY <1>2, ByOperator
  <2>2. Followed[e] = <<a>>
    BY <1>2, FollowedCases
  <2> HIDE DEF a
  <2>3. w[e] = 1 + w[a]
    BY <1>2, <2>1 DEF Weighs
  <2> QED BY <1>0, <2>1, <2>2, <2>3
<1>3. CASE e.op \in {"Paren", "At"}
  <2>1. a \in Trees /\ e = Unary(e.op, a)
    BY <1>3, ByOperator DEF Wrapping
  <2>2. Followed[e] = <<a>>
    <3>1. e.args = <<a>>
      BY <2>1 DEF Unary, Node
    <3> QED BY <1>3, <3>1, FollowedCases, KeptKinds
  <2> HIDE DEF a
  <2>3. w[e] = 1 + w[a]
    BY <1>3, <2>1 DEF Weighs
  <2> QED BY <1>0, <2>1, <2>2, <2>3
<1>4. CASE e.op \in Steps
  <2>1. a \in Trees /\ e.par \in Int /\ e = Node(e.op, e.par, <<a>>)
    BY <1>4, ByOperator
  <2>2. Followed[e] = <<a>>
    <3>1. e.args = <<a>>
      BY <2>1 DEF Node
    <3> QED BY <1>4, <3>1, FollowedCases, KeptKinds
  <2> HIDE DEF a
  <2>3. w[e] = 1 + w[a]
    BY <1>4, <2>1 DEF Weighs
  <2> QED BY <1>0, <2>1, <2>2, <2>3
<1>5. CASE e.op \in {"Or", "And", "Xor", "Equ"}
  <2>1. a \in Trees /\ b \in Trees /\ e = Binary(e.op, a, b) /\ e.op \in Connectives
    BY <1>5, ByOperator DEF Connectives
  <2>2. Followed[e] = <<a, b>>
    <3>1. e.args = <<a, b>>
      BY <2>1 DEF Binary, Node
    <3> QED BY <1>5, <3>1, FollowedCases, KeptKinds
  <2> HIDE DEF a, b
  <2>3. w[e] = 1 + w[a] + w[b]
    BY <2>1 DEF Weighs
  <2> QED BY <1>0, <2>1, <2>2, <2>3
<1>6. CASE e.op \in AllOps
  <2>1. a \in Trees /\ b \in Trees /\ e.par \in Windows /\ e = Node(e.op, e.par, <<a, b>>)
    BY <1>6, ByOperator
  <2>2. Followed[e] = <<a, b>>
    <3>1. e.args = <<a, b>>
      BY <2>1 DEF Node
    <3> QED BY <1>6, <3>1, FollowedCases, KeptKinds
  <2> HIDE DEF a, b
  <2>3. w[e] = 1 + w[a] + w[b]
    BY <1>6, <2>1 DEF Weighs
  <2> QED BY <1>0, <2>1, <2>2, <2>3
<1>7. CASE e.op \in Untouched \cup {"Not"}
  <2>1. Followed[e] = <<>>
    BY <1>7, FollowedCases
  <2> QED BY <2>1
<1> QED BY <1>1, <1>2, <1>3, <1>4, <1>5, <1>6, <1>7, FollowedCases, KeptKinds

LEMMA CanonType ==
  ASSUME AllTrees, NEW e \in Trees, NEW v \in Seq(Trees), DOMAIN v = DOMAIN Followed[e]
  PROVE  CanonOf(e, v) \in Trees
<1> DEFINE a == e.args[1]
           b == e.args[2]
<1>1. CASE e.op = "Imp"
  <2>1. Followed[e] = <<Negated[a], b>>
    BY <1>1, FollowedCases
  <2>2. v[1] \in Trees /\ v[2] \in Trees
    BY <2>1, Values
  <2>3. CanonOf(e, v) = Binary("Or", v[1], v[2])
    BY <1>1, CanonCases
  <2>4. "Or" \in Connectives
    BY DEF Connectives
  <2> QED BY <2>2, <2>3, <2>4, Nodes
<1>2. CASE e.op \in Quantifiers
  <2>1. Followed[e] = <<a>>
    BY <1>2, FollowedCases
  <2>2. v[1] \in Trees
    BY <2>1, Values
  <2>3. e.par \in Windows
    BY <1>2, ByOperator
  <2>4. \A op \in AllOps : Node(op, e.par, <<False, v[1]>>) \in Trees /\ Node(op, e.par, <<True, v[1]>>) \in Trees
    BY <2>2, <2>3, Nodes
  <2> QED BY <1>2, <2>4, CanonCases DEF Quantifiers, AllOps, FutureOps, PastOps
<1>3. CASE e.op = "Paren"
  <2>1. Followed[e] = <<a>>
    BY <1>3, FollowedCases
  <2>2. v[1] \in Trees
    BY <2>1, Values
  <2> QED BY <1>3, <2>2, CanonCases, ZenonT(60)
<1>4. CASE e.op = "At" \/ e.op \in Steps
  <2>1. Followed[e] = e.args /\ e.op \in Kept
    BY <1>4, FollowedCases, KeptKinds
  <2>2. e.args = <<a>>
    <3>1. e = Unary(e.op, a) \/ e = Node(e.op, e.par, <<a>>)
      BY <1>4, ByOperator, ZenonT(60) DEF Wrapping
    <3> QED BY <3>1 DEF Unary, Node
  <2>3. v[1] \in Trees /\ v = <<v[1]>>
    BY <2>1, <2>2, Values
  <2>4. CanonOf(e, v) = Node(e.op, e.par, <<v[1]>>)
    <3>1. CanonOf(e, v) = Node(e.op, e.par, v)
      BY <2>1, CanonCases, ZenonT(60)
    <3> QED BY <2>3, <3>1, Zenon
  <2>5. e.op = "At" => Node(e.op, e.par, <<v[1]>>) = Unary("At", v[1])
    BY ByOperator DEF Wrapping, Unary, Node
  <2>6. e.op \in Steps => e.par \in Int
    BY ByOperator
  <2> QED BY <1>4, <2>3, <2>4, <2>5, <2>6, Nodes DEF Wrapping
<1>5. CASE e.op \in {"Or", "And", "Xor", "Equ"} \/ e.op \in AllOps
  <2>1. Followed[e] = e.args /\ e.op \in Kept
    BY <1>5, FollowedCases, KeptKinds
  <2>2. e.args = <<a, b>>
    <3>1. e.op \in Connectives \/ e.op \in AllOps
      BY <1>5 DEF Connectives
    <3>2. e = Binary(e.op, a, b) \/ e = Node(e.op, e.par, <<a, b>>)
      BY <3>1, ByOperator, ZenonT(60)
    <3> QED BY <3>2 DEF Binary, Node
  <2>3. v[1] \in Trees /\ v[2] \in Trees /\ v = <<v[1], v[2]>>
    BY <2>1, <2>2, Values
  <2>4. CanonOf(e, v) = Node(e.op, e.par, <<v[1], v[2]>>)
    <3>1. CanonOf(e, v) = Node(e.op, e.par, v)
      BY <2>1, CanonCases, ZenonT(60)
    <3> QED BY <2>3, <3>1, Zenon
  <2>5. e.op \in {"Or", "And", "Xor", "Equ"} => e.op \in Connectives /\ e.par = None
    BY ByOperator DEF Connectives, Binary, Node
  <2>6. e.op \in AllOps => e.par \in Windows
    BY ByOperator
  <2>7. e.op \in {"Or", "And", "Xor", "Equ"} => Node(e.op, e.par, <<v[1], v[2]>>) = Binary(e.op, v[1], v[2])
    BY <2>5 DEF Binary
  <2>8. CASE e.op \in {"Or", "And", "Xor", "Equ"}
    <3>1. Binary(e.op, v[1], v[2]) \in Trees
      BY <2>3, <2>5, <2>8, Nodes
    <3> QED BY <2>4, <2>7, <2>8, <3>1
  <2>9. CASE e.op \in AllOps
    <3>1. Node(e.op, e.par, <<v[1], v[2]>>) \in Trees
      BY <2>3, <2>6, <2>9, Nodes
    <3> QED BY <2>4, <3>1
  <2> QED BY <1>5, <2>8, <2>9
<1>6. CASE e.op \in Untouched
  BY <1>6, CanonCases
<1>7. CASE e.op = "Not"
  <2>1. a \in Trees
    BY <1>7, ByOperator DEF Wrapping
  <2>2. Negated[a] \in Trees
    BY <2>1, NegatedIs
  <2> QED BY <1>7, <2>2, CanonCases
<1> QED BY <1>1, <1>2, <1>3, <1>4, <1>5, <1>6, <1>7, FollowedCases, KeptKinds

(* What CanonicImpl made of the formulas it goes on with.                  *)
Along(f, e) == [k \in DOMAIN Followed[e] |-> f[Followed[e][k]]]

LEMMA AlongType ==
  ASSUME AllTrees, NEW f \in [Trees -> Trees], NEW e \in Trees
  PROVE  Along(f, e) \in Seq(Trees) /\ DOMAIN Along(f, e) = DOMAIN Followed[e]
<1> DEFINE d == Followed[e]
           v == Along(f, e)
<1>1. d \in Seq(Trees)
  BY FollowedType
<1>2. Len(d) \in Nat /\ DOMAIN d = 1..Len(d) /\ \A k \in DOMAIN d : d[k] \in Trees
  BY <1>1
<1>3. v \in [1..Len(d) -> Trees] /\ DOMAIN v = DOMAIN d
  BY <1>2 DEF Along
<1> HIDE DEF v, d
<1>4. v \in UNION {[1..n -> Trees] : n \in Nat}
  BY <1>2, <1>3, Zenon
<1>5. v \in Seq(Trees)
  BY <1>4, SeqDef, Zenon
<1> QED BY <1>3, <1>5 DEF v, d

LEMMA AlongSame ==
  ASSUME NEW f, NEW g, NEW e, \A k \in DOMAIN Followed[e] : f[Followed[e][k]] = g[Followed[e][k]]
  PROVE  Along(f, e) = Along(g, e)
BY Zenon DEF Along

LEMMA CanonicIs ==
  ASSUME AllTrees
  PROVE  Canonic \in [Trees -> Trees] /\ \A e \in Trees : Canonic[e] = CanonOf(e, Along(Canonic, e))
<1> DEFINE calc == [p \in Trees \X Seq(Trees) |-> CanonOf(p[1], p[2])]
           Body0(g, e) ==
             CASE e.op \in Kept -> Node(e.op, e.par, [k \in DOMAIN e.args |-> g[e.args[k]]])
               [] e.op = "Imp" -> Binary("Or", g[Negated[e.args[1]]], g[e.args[2]])
               [] e.op = "G"   -> Node("Rw", e.par, <<False, g[e.args[1]]>>)
               [] e.op = "F"   -> Node("Us", e.par, <<True, g[e.args[1]]>>)
               [] e.op = "H"   -> Node("Tw", e.par, <<False, g[e.args[1]]>>)
               [] e.op = "O"   -> Node("Ss", e.par, <<True, g[e.args[1]]>>)
               [] e.op = "Not" -> Negated[e.args[1]]
               [] e.op = "Paren" -> g[e.args[1]]
               [] OTHER -> e
           D(g) == g = [e \in Trees |-> Body0(g, e)]
           t == CHOOSE g : D(g)
<1>1. \A e \in Trees : \A v \in Seq(Trees) : calc[<<e, v>>] = CanonOf(e, v)
  OBVIOUS
<1> HIDE DEF calc
<1>2. Yields(Trees, Trees, Followed, calc)
  BY <1>1, CanonType DEF Yields
<1>3. PICK w : Weighs(w)
  BY Weights
<1>4. Lowers(Trees, Followed, w)
  <2>1. Followed \in [Trees -> Seq(Trees)]
    <3>1. Followed = [e \in Trees |-> Followed[e]]
      BY DEF Followed
    <3> QED BY <3>1, FollowedType
  <2>2. w \in [Trees -> Nat]
    BY <1>3 DEF Weighs
  <2> QED BY <1>3, <2>1, <2>2, FollowedLower DEF Lowers
<1>5. PICK f : Solves(f, Trees, Trees, Followed, calc)
  BY <1>2, <1>4, Nodes, Recursion
<1>6. f \in [Trees -> Trees] /\ \A e \in Trees : f[e] = CanonOf(e, Along(f, e))
  <2>1. f \in [Trees -> Trees] /\ \A e \in Trees : f[e] = calc[<<e, Along(f, e)>>]
    BY <1>5 DEF Solves, Along
  <2>2. \A e \in Trees : Along(f, e) \in Seq(Trees)
    BY <2>1, AlongType
  <2> QED BY <1>1, <2>1, <2>2
<1>7. ASSUME NEW e \in Trees, NEW g PROVE CanonOf(e, Along(g, e)) = Body0(g, e)
  <2>1. e.op \in Kept => Along(g, e) = [k \in DOMAIN e.args |-> g[e.args[k]]]
    BY FollowedCases DEF Along
  <2>2. e.op = "Imp" => Along(g, e)[1] = g[Negated[e.args[1]]] /\ Along(g, e)[2] = g[e.args[2]]
    <3>1. e.op = "Imp" => Followed[e] = <<Negated[e.args[1]], e.args[2]>>
      BY FollowedCases
    <3> QED BY <3>1 DEF Along
  <2>3. e.op \in {"G", "F", "H", "O", "Paren"} => Along(g, e)[1] = g[e.args[1]]
    <3>1. e.op \in {"G", "F", "H", "O", "Paren"} => Followed[e] = <<e.args[1]>>
      BY FollowedCases DEF Quantifiers
    <3> QED BY <3>1 DEF Along
  <2> QED BY <2>1, <2>2, <2>3 DEF CanonOf
<1> HIDE DEF Body0
<1>8. D(f)
  <2>1. f = [e \in Trees |-> f[e]]
    BY <1>6
  <2> QED BY <1>6, <1>7, <2>1, Zenon
<1>9. Canonic = t
  BY DEF Canonic, Body0
<1>10. D(t)
  BY <1>8, Zenon
<1> HIDE DEF t
<1>11. t = [e \in Trees |-> t[e]] /\ \A e \in Trees : t[e] = CanonOf(e, Along(t, e))
  BY <1>7, <1>10, Zenon
<1>12. \A e \in Trees : f[e] = t[e]
  <2> DEFINE S == {e \in Trees : f[e] = t[e]}
  <2>1. ASSUME NEW e \in Trees, \A c \in Trees : w[c] < w[e] => c \in S PROVE e \in S
    <3>1. \A k \in DOMAIN Followed[e] : Followed[e][k] \in Trees /\ w[Followed[e][k]] < w[e]
      BY <1>3, FollowedType, FollowedLower
    <3>2. \A k \in DOMAIN Followed[e] : f[Followed[e][k]] = t[Followed[e][k]]
      BY <2>1, <3>1
    <3>3. Along(f, e) = Along(t, e)
      BY <3>2, AlongSame
    <3> QED BY <1>6, <1>11, <3>3
  <2>2. w \in [Trees -> Nat]
    BY <1>3 DEF Weighs
  <2> HIDE DEF S
  <2>3. Trees \subseteq S
    BY <2>1, <2>2, Upwards
  <2> QED BY <2>3 DEF S
<1>13. t = f
  BY <1>6, <1>11, <1>12, Zenon
<1> QED BY <1>6, <1>9, <1>13

(* The canonical form, node by node.                                       *)
LEMMA Canonics ==
  ASSUME AllTrees
  PROVE  /\ \A e \in Trees : e.op \in Untouched => Canonic[e] = e
         /\ \A a \in Trees : Canonic[Unary("At", a)] = Unary("At", Canonic[a])
         /\ \A a \in Trees : Canonic[Unary("Paren", a)] = Canonic[a]
         /\ \A a \in Trees : Canonic[Unary("Not", a)] = Negated[a]
         /\ \A op \in Steps, n \in Int, a \in Trees :
              Canonic[Node(op, n, <<a>>)] = Node(op, n, <<Canonic[a]>>)
         /\ \A t \in Windows, a \in Trees :
              /\ Canonic[Node("G", t, <<a>>)] = Node("Rw", t, <<False, Canonic[a]>>)
              /\ Canonic[Node("F", t, <<a>>)] = Node("Us", t, <<True, Canonic[a]>>)
              /\ Canonic[Node("H", t, <<a>>)] = Node("Tw", t, <<False, Canonic[a]>>)
              /\ Canonic[Node("O", t, <<a>>)] = Node("Ss", t, <<True, Canonic[a]>>)
         /\ \A op \in {"Or", "And", "Xor", "Equ"}, a \in Trees, b \in Trees :
              Canonic[Binary(op, a, b)] = Binary(op, Canonic[a], Canonic[b])
         /\ \A a \in Trees, b \in Trees :
              Canonic[Binary("Imp", a, b)] = Binary("Or", Canonic[Negated[a]], Canonic[b])
         /\ \A op \in AllOps, t \in Windows, a \in Trees, b \in Trees :
              Canonic[Node(op, t, <<a, b>>)] = Node(op, t, <<Canonic[a], Canonic[b]>>)
<1>1. \A e \in Trees : Canonic[e] = CanonOf(e, Along(Canonic, e))
  BY CanonicIs
<1>2. \A e \in Trees : e.op \in Untouched => Canonic[e] = e
  BY <1>1, CanonCases, ZenonT(60)
<1>3. ASSUME NEW op \in Kept, NEW par, NEW a \in Trees, Node(op, par, <<a>>) \in Trees
      PROVE  Canonic[Node(op, par, <<a>>)] = Node(op, par, <<Canonic[a]>>)
  <2> DEFINE e == Node(op, par, <<a>>)
  <2>1. e.op = op /\ e.par = par /\ e.args = <<a>>
    BY DEF Node
  <2>2. Followed[e] = <<a>>
    BY <1>3, <2>1, FollowedCases
  <2> HIDE DEF e
  <2>3. Along(Canonic, e) = <<Canonic[a]>>
    BY <2>2 DEF Along
  <2>4. Canonic[e] = CanonOf(e, <<Canonic[a]>>)
    BY <1>1, <1>3, <2>3 DEF e
  <2>5. Canonic[e] = Node(op, par, <<Canonic[a]>>)
    BY <2>1, <2>4, CanonCases
  <2> QED BY <2>5 DEF e
<1>4. ASSUME NEW op \in Kept, NEW par, NEW a \in Trees, NEW b \in Trees, Node(op, par, <<a, b>>) \in Trees
      PROVE  Canonic[Node(op, par, <<a, b>>)] = Node(op, par, <<Canonic[a], Canonic[b]>>)
  <2> DEFINE e == Node(op, par, <<a, b>>)
  <2>1. e.op = op /\ e.par = par /\ e.args = <<a, b>>
    BY DEF Node
  <2>2. Followed[e] = <<a, b>>
    BY <1>4, <2>1, FollowedCases
  <2> HIDE DEF e
  <2>3. Along(Canonic, e) = <<Canonic[a], Canonic[b]>>
    BY <2>2 DEF Along
  <2>4. Canonic[e] = CanonOf(e, <<Canonic[a], Canonic[b]>>)
    BY <1>1, <1>4, <2>3 DEF e
  <2>5. Canonic[e] = Node(op, par, <<Canonic[a], Canonic[b]>>)
    BY <2>1, <2>4, CanonCases, ZenonT(60)
  <2> QED BY <2>5 DEF e
<1>5. ASSUME NEW a \in Trees
      PROVE  /\ Canonic[Unary("At", a)] = Unary("At", Canonic[a])
             /\ Canonic[Unary("Paren", a)] = Canonic[a]
             /\ Canonic[Unary("Not", a)] = Negated[a]
  <2>1. \A op \in Wrapping : Unary(op, a) \in Trees
    BY Nodes
  <2>2. \A op \in Wrapping : Unary(op, a).op = op /\ Unary(op, a).args[1] = a
    BY DEF Unary, Node
  <2>3. "At" \in Wrapping /\ "Paren" \in Wrapping /\ "Not" \in Wrapping /\ "At" \in Kept
    BY KeptKinds DEF Wrapping
  <2>4. Canonic[Unary("At", a)] = Unary("At", Canonic[a])
    BY <1>3, <2>1, <2>3 DEF Unary
  <2>5. Canonic[Unary("Paren", a)] = Canonic[a]
    <3> DEFINE e == Unary("Paren", a)
    <3>1. e \in Trees /\ e.op = "Paren" /\ e.args[1] = a
      BY <2>1, <2>2, <2>3
    <3> HIDE DEF e
    <3>2. Followed[e] = <<a>>
      BY <3>1, FollowedCases
    <3>3. Along(Canonic, e)[1] = Canonic[a]
      BY <3>2 DEF Along
    <3>4. Canonic[e] = Canonic[a]
      BY <1>1, <3>1, <3>3, CanonCases
    <3> QED BY <3>4 DEF e
  <2>6. Canonic[Unary("Not", a)] = Negated[a]
    <3> DEFINE e == Unary("Not", a)
               v == Along(Canonic, e)
    <3>1. e \in Trees /\ e.op = "Not" /\ e.args[1] = a
      BY <2>1, <2>2, <2>3
    <3>2. Canonic[e] = CanonOf(e, v)
      BY <1>1, <3>1
    <3> HIDE DEF e, v
    <3>3. Canonic[e] = Negated[a]
      BY <3>1, <3>2, CanonCases
    <3> QED BY <3>3 DEF e
  <2> QED BY <2>4, <2>5, <2>6
<1>6. ASSUME NEW op \in Steps, NEW n \in Int, NEW a \in Trees
      PROVE  Canonic[Node(op, n, <<a>>)] = Node(op, n, <<Canonic[a]>>)
  <2>1. Node(op, n, <<a>>) \in Trees /\ op \in Kept
    BY Nodes, KeptKinds
  <2> QED BY <1>3, <2>1
<1>7. ASSUME NEW t \in Windows, NEW a \in Trees
      PROVE  /\ Canonic[Node("G", t, <<a>>)] = Node("Rw", t, <<False, Canonic[a]>>)
             /\ Canonic[Node("F", t, <<a>>)] = Node("Us", t, <<True, Canonic[a]>>)
             /\ Canonic[Node("H", t, <<a>>)] = Node("Tw", t, <<False, Canonic[a]>>)
             /\ Canonic[Node("O", t, <<a>>)] = Node("Ss", t, <<True, Canonic[a]>>)
  <2>1. ASSUME NEW op \in Quantifiers
        PROVE  /\ op = "G" => Canonic[Node(op, t, <<a>>)] = Node("Rw", t, <<False, Canonic[a]>>)
               /\ op = "F" => Canonic[Node(op, t, <<a>>)] = Node("Us", t, <<True, Canonic[a]>>)
               /\ op = "H" => Canonic[Node(op, t, <<a>>)] = Node("Tw", t, <<False, Canonic[a]>>)
               /\ op = "O" => Canonic[Node(op, t, <<a>>)] = Node("Ss", t, <<True, Canonic[a]>>)
    <3> DEFINE e == Node(op, t, <<a>>)
               v == Along(Canonic, e)
    <3>1. e \in Trees
      BY Nodes
    <3>2. e.op = op /\ e.par = t /\ e.args[1] = a
      BY DEF Node
    <3> HIDE DEF e
    <3>3. Followed[e] = <<a>>
      BY <3>1, <3>2, FollowedCases
    <3>4. v[1] = Canonic[a]
      BY <3>3 DEF Along
    <3>5. Canonic[e] = CanonOf(e, v)
      BY <1>1, <3>1
    <3> HIDE DEF v
    <3>6. /\ op = "G" => CanonOf(e, v) = Node("Rw", e.par, <<False, v[1]>>)
          /\ op = "F" => CanonOf(e, v) = Node("Us", e.par, <<True, v[1]>>)
          /\ op = "H" => CanonOf(e, v) = Node("Tw", e.par, <<False, v[1]>>)
          /\ op = "O" => CanonOf(e, v) = Node("Ss", e.par, <<True, v[1]>>)
      BY <3>2, CanonCases
    <3> QED BY <3>2, <3>4, <3>5, <3>6 DEF e
  <2>2. "G" \in Quantifiers /\ "F" \in Quantifiers /\ "H" \in Quantifiers /\ "O" \in Quantifiers
    BY DEF Quantifiers
  <2> QED BY <2>1, <2>2
<1>8. ASSUME NEW op \in {"Or", "And", "Xor", "Equ"}, NEW a \in Trees, NEW b \in Trees
      PROVE  Canonic[Binary(op, a, b)] = Binary(op, Canonic[a], Canonic[b])
  <2>1. Node(op, None, <<a, b>>) \in Trees /\ op \in Kept
    BY Nodes, KeptKinds DEF Binary, Connectives
  <2> QED BY <1>4, <2>1 DEF Binary
<1>9. ASSUME NEW a \in Trees, NEW b \in Trees
      PROVE  Canonic[Binary("Imp", a, b)] = Binary("Or", Canonic[Negated[a]], Canonic[b])
  <2> DEFINE e == Binary("Imp", a, b)
  <2>1. e \in Trees
    BY Nodes DEF Connectives
  <2>2. e.op = "Imp" /\ e.args[1] = a /\ e.args[2] = b
    BY DEF Binary, Node
  <2> HIDE DEF e
  <2>3. Followed[e] = <<Negated[a], b>>
    BY <2>1, <2>2, FollowedCases
  <2>4. Along(Canonic, e)[1] = Canonic[Negated[a]] /\ Along(Canonic, e)[2] = Canonic[b]
    BY <2>3 DEF Along
  <2> DEFINE v == Along(Canonic, e)
  <2>6. v[1] = Canonic[Negated[a]] /\ v[2] = Canonic[b] /\ Canonic[e] = CanonOf(e, v)
    BY <1>1, <2>1, <2>4
  <2> HIDE DEF v
  <2>7. CanonOf(e, v) = Binary("Or", v[1], v[2])
    BY <2>2, CanonCases
  <2>5. Canonic[e] = Binary("Or", Canonic[Negated[a]], Canonic[b])
    BY <2>6, <2>7
  <2> QED BY <2>5 DEF e
<1>10. ASSUME NEW op \in AllOps, NEW t \in Windows, NEW a \in Trees, NEW b \in Trees
       PROVE  Canonic[Node(op, t, <<a, b>>)] = Node(op, t, <<Canonic[a], Canonic[b]>>)
  <2>1. Node(op, t, <<a, b>>) \in Trees /\ op \in Kept
    BY Nodes, KeptKinds
  <2> QED BY <1>4, <2>1
<1> QED BY <1>2, <1>5, <1>6, <1>7, <1>8, <1>9, <1>10

(* Induction along CanonicImpl.                                            *)
LEMMA OnFollowed ==
  ASSUME AllTrees, NEW S, S \subseteq Trees,
         \A e \in Trees : (\A k \in DOMAIN Followed[e] : Followed[e][k] \in S) => e \in S
  PROVE  S = Trees
<1>1. PICK w : Weighs(w)
  BY Weights
<1>2. w \in [Trees -> Nat]
  BY <1>1 DEF Weighs
<1>3. ASSUME NEW e \in Trees, \A c \in Trees : w[c] < w[e] => c \in S PROVE e \in S
  <2>1. \A k \in DOMAIN Followed[e] : Followed[e][k] \in Trees /\ w[Followed[e][k]] < w[e]
    BY <1>1, FollowedType, FollowedLower
  <2> QED BY <1>3, <2>1
<1>4. Trees \subseteq S
  BY <1>2, <1>3, Upwards
<1> QED BY <1>4

LEMMA OnCanonic ==
  ASSUME AllTrees, NEW S, S \subseteq Trees,
         \A e \in Trees : e.op \in Untouched => e \in S,
         \A a \in Trees : Unary("Not", a) \in S,
         \A op \in {"At", "Paren"}, a \in S : Unary(op, a) \in S,
         \A op \in Steps, n \in Int, a \in S : Node(op, n, <<a>>) \in S,
         \A op \in Quantifiers, t \in Windows, a \in S : Node(op, t, <<a>>) \in S,
         \A op \in {"Or", "And", "Xor", "Equ"}, a \in S, b \in S : Binary(op, a, b) \in S,
         \A a \in Trees, b \in S : Negated[a] \in S => Binary("Imp", a, b) \in S,
         \A op \in AllOps, t \in Windows, a \in S, b \in S : Node(op, t, <<a, b>>) \in S
  PROVE  S = Trees
<1>1. ASSUME NEW e \in Trees, \A k \in DOMAIN Followed[e] : Followed[e][k] \in S PROVE e \in S
  <2> DEFINE a == e.args[1]
             b == e.args[2]
  <2>1. CASE e.op \in Untouched
    BY <2>1
  <2>2. CASE e.op = "Not"
    <3>1. a \in Trees /\ e = Unary(e.op, a)
      BY <2>2, ByOperator DEF Wrapping
    <3>2. Unary("Not", a) \in S
      BY <3>1
    <3> QED BY <2>2, <3>1, <3>2
  <2>3. CASE e.op \in Quantifiers \cup {"Paren"}
    <3>1. Followed[e] = <<a>>
      BY <2>3, FollowedCases
    <3>2. a \in S
      BY <1>1, <3>1
    <3>3. e.op \in Quantifiers => e.par \in Windows /\ e = Node(e.op, e.par, <<a>>)
      BY ByOperator
    <3>4. e.op = "Paren" => e = Unary(e.op, a)
      BY ByOperator DEF Wrapping
    <3> QED BY <2>3, <3>2, <3>3, <3>4
  <2>4. CASE e.op = "Imp"
    <3>1. Followed[e] = <<Negated[a], b>>
      BY <2>4, FollowedCases
    <3>2. Negated[a] \in S /\ b \in S
      BY <1>1, <3>1
    <3>3. a \in Trees /\ e = Binary("Imp", a, b)
      BY <2>4, ByOperator DEF Connectives
    <3> QED BY <3>2, <3>3
  <2>5. CASE e.op \in {"At"} \cup Steps
    <3>1. Followed[e] = e.args
      BY <2>5, FollowedCases, KeptKinds
    <3>2. e.op \in Steps => e.par \in Int /\ e = Node(e.op, e.par, <<a>>)
      BY ByOperator
    <3>3. e.op = "At" => e = Unary(e.op, a)
      BY ByOperator DEF Wrapping
    <3>4. e.args = <<a>>
      BY <2>5, <3>2, <3>3 DEF Unary, Node
    <3>5. a \in S
      BY <1>1, <3>1, <3>4
    <3> QED BY <2>5, <3>2, <3>3, <3>5
  <2>6. CASE e.op \in {"Or", "And", "Xor", "Equ"} \cup AllOps
    <3>1. Followed[e] = e.args
      BY <2>6, FollowedCases, KeptKinds
    <3>2. e.op \in AllOps => e.par \in Windows /\ e = Node(e.op, e.par, <<a, b>>)
      BY ByOperator
    <3>3. e.op \in {"Or", "And", "Xor", "Equ"} => e = Binary(e.op, a, b)
      BY ByOperator DEF Connectives
    <3>4. e.args = <<a, b>>
      BY <2>6, <3>2, <3>3 DEF Binary, Node
    <3>5. a \in S /\ b \in S
      BY <1>1, <3>1, <3>4
    <3> QED BY <2>6, <3>2, <3>3, <3>5
  <2>7. e.op \in Untouched \cup {"Not", "Paren", "Imp", "At"} \cup Quantifiers \cup Steps
                 \cup {"Or", "And", "Xor", "Equ"} \cup AllOps
    BY FollowedCases, KeptKinds
  <2> QED BY <2>1, <2>2, <2>3, <2>4, <2>5, <2>6, <2>7
<1> QED BY <1>1, OnFollowed

(* The operators that CanonicImpl replaces.                                *)
LEMMA MeaningAhead ==
  ASSUME NEW w \in Windows, NEW s, NEW V, NEW i \in DataRow
  PROVE  /\ Meaning(CallAt("Rw", w, {}, V, s, i)) <=> Ahead(w, s, i) \subseteq V
         /\ Meaning(CallAt("Us", w, DataRow, V, s, i)) <=> Ahead(w, s, i) \cap V # {}
<1> DEFINE c == CallAt("Us", w, {}, {}, s, i)
           r == CallAt("Rw", w, {}, V, s, i)
           u == CallAt("Us", w, DataRow, V, s, i)
<1>1. "Us" \in AllOps /\ "Rw" \in AllOps /\ "Us" \notin PastOps /\ "Rw" \notin PastOps
  BY DEF AllOps, FutureOps, PastOps
<1>2. DataRow \subseteq Row
  BY RowTypes
<1>3. /\ c.op = "Us" /\ c.lo = w.lo /\ c.hi = w.hi /\ c.time = s.time /\ c.start = i
      /\ Reach(c) \subseteq DataRow
  BY <1>1, CallFacts
<1>4. /\ r.op = "Rw" /\ r.lo = w.lo /\ r.hi = w.hi /\ r.time = s.time /\ r.start = i
      /\ \A j \in DataRow : r.lhs[j] = FALSE /\ r.rhs[j] = (j \in V)
  <2>1. r.op = "Rw" /\ r.lo = w.lo /\ r.hi = w.hi /\ r.time = s.time /\ r.start = i
    BY DEF CallAt
  <2>2. r.lhs = [j \in Row |-> j \in {}] /\ r.rhs = [j \in Row |-> j \in V]
    BY DEF CallAt
  <2> HIDE DEF r
  <2>3. \A j \in DataRow : r.rhs[j] = (j \in V)
    BY <1>2, <2>2
  <2>4. \A j \in Row : r.lhs[j] = (j \in {})
    BY <2>2, Zenon
  <2>5. \A j \in Row : (j \in {}) = FALSE
    OBVIOUS
  <2>6. \A j \in DataRow : r.lhs[j] = FALSE
    BY <1>2, <2>4, <2>5, Zenon
  <2> QED BY <2>1, <2>3, <2>6
<1>5. /\ u.op = "Us" /\ u.lo = w.lo /\ u.hi = w.hi /\ u.time = s.time /\ u.start = i
      /\ \A j \in DataRow : u.lhs[j] = TRUE /\ u.rhs[j] = (j \in V)
  <2>1. u.op = "Us" /\ u.lo = w.lo /\ u.hi = w.hi /\ u.time = s.time /\ u.start = i
    BY DEF CallAt
  <2>2. u.lhs = [j \in Row |-> j \in DataRow] /\ u.rhs = [j \in Row |-> j \in V]
    BY DEF CallAt
  <2> HIDE DEF u
  <2> QED BY <1>2, <2>1, <2>2
<1> HIDE DEF c, r, u
<1>6. /\ Reach(r) = Reach(c) /\ Reach(u) = Reach(c)
      /\ (Bounded(r) <=> Bounded(c)) /\ (Bounded(u) <=> Bounded(c))
  BY <1>1, <1>3, <1>4, <1>5 DEF Reach, Bounded
<1>7. \A j : Instants(r, j) = Instants(c, j) /\ Instants(u, j) = Instants(c, j)
  BY <1>1, <1>3, <1>4, <1>5 DEF Instants, Covered, InWindow, Now
<1>8. Ahead(w, s, i) = {j \in Reach(c) : Bounded(c) => Instants(c, j) # {}}
  BY DEF Ahead, Visible, c
<1>9. Meaning(r) <=> \A j \in Reach(c) : (Bounded(c) => Instants(c, j) # {}) => j \in V
  <2>1. CASE Bounded(c)
    <3>1. Meaning(r) <=> ReleaseTimed(r)
      BY <1>4, <1>6, <2>1 DEF Meaning, MeaningTimed
    <3>2. ReleaseTimed(r) <=> \A j \in Reach(c) : \A t \in Instants(c, j) : j \in V
      BY <1>3, <1>4, <1>6, <1>7 DEF ReleaseTimed
    <3> QED BY <2>1, <3>1, <3>2
  <2>2. CASE ~Bounded(c)
    <3>1. Meaning(r) <=> ReleaseRows(r, Reach(r))
      BY <1>4, <1>6, <2>2 DEF Meaning, MeaningRows
    <3>2. ReleaseRows(r, Reach(r)) <=> \A j \in Reach(c) : j \in V
      BY <1>3, <1>4, <1>6 DEF ReleaseRows
    <3> QED BY <2>2, <3>1, <3>2
  <2> QED BY <2>1, <2>2
<1>10. Meaning(u) <=> \E j \in Reach(c) : (Bounded(c) => Instants(c, j) # {}) /\ j \in V
  <2>1. CASE Bounded(c)
    <3>1. Meaning(u) <=> UntilTimed(u)
      BY <1>5, <1>6, <2>1 DEF Meaning, MeaningTimed
    <3>2. UntilTimed(u) <=> \E j \in Reach(c) : \E t \in Instants(c, j) : j \in V
      BY <1>3, <1>5, <1>6, <1>7 DEF UntilTimed
    <3> QED BY <2>1, <3>1, <3>2
  <2>2. CASE ~Bounded(c)
    <3>1. Meaning(u) <=> UntilRows(u, Reach(u))
      BY <1>5, <1>6, <2>2 DEF Meaning, MeaningRows
    <3>2. UntilRows(u, Reach(u)) <=> \E j \in Reach(c) : j \in V
      BY <1>3, <1>5, <1>6 DEF UntilRows
    <3> QED BY <2>2, <3>1, <3>2
  <2> QED BY <2>1, <2>2
<1> QED BY <1>8, <1>9, <1>10 DEF r, u

LEMMA MeaningBehind ==
  ASSUME NEW w \in Windows, NEW s, NEW V, NEW i \in DataRow
  PROVE  /\ Meaning(CallAt("Tw", w, {}, V, s, i)) <=> Behind(w, s, i) \subseteq V
         /\ Meaning(CallAt("Ss", w, DataRow, V, s, i)) <=> Behind(w, s, i) \cap V # {}
<1> DEFINE c == CallAt("Ss", w, {}, {}, s, i)
           r == CallAt("Tw", w, {}, V, s, i)
           u == CallAt("Ss", w, DataRow, V, s, i)
<1>1. "Ss" \in AllOps /\ "Tw" \in AllOps /\ "Ss" \in PastOps /\ "Tw" \in PastOps
  BY DEF AllOps, FutureOps, PastOps
<1>2. DataRow \subseteq Row
  BY RowTypes
<1>3. /\ c.op = "Ss" /\ c.lo = w.lo /\ c.hi = w.hi /\ c.time = s.time /\ c.start = i
      /\ Reach(c) \subseteq DataRow
  BY <1>1, CallFacts
<1>4. /\ r.op = "Tw" /\ r.lo = w.lo /\ r.hi = w.hi /\ r.time = s.time /\ r.start = i
      /\ \A j \in DataRow : r.lhs[j] = FALSE /\ r.rhs[j] = (j \in V)
  <2>1. r.op = "Tw" /\ r.lo = w.lo /\ r.hi = w.hi /\ r.time = s.time /\ r.start = i
    BY DEF CallAt
  <2>2. r.lhs = [j \in Row |-> j \in {}] /\ r.rhs = [j \in Row |-> j \in V]
    BY DEF CallAt
  <2> HIDE DEF r
  <2>3. \A j \in DataRow : r.rhs[j] = (j \in V)
    BY <1>2, <2>2
  <2>4. \A j \in Row : r.lhs[j] = (j \in {})
    BY <2>2, Zenon
  <2>5. \A j \in Row : (j \in {}) = FALSE
    OBVIOUS
  <2>6. \A j \in DataRow : r.lhs[j] = FALSE
    BY <1>2, <2>4, <2>5, Zenon
  <2> QED BY <2>1, <2>3, <2>6
<1>5. /\ u.op = "Ss" /\ u.lo = w.lo /\ u.hi = w.hi /\ u.time = s.time /\ u.start = i
      /\ \A j \in DataRow : u.lhs[j] = TRUE /\ u.rhs[j] = (j \in V)
  <2>1. u.op = "Ss" /\ u.lo = w.lo /\ u.hi = w.hi /\ u.time = s.time /\ u.start = i
    BY DEF CallAt
  <2>2. u.lhs = [j \in Row |-> j \in DataRow] /\ u.rhs = [j \in Row |-> j \in V]
    BY DEF CallAt
  <2> HIDE DEF u
  <2> QED BY <1>2, <2>1, <2>2
<1> HIDE DEF c, r, u
<1>6. /\ Reach(r) = Reach(c) /\ Reach(u) = Reach(c)
      /\ (Bounded(r) <=> Bounded(c)) /\ (Bounded(u) <=> Bounded(c))
  BY <1>1, <1>3, <1>4, <1>5 DEF Reach, Bounded
<1>7. \A j : Instants(r, j) = Instants(c, j) /\ Instants(u, j) = Instants(c, j)
  BY <1>1, <1>3, <1>4, <1>5 DEF Instants, Covered, InWindow, Now
<1>8. Behind(w, s, i) = {j \in Reach(c) : Bounded(c) => Instants(c, j) # {}}
  BY DEF Behind, Visible, c
<1>9. Meaning(r) <=> \A j \in Reach(c) : (Bounded(c) => Instants(c, j) # {}) => j \in V
  <2>1. CASE Bounded(c)
    <3>1. Meaning(r) <=> ReleaseTimed(r)
      BY <1>4, <1>6, <2>1 DEF Meaning, MeaningTimed
    <3>2. ReleaseTimed(r) <=> \A j \in Reach(c) : \A t \in Instants(c, j) : j \in V
      BY <1>3, <1>4, <1>6, <1>7 DEF ReleaseTimed
    <3> QED BY <2>1, <3>1, <3>2
  <2>2. CASE ~Bounded(c)
    <3>1. Meaning(r) <=> ReleaseRows(r, Reach(r))
      BY <1>4, <1>6, <2>2 DEF Meaning, MeaningRows
    <3>2. ReleaseRows(r, Reach(r)) <=> \A j \in Reach(c) : j \in V
      BY <1>3, <1>4, <1>6 DEF ReleaseRows
    <3> QED BY <2>2, <3>1, <3>2
  <2> QED BY <2>1, <2>2
<1>10. Meaning(u) <=> \E j \in Reach(c) : (Bounded(c) => Instants(c, j) # {}) /\ j \in V
  <2>1. CASE Bounded(c)
    <3>1. Meaning(u) <=> UntilTimed(u)
      BY <1>5, <1>6, <2>1 DEF Meaning, MeaningTimed
    <3>2. UntilTimed(u) <=> \E j \in Reach(c) : \E t \in Instants(c, j) : j \in V
      BY <1>3, <1>5, <1>6, <1>7 DEF UntilTimed
    <3> QED BY <2>1, <3>1, <3>2
  <2>2. CASE ~Bounded(c)
    <3>1. Meaning(u) <=> UntilRows(u, Reach(u))
      BY <1>5, <1>6, <2>2 DEF Meaning, MeaningRows
    <3>2. UntilRows(u, Reach(u)) <=> \E j \in Reach(c) : j \in V
      BY <1>3, <1>5, <1>6 DEF UntilRows
    <3> QED BY <2>2, <3>1, <3>2
  <2> QED BY <2>1, <2>2
<1> QED BY <1>8, <1>9, <1>10 DEF r, u

----------------------------------------------------------------------------
(* Formulas that hold at the same rows can take each other's place.        *)
Alike(e, f, s) == \A x \in Row : Sat(e, s, x) = Sat(f, s, x)

LEMMA Rebuilt ==
  ASSUME AllTrees, NEW e \in Trees
  PROVE  Node(e.op, e.par, e.args) = e /\ e.args = [k \in DOMAIN e.args |-> e.args[k]]
<1>1. Node(e.op, e.par, e.args) = e
  BY TreeKinds DEF Leaf, Bound, Unary, Binary, Node
<1>2. e.args \in Seq(Trees)
  BY TreeFields
<1>3. e.args = [k \in DOMAIN e.args |-> e.args[k]]
  BY <1>2
<1> QED BY <1>1, <1>3

LEMMA Congruent ==
  ASSUME AllTrees, NEW s, Segment(s), NEW e \in Trees, NEW f \in Trees,
         e.op = f.op, e.par = f.par, DOMAIN e.args = DOMAIN f.args,
         \A k \in DOMAIN e.args : Alike(e.args[k], f.args[k], s)
  PROVE  Alike(e, f, s)
<1> SUFFICES ASSUME NEW x \in Row PROVE Sat(e, s, x) = Sat(f, s, x)
  BY DEF Alike
<1> DEFINE V == [k \in DOMAIN f.args |-> Judged(f.args[k], s)]
<1>1. \A k \in DOMAIN e.args : Judged(e.args[k], s) = Judged(f.args[k], s)
  BY DEF Judged, Alike
<1>2. [k \in DOMAIN e.args |-> Judged(e.args[k], s)] = V
  BY <1>1, Zenon
<1>3. Sat(e, s, x) = Holds(e, V, s, x) /\ Sat(f, s, x) = Holds(f, V, s, x)
  BY <1>2, SatNode
<1> HIDE DEF V
<1>4. Holds(Node(e.op, e.par, e.args), V, s, x) = Holds(Node(e.op, e.par, f.args), V, s, x)
  BY HoldsSame
<1> QED BY <1>3, <1>4, Rebuilt

LEMMA Congruent1 ==
  ASSUME AllTrees, NEW s, Segment(s), NEW op, NEW par, NEW a, NEW b,
         Node(op, par, <<a>>) \in Trees, Node(op, par, <<b>>) \in Trees, Alike(a, b, s)
  PROVE  Alike(Node(op, par, <<a>>), Node(op, par, <<b>>), s)
<1> DEFINE e == Node(op, par, <<a>>)
           f == Node(op, par, <<b>>)
<1>1. e.op = f.op /\ e.par = f.par /\ e.args = <<a>> /\ f.args = <<b>>
  BY DEF Node
<1> HIDE DEF e, f
<1>2. Alike(e, f, s)
  BY <1>1, Congruent DEF e, f
<1> QED BY <1>2 DEF e, f

LEMMA Congruent2 ==
  ASSUME AllTrees, NEW s, Segment(s), NEW op, NEW par, NEW a, NEW b, NEW c, NEW d,
         Node(op, par, <<a, c>>) \in Trees, Node(op, par, <<b, d>>) \in Trees,
         Alike(a, b, s), Alike(c, d, s)
  PROVE  Alike(Node(op, par, <<a, c>>), Node(op, par, <<b, d>>), s)
<1> DEFINE e == Node(op, par, <<a, c>>)
           f == Node(op, par, <<b, d>>)
<1>1. e.op = f.op /\ e.par = f.par /\ e.args = <<a, c>> /\ f.args = <<b, d>>
  BY DEF Node
<1> HIDE DEF e, f
<1>2. Alike(e, f, s)
  BY <1>1, Congruent DEF e, f
<1> QED BY <1>2 DEF e, f

LEMMA CanonicQuantifiers ==
  ASSUME AllTrees, NEW s, Segment(s), NEW t \in Windows, NEW a \in Trees, NEW op \in Quantifiers,
         Alike(Canonic[a], a, s)
  PROVE  Alike(Canonic[Node(op, t, <<a>>)], Node(op, t, <<a>>), s)
<1>1. Canonic[a] \in Trees /\ True \in Trees /\ False \in Trees
  BY CanonicIs, Nodes
<1>2. {"Us", "Rw", "Ss", "Tw"} \subseteq AllOps
  BY DEF AllOps, FutureOps, PastOps
<1> SUFFICES ASSUME NEW x \in Row
             PROVE  Sat(Canonic[Node(op, t, <<a>>)], s, x) = Sat(Node(op, t, <<a>>), s, x)
  BY DEF Alike
<1> DEFINE W == Sat(a, s, x)
           at(o, L) == {i \in DataRow : Meaning(CallAt(o, t, L, W, s, i))}
<1>3. Sat(Canonic[a], s, x) = W
  BY DEF Alike
<1>4. Sat(True, s, x) = DataRow /\ Sat(False, s, x) = {}
  BY SatLeaves
<1>14. ASSUME NEW o \in AllOps, NEW c \in Trees
       PROVE  Sat(Node(o, t, <<c, Canonic[a]>>), s, x) = at(o, Sat(c, s, x))
  <2>1. Sat(Node(o, t, <<c, Canonic[a]>>), s, x)
          = {i \in DataRow : Meaning(CallAt(o, t, Sat(c, s, x), Sat(Canonic[a], s, x), s, i))}
    BY <1>1, SatTemporal
  <2> QED BY <1>3, <2>1
<1> HIDE DEF at
<1>5. /\ Sat(Node("Rw", t, <<False, Canonic[a]>>), s, x) = at("Rw", {})
      /\ Sat(Node("Us", t, <<True, Canonic[a]>>), s, x) = at("Us", DataRow)
  BY <1>1, <1>2, <1>4, <1>14
<1>6. /\ Sat(Node("Tw", t, <<False, Canonic[a]>>), s, x) = at("Tw", {})
      /\ Sat(Node("Ss", t, <<True, Canonic[a]>>), s, x) = at("Ss", DataRow)
  BY <1>1, <1>2, <1>4, <1>14
<1>7. /\ Sat(Node("G", t, <<a>>), s, x) = {i \in DataRow : Ahead(t, s, i) \subseteq W}
      /\ Sat(Node("F", t, <<a>>), s, x) = {i \in DataRow : Ahead(t, s, i) \cap W # {}}
      /\ Sat(Node("H", t, <<a>>), s, x) = {i \in DataRow : Behind(t, s, i) \subseteq W}
      /\ Sat(Node("O", t, <<a>>), s, x) = {i \in DataRow : Behind(t, s, i) \cap W # {}}
  BY SatQuantifiers
<1> HIDE DEF W
<1>8. /\ at("Rw", {}) = {i \in DataRow : Ahead(t, s, i) \subseteq W}
      /\ at("Us", DataRow) = {i \in DataRow : Ahead(t, s, i) \cap W # {}}
  BY MeaningAhead DEF at
<1>9. /\ at("Tw", {}) = {i \in DataRow : Behind(t, s, i) \subseteq W}
      /\ at("Ss", DataRow) = {i \in DataRow : Behind(t, s, i) \cap W # {}}
  BY MeaningBehind DEF at
<1>10. CASE op = "G"
  BY <1>5, <1>7, <1>8, <1>10, Canonics
<1>11. CASE op = "F"
  BY <1>5, <1>7, <1>8, <1>11, Canonics
<1>12. CASE op = "H"
  BY <1>6, <1>7, <1>9, <1>12, Canonics
<1>13. CASE op = "O"
  BY <1>6, <1>7, <1>9, <1>13, Canonics
<1> QED BY <1>10, <1>11, <1>12, <1>13 DEF Quantifiers

(* The canonical form holds at the rows where the formula does: what takes *)
(* the place of G, F, H, O and of an implication means the same.           *)
THEOREM CanonicKeepsMeaning ==
  ASSUME AllTrees, NEW s, Segment(s)
  PROVE  \A e \in Trees : \A x \in Row : Sat(Canonic[e], s, x) = Sat(e, s, x)
<1> DEFINE S == {e \in Trees : Alike(Canonic[e], e, s)}
<1>0. \A e : e \in S <=> e \in Trees /\ Alike(Canonic[e], e, s)
  OBVIOUS
<1> HIDE DEF S
<1>1. \A e \in Trees : Canonic[e] \in Trees /\ Negated[e] \in Trees
  BY CanonicIs, NegatedIs
<1>2. ASSUME NEW e \in Trees, e.op \in Untouched PROVE e \in S
  BY <1>0, <1>2, Canonics DEF Alike
<1>3. ASSUME NEW a \in Trees PROVE Unary("Not", a) \in S
  <2>1. Unary("Not", a) \in Trees /\ Canonic[Unary("Not", a)] = Negated[a]
    BY Nodes, Canonics DEF Wrapping
  <2>2. \A x \in Row : Sat(Negated[a], s, x) = Sat(Unary("Not", a), s, x)
    <3>1. \A x \in Row : Sat(Negated[a], s, x) = DataRow \ Sat(a, s, x)
      BY NegatedIsNot
    <3>2. \A x \in Row : Sat(Unary("Not", a), s, x) = DataRow \ Sat(a, s, x)
      BY SatWrapping
    <3> QED BY <3>1, <3>2
  <2> QED BY <1>0, <2>1, <2>2 DEF Alike
<1>4. ASSUME NEW op \in {"At", "Paren"}, NEW a \in S PROVE Unary(op, a) \in S
  <2>1. a \in Trees /\ Canonic[a] \in Trees /\ Alike(Canonic[a], a, s)
    BY <1>0, <1>1
  <2>2. Unary("At", a) \in Trees /\ Unary("Paren", a) \in Trees /\ Unary("At", Canonic[a]) \in Trees
    BY <2>1, Nodes DEF Wrapping
  <2>3. CASE op = "At"
    <3>1. Canonic[Unary("At", a)] = Unary("At", Canonic[a])
      BY <2>1, Canonics
    <3>2. Alike(Unary("At", Canonic[a]), Unary("At", a), s)
      BY <2>1, <2>2, Congruent1 DEF Unary
    <3> QED BY <1>0, <2>2, <2>3, <3>1, <3>2
  <2>4. CASE op = "Paren"
    <3>1. Canonic[Unary("Paren", a)] = Canonic[a]
      BY <2>1, Canonics
    <3>2. \A x \in Row : Sat(Unary("Paren", a), s, x) = Sat(a, s, x)
      BY <2>1, SatWrapping
    <3> QED BY <1>0, <2>1, <2>2, <2>4, <3>1, <3>2 DEF Alike
  <2> QED BY <2>3, <2>4
<1>5. ASSUME NEW op \in Steps, NEW n \in Int, NEW a \in S PROVE Node(op, n, <<a>>) \in S
  <2>1. a \in Trees /\ Canonic[a] \in Trees /\ Alike(Canonic[a], a, s)
    BY <1>0, <1>1
  <2>2. Node(op, n, <<a>>) \in Trees /\ Node(op, n, <<Canonic[a]>>) \in Trees
    BY <2>1, Nodes
  <2>3. Canonic[Node(op, n, <<a>>)] = Node(op, n, <<Canonic[a]>>)
    BY <2>1, Canonics
  <2>4. Alike(Node(op, n, <<Canonic[a]>>), Node(op, n, <<a>>), s)
    BY <2>1, <2>2, Congruent1
  <2> QED BY <1>0, <2>2, <2>3, <2>4
<1>6. ASSUME NEW op \in Quantifiers, NEW t \in Windows, NEW a \in S PROVE Node(op, t, <<a>>) \in S
  <2>1. a \in Trees /\ Alike(Canonic[a], a, s)
    BY <1>0
  <2>2. Node(op, t, <<a>>) \in Trees
    BY <2>1, Nodes
  <2> QED BY <1>0, <2>1, <2>2, CanonicQuantifiers
<1>7. ASSUME NEW op \in {"Or", "And", "Xor", "Equ"}, NEW a \in S, NEW b \in S
      PROVE  Binary(op, a, b) \in S
  <2>1. /\ a \in Trees /\ Canonic[a] \in Trees /\ Alike(Canonic[a], a, s)
        /\ b \in Trees /\ Canonic[b] \in Trees /\ Alike(Canonic[b], b, s)
    BY <1>0, <1>1
  <2>2. Binary(op, a, b) \in Trees /\ Binary(op, Canonic[a], Canonic[b]) \in Trees
    BY <2>1, Nodes DEF Connectives
  <2>3. Canonic[Binary(op, a, b)] = Binary(op, Canonic[a], Canonic[b])
    BY <2>1, Canonics
  <2>4. Alike(Binary(op, Canonic[a], Canonic[b]), Binary(op, a, b), s)
    BY <2>1, <2>2, Congruent2 DEF Binary
  <2> QED BY <1>0, <2>2, <2>3, <2>4
<1>8. ASSUME NEW a \in Trees, NEW b \in S, Negated[a] \in S PROVE Binary("Imp", a, b) \in S
  <2>1. /\ b \in Trees /\ Canonic[b] \in Trees /\ Alike(Canonic[b], b, s)
        /\ Negated[a] \in Trees /\ Canonic[Negated[a]] \in Trees /\ Alike(Canonic[Negated[a]], Negated[a], s)
    BY <1>0, <1>1, <1>8
  <2>2. Binary("Imp", a, b) \in Trees
    BY <2>1, Nodes DEF Connectives
  <2>3. Canonic[Binary("Imp", a, b)] = Binary("Or", Canonic[Negated[a]], Canonic[b])
    BY <2>1, Canonics
  <2>4. ASSUME NEW x \in Row
        PROVE  Sat(Binary("Or", Canonic[Negated[a]], Canonic[b]), s, x) = Sat(Binary("Imp", a, b), s, x)
    <3>1. Sat(Binary("Or", Canonic[Negated[a]], Canonic[b]), s, x)
            = Sat(Canonic[Negated[a]], s, x) \cup Sat(Canonic[b], s, x)
      BY <2>1, SatConnectives
    <3>2. Sat(Binary("Imp", a, b), s, x) = (DataRow \ Sat(a, s, x)) \cup Sat(b, s, x)
      BY <2>1, SatConnectives
    <3>3. Sat(Canonic[Negated[a]], s, x) = DataRow \ Sat(a, s, x) /\ Sat(Canonic[b], s, x) = Sat(b, s, x)
      BY <2>1, NegatedIsNot DEF Alike
    <3> QED BY <3>1, <3>2, <3>3
  <2> QED BY <1>0, <2>2, <2>3, <2>4 DEF Alike
<1>9. ASSUME NEW op \in AllOps, NEW t \in Windows, NEW a \in S, NEW b \in S
      PROVE  Node(op, t, <<a, b>>) \in S
  <2>1. /\ a \in Trees /\ Canonic[a] \in Trees /\ Alike(Canonic[a], a, s)
        /\ b \in Trees /\ Canonic[b] \in Trees /\ Alike(Canonic[b], b, s)
    BY <1>0, <1>1
  <2>2. Node(op, t, <<a, b>>) \in Trees /\ Node(op, t, <<Canonic[a], Canonic[b]>>) \in Trees
    BY <2>1, Nodes
  <2>3. Canonic[Node(op, t, <<a, b>>)] = Node(op, t, <<Canonic[a], Canonic[b]>>)
    BY <2>1, Canonics
  <2>4. Alike(Node(op, t, <<Canonic[a], Canonic[b]>>), Node(op, t, <<a, b>>), s)
    BY <2>1, <2>2, Congruent2
  <2> QED BY <1>0, <2>2, <2>3, <2>4
<1>10. S \subseteq Trees
  BY <1>0
<1>11. S = Trees
  BY <1>2, <1>3, <1>4, <1>5, <1>6, <1>7, <1>8, <1>9, <1>10, OnCanonic
<1> QED BY <1>0, <1>11 DEF Alike

----------------------------------------------------------------------------
(* What RewriteImpl leaves: no G, F, H, O, implication or parentheses, and *)
(* a negation only where NegatedImpl has to stop.                          *)
LEMMA OnOperands ==
  ASSUME AllTrees, NEW S, S \subseteq Trees,
         \A e \in Trees : (\A k \in DOMAIN e.args : e.args[k] \in S) => e \in S
  PROVE  S = Trees
<1>1. PICK high \in [Trees -> Nat] :
        \A e \in Trees : \A k \in DOMAIN e.args : high[e.args[k]] < high[e]
  BY DEF AllTrees
<1>2. ASSUME NEW e \in Trees, \A c \in Trees : high[c] < high[e] => c \in S PROVE e \in S
  <2>1. \A k \in DOMAIN e.args : e.args[k] \in Trees
    BY TreeFields
  <2>2. \A k \in DOMAIN e.args : e.args[k] \in S
    BY <1>1, <1>2, <2>1
  <2> QED BY <2>2
<1>3. Trees \subseteq S
  BY <1>1, <1>2, Upwards
<1> QED BY <1>3

Replaced == Quantifiers \cup {"Paren", "Imp"}

Forms(T) ==
  {e \in Trees : /\ e.op \notin Replaced
                 /\ e.op = "Not" => e.args[1].op \in Atoms
                 /\ \A k \in DOMAIN e.args : e.args[k] \in T}

Normal == UNION {S \in SUBSET Trees : S \subseteq Forms(S)}

LEMMA NormalIs ==
  /\ Normal \subseteq Trees /\ Normal = Forms(Normal)
  /\ \A e \in Normal : \A k \in DOMAIN e.args : e.args[k] \in Normal
<1>1. ASSUME NEW T, NEW U, T \subseteq U PROVE Forms(T) \subseteq Forms(U)
  BY <1>1 DEF Forms
<1>2. Normal \subseteq Trees
  BY DEF Normal
<1>3. Normal \subseteq Forms(Normal)
  <2> SUFFICES ASSUME NEW e \in Normal PROVE e \in Forms(Normal)
    OBVIOUS
  <2>1. PICK S \in SUBSET Trees : S \subseteq Forms(S) /\ e \in S
    BY DEF Normal
  <2>2. S \subseteq Normal
    BY <2>1 DEF Normal
  <2> QED BY <1>1, <2>1, <2>2
<1>4. Forms(Normal) \subseteq Normal
  <2> DEFINE S == Forms(Normal)
  <2>1. S \subseteq Trees
    BY DEF Forms
  <2>2. S \subseteq Forms(S)
    BY <1>1, <1>3
  <2> HIDE DEF S
  <2>3. S \subseteq Normal
    BY <2>1, <2>2 DEF Normal
  <2> QED BY <2>3 DEF S
<1>5. \A e \in Forms(Normal) : \A k \in DOMAIN e.args : e.args[k] \in Normal
  BY DEF Forms
<1> QED BY <1>2, <1>3, <1>4, <1>5

LEMMA OnNormal ==
  ASSUME AllTrees, NEW S, S \subseteq Normal, Forms(S) \subseteq S
  PROVE  S = Normal
<1> DEFINE R == {e \in Trees : e \in Normal => e \in S}
<1>1. ASSUME NEW e \in Trees, \A k \in DOMAIN e.args : e.args[k] \in R PROVE e \in R
  <2>1. SUFFICES ASSUME e \in Normal PROVE e \in S
    OBVIOUS
  <2>2. e \in Forms(Normal) /\ \A k \in DOMAIN e.args : e.args[k] \in Normal
    BY <2>1, NormalIs
  <2>3. e \in Forms(S)
    BY <1>1, <2>2 DEF Forms
  <2> QED BY <2>3
<1> HIDE DEF R
<1>2. R \subseteq Trees
  BY DEF R
<1>3. R = Trees
  BY <1>1, <1>2, OnOperands
<1> QED BY <1>3, NormalIs DEF R

LEMMA KindsApart ==
  ASSUME AllTrees
  PROVE  /\ Truths \cap Replaced = {} /\ Steps \cap Replaced = {} /\ AllOps \cap Replaced = {}
         /\ Data \cap Replaced = {} /\ (Connectives \ {"Imp"}) \cap Replaced = {}
         /\ {"At", "Not", "bound", "Choice"} \cap Replaced = {}
         /\ Wrapping \ Replaced = {"At", "Not"} /\ Connectives \ Replaced = Connectives \ {"Imp"}
         /\ "Not" \notin Truths \cup Steps \cup AllOps \cup Data \cup Connectives
<1>1. Data \cap Names = {}
  BY DEF AllTrees
<1>2. Replaced \subseteq Names /\ "Not" \in Names
  BY DEF Replaced, Names, Wrapping, Connectives
<1>3. /\ Truths \cap Replaced = {} /\ Steps \cap Replaced = {} /\ AllOps \cap Replaced = {}
      /\ (Connectives \ {"Imp"}) \cap Replaced = {}
      /\ {"At", "Not", "bound", "Choice"} \cap Replaced = {}
  BY DEF Replaced, Quantifiers, Truths, Steps, AllOps, FutureOps, PastOps, Connectives
<1>4. Wrapping \ Replaced = {"At", "Not"} /\ Connectives \ Replaced = Connectives \ {"Imp"}
  BY DEF Replaced, Quantifiers, Wrapping, Connectives
<1>5. "Not" \notin Truths \cup Steps \cup AllOps \cup Connectives
  BY DEF Truths, Steps, AllOps, FutureOps, PastOps, Connectives
<1> QED BY <1>1, <1>2, <1>3, <1>4, <1>5

(* The nodes of a normal form. *)
LEMMA NormalNodes ==
  ASSUME AllTrees
  PROVE  /\ True \in Normal /\ False \in Normal
         /\ \A e \in Trees : e.op \in Data \cup {"bound"} => e \in Normal
         /\ \A a \in Normal : Unary("At", a) \in Normal
         /\ \A a \in Normal : a.op \in Atoms => Unary("Not", a) \in Normal
         /\ \A op \in Steps, n \in Int, a \in Normal : Node(op, n, <<a>>) \in Normal
         /\ \A op \in Connectives \ {"Imp"}, a \in Normal, b \in Normal : Binary(op, a, b) \in Normal
         /\ \A op \in AllOps, t \in Windows, a \in Normal, b \in Normal : Node(op, t, <<a, b>>) \in Normal
         /\ \A a \in Normal, b \in Normal, c \in Normal : Node("Choice", None, <<a, b, c>>) \in Normal
<1>1. ASSUME NEW e \in Trees, e.op \notin Replaced, e.op = "Not" => e.args[1].op \in Atoms,
             \A k \in DOMAIN e.args : e.args[k] \in Normal
      PROVE  e \in Normal
  <2>1. e \in Forms(Normal)
    BY <1>1 DEF Forms
  <2> QED BY <2>1, NormalIs
<1>2. \A a \in Normal : a \in Trees
  BY NormalIs
<1>3. True \in Normal /\ False \in Normal
  <2>1. /\ True \in Trees /\ True.op \in Truths /\ True.args = <<>>
        /\ False \in Trees /\ False.op \in Truths /\ False.args = <<>>
    BY Nodes DEF True, False, Leaf, Node, Truths
  <2> QED BY <1>1, <2>1, KindsApart
<1>4. ASSUME NEW e \in Trees, e.op \in Data \cup {"bound"} PROVE e \in Normal
  <2>1. e.args = <<>>
    BY <1>4, ByOperator DEF Leaf, Bound, Node
  <2> QED BY <1>1, <1>4, <2>1, KindsApart
<1>5. ASSUME NEW op \in {"At", "Not"}, NEW a \in Normal, op = "Not" => a.op \in Atoms
      PROVE  Unary(op, a) \in Normal
  <2> DEFINE e == Unary(op, a)
  <2>1. e \in Trees
    BY <1>2, Nodes DEF Wrapping
  <2>2. e.op = op /\ e.args = <<a>>
    BY DEF Unary, Node
  <2> HIDE DEF e
  <2>3. e \in Normal
    BY <1>1, <1>5, <2>1, <2>2, KindsApart
  <2> QED BY <2>3 DEF e
<1>6. ASSUME NEW op \in Steps, NEW n \in Int, NEW a \in Normal PROVE Node(op, n, <<a>>) \in Normal
  <2> DEFINE e == Node(op, n, <<a>>)
  <2>1. e \in Trees
    BY <1>2, Nodes
  <2>2. e.op = op /\ e.args = <<a>>
    BY DEF Node
  <2> HIDE DEF e
  <2>3. e \in Normal
    BY <1>1, <2>1, <2>2, KindsApart
  <2> QED BY <2>3 DEF e
<1>7. ASSUME NEW op \in Connectives \ {"Imp"}, NEW a \in Normal, NEW b \in Normal
      PROVE  Binary(op, a, b) \in Normal
  <2> DEFINE e == Binary(op, a, b)
  <2>1. e \in Trees
    BY <1>2, Nodes
  <2>2. e.op = op /\ e.args = <<a, b>>
    BY DEF Binary, Node
  <2> HIDE DEF e
  <2>3. e \in Normal
    BY <1>1, <2>1, <2>2, KindsApart
  <2> QED BY <2>3 DEF e
<1>8. ASSUME NEW op \in AllOps, NEW t \in Windows, NEW a \in Normal, NEW b \in Normal
      PROVE  Node(op, t, <<a, b>>) \in Normal
  <2> DEFINE e == Node(op, t, <<a, b>>)
  <2>1. e \in Trees
    BY <1>2, Nodes
  <2>2. e.op = op /\ e.args = <<a, b>>
    BY DEF Node
  <2> HIDE DEF e
  <2>3. e \in Normal
    BY <1>1, <2>1, <2>2, KindsApart
  <2> QED BY <2>3 DEF e
<1>9. ASSUME NEW a \in Normal, NEW b \in Normal, NEW c \in Normal
      PROVE  Node("Choice", None, <<a, b, c>>) \in Normal
  <2> DEFINE e == Node("Choice", None, <<a, b, c>>)
  <2>1. e \in Trees
    BY <1>2, Nodes
  <2>2. e.op = "Choice" /\ e.args = <<a, b, c>>
    BY DEF Node
  <2> HIDE DEF e
  <2>3. e \in Normal
    BY <1>1, <2>1, <2>2, KindsApart
  <2> QED BY <2>3 DEF e
<1> QED BY <1>3, <1>4, <1>5, <1>6, <1>7, <1>8, <1>9

LEMMA OnNormalKinds ==
  ASSUME AllTrees, NEW S, S \subseteq Normal, True \in S, False \in S,
         \A e \in Trees : e.op \in Data \cup {"bound"} => e \in S,
         \A a \in S : Unary("At", a) \in S,
         \A a \in S : a.op \in Atoms => Unary("Not", a) \in S,
         \A op \in Steps, n \in Int, a \in S : Node(op, n, <<a>>) \in S,
         \A op \in Connectives \ {"Imp"}, a \in S, b \in S : Binary(op, a, b) \in S,
         \A op \in AllOps, t \in Windows, a \in S, b \in S : Node(op, t, <<a, b>>) \in S,
         \A a \in S, b \in S, c \in S : Node("Choice", None, <<a, b, c>>) \in S
  PROVE  S = Normal
<1>1. ASSUME NEW e \in Forms(S) PROVE e \in S
  <2> DEFINE a == e.args[1]
             b == e.args[2]
             c == e.args[3]
  <2>1. /\ e \in Trees /\ e.op \notin Replaced /\ (e.op = "Not" => a.op \in Atoms)
        /\ \A k \in DOMAIN e.args : e.args[k] \in S
    BY DEF Forms
  <2>2. CASE e.op \in Truths /\ e = Leaf(e.op)
    BY <2>2 DEF Truths, True, False
  <2>3. CASE e.op \in Data \cup {"bound"}
    BY <2>1, <2>3
  <2>4. CASE e.op \in Wrapping /\ e = Unary(e.op, a)
    <3>1. e.args = <<a>>
      BY <2>4 DEF Unary, Node
    <3>2. a \in S
      BY <2>1, <3>1
    <3>3. e.op = "At" \/ e.op = "Not"
      BY <2>1, <2>4, KindsApart
    <3> QED BY <2>1, <2>4, <3>2, <3>3
  <2>5. CASE e.op \in Steps /\ e.par \in Int /\ e = Node(e.op, e.par, <<a>>)
    <3>1. e.args = <<a>>
      BY <2>5 DEF Node
    <3>2. a \in S
      BY <2>1, <3>1
    <3> QED BY <2>5, <3>2
  <2>6. CASE e.op \in Connectives /\ e = Binary(e.op, a, b)
    <3>1. e.args = <<a, b>>
      BY <2>6 DEF Binary, Node
    <3>2. a \in S /\ b \in S
      BY <2>1, <3>1
    <3>3. e.op \in Connectives \ {"Imp"}
      BY <2>1, <2>6, KindsApart
    <3> QED BY <2>6, <3>2, <3>3
  <2>7. CASE e.op \in AllOps /\ e.par \in Windows /\ e = Node(e.op, e.par, <<a, b>>)
    <3>1. e.args = <<a, b>>
      BY <2>7 DEF Node
    <3>2. a \in S /\ b \in S
      BY <2>1, <3>1
    <3> QED BY <2>7, <3>2
  <2>8. CASE e.op = "Choice" /\ e = Node("Choice", None, <<a, b, c>>)
    <3>1. e.args = <<a, b, c>>
      BY <2>8 DEF Node
    <3>2. a \in S /\ b \in S /\ c \in S
      BY <2>1, <3>1
    <3> QED BY <2>8, <3>2
  <2>9. e.op \notin Quantifiers
    BY <2>1 DEF Replaced
  <2> QED BY <2>1, <2>2, <2>3, <2>4, <2>5, <2>6, <2>7, <2>8, <2>9, TreeKinds
<1>2. Forms(S) \subseteq S
  BY <1>1
<1> QED BY <1>2, OnNormal

(* NegatedImpl leads from normal forms to normal forms. *)
LEMMA NegatedNormal ==
  ASSUME AllTrees
  PROVE  \A e \in Normal : Negated[e] \in Normal
<1> DEFINE S == {e \in Normal : Negated[e] \in Normal}
<1>0. \A e : e \in S <=> e \in Normal /\ Negated[e] \in Normal
  OBVIOUS
<1> HIDE DEF S
<1>1. S \subseteq Normal /\ Normal \subseteq Trees
  BY <1>0, NormalIs
<1>2. True \in S /\ False \in S
  BY <1>0, NormalNodes, Negations
<1>3. ASSUME NEW e \in Normal, e.op \in Atoms PROVE e \in S
  <2>1. Negated[e] = Unary("Not", e)
    BY <1>1, <1>3, Negations
  <2> QED BY <1>0, <1>3, <2>1, NormalNodes
<1>4. ASSUME NEW e \in Trees, e.op \in Data \cup {"bound"} PROVE e \in S
  BY <1>3, <1>4, NormalNodes DEF Atoms
<1>5. ASSUME NEW a \in S PROVE Unary("At", a) \in S
  <2>1. a \in Normal /\ a \in Trees /\ Negated[a] \in Normal
    BY <1>0, <1>1
  <2>2. Negated[Unary("At", a)] = Unary("At", Negated[a])
    BY <2>1, Negations
  <2>3. Unary("At", a) \in Normal /\ Unary("At", Negated[a]) \in Normal
    BY <2>1, NormalNodes
  <2> QED BY <1>0, <2>2, <2>3
<1>6. ASSUME NEW a \in S, a.op \in Atoms PROVE Unary("Not", a) \in S
  BY <1>0, <1>1, <1>6, NormalNodes, Negations, ZenonT(60)
<1>7. ASSUME NEW op \in Steps, NEW n \in Int, NEW a \in S PROVE Node(op, n, <<a>>) \in S
  <2>1. a \in Normal /\ a \in Trees /\ Negated[a] \in Normal
    BY <1>0, <1>1
  <2>2. Negated[Node(op, n, <<a>>)] = Node(Dual[op], n, <<Negated[a]>>) /\ Dual[op] \in Steps
    BY <2>1, Negations, Domains
  <2>3. Node(op, n, <<a>>) \in Normal /\ Node(Dual[op], n, <<Negated[a]>>) \in Normal
    BY <2>1, <2>2, NormalNodes
  <2> QED BY <1>0, <2>2, <2>3
<1>8. ASSUME NEW op \in Connectives \ {"Imp"}, NEW a \in S, NEW b \in S PROVE Binary(op, a, b) \in S
  <2>1. /\ a \in Normal /\ a \in Trees /\ Negated[a] \in Normal
        /\ b \in Normal /\ b \in Trees /\ Negated[b] \in Normal
    BY <1>0, <1>1
  <2>2. Binary(op, a, b) \in Normal
    BY <2>1, NormalNodes
  <2>3. CASE op \in {"And", "Or"}
    <3>1. Negated[Binary(op, a, b)] = Binary(Dual[op], Negated[a], Negated[b])
      BY <2>1, <2>3, Negations
    <3>2. Dual[op] \in Connectives \ {"Imp"}
      BY <2>3, Domains DEF Connectives
    <3>3. Binary(Dual[op], Negated[a], Negated[b]) \in Normal
      BY <2>1, <3>2, NormalNodes
    <3> QED BY <1>0, <2>2, <3>1, <3>3
  <2>4. CASE op \in DOMAIN Opposite
    <3>1. Negated[Binary(op, a, b)] = Binary(Opposite[op], a, b)
      BY <2>1, <2>4, Negations
    <3>2. Opposite[op] \in Connectives \ {"Imp"}
      BY <2>4, Domains
    <3>3. Binary(Opposite[op], a, b) \in Normal
      BY <2>1, <3>2, NormalNodes
    <3> QED BY <1>0, <2>2, <3>1, <3>3
  <2> QED BY <2>3, <2>4, Domains
<1>9. ASSUME NEW op \in AllOps, NEW t \in Windows, NEW a \in S, NEW b \in S PROVE Node(op, t, <<a, b>>) \in S
  <2>1. /\ a \in Normal /\ a \in Trees /\ Negated[a] \in Normal
        /\ b \in Normal /\ b \in Trees /\ Negated[b] \in Normal
    BY <1>0, <1>1
  <2>2. Negated[Node(op, t, <<a, b>>)] = Node(Dual[op], t, <<Negated[a], Negated[b]>>) /\ Dual[op] \in AllOps
    BY <2>1, Negations, Domains
  <2>3. Node(op, t, <<a, b>>) \in Normal /\ Node(Dual[op], t, <<Negated[a], Negated[b]>>) \in Normal
    BY <2>1, <2>2, NormalNodes
  <2> QED BY <1>0, <2>2, <2>3
<1>10. ASSUME NEW a \in S, NEW b \in S, NEW c \in S PROVE Node("Choice", None, <<a, b, c>>) \in S
  <2>1. Node("Choice", None, <<a, b, c>>) \in Normal
    BY <1>0, NormalNodes
  <2>2. Node("Choice", None, <<a, b, c>>).op \in Atoms
    BY DEF Node, Atoms
  <2> QED BY <1>3, <2>1, <2>2
<1>11. S = Normal
  BY <1>1, <1>2, <1>4, <1>5, <1>6, <1>7, <1>8, <1>9, <1>10, OnNormalKinds
<1> QED BY <1>0, <1>11

(* CanonicImpl finds nothing to do in a normal form. *)
LEMMA CanonicNormal ==
  ASSUME AllTrees
  PROVE  \A e \in Normal : Canonic[e] = e
<1> DEFINE S == {e \in Normal : Canonic[e] = e}
<1>0. \A e : e \in S <=> e \in Normal /\ Canonic[e] = e
  OBVIOUS
<1> HIDE DEF S
<1>1. S \subseteq Normal /\ Normal \subseteq Trees
  BY <1>0, NormalIs
<1>2. ASSUME NEW e \in Normal, e.op \in Untouched PROVE e \in S
  BY <1>0, <1>1, <1>2, Canonics
<1>3. True \in S /\ False \in S
  <2>1. True.op \in Untouched /\ False.op \in Untouched
    BY DEF True, False, Leaf, Node, Untouched, Truths
  <2> QED BY <1>2, <2>1, NormalNodes
<1>4. ASSUME NEW e \in Trees, e.op \in Data \cup {"bound"} PROVE e \in S
  BY <1>2, <1>4, NormalNodes DEF Untouched
<1>5. ASSUME NEW a \in S PROVE Unary("At", a) \in S
  <2>1. a \in Normal /\ a \in Trees /\ Canonic[a] = a
    BY <1>0, <1>1
  <2>2. Canonic[Unary("At", a)] = Unary("At", Canonic[a])
    BY <2>1, Canonics
  <2>3. Unary("At", a) \in Normal
    BY <2>1, NormalNodes
  <2> QED BY <1>0, <2>1, <2>2, <2>3
<1>6. ASSUME NEW a \in S, a.op \in Atoms PROVE Unary("Not", a) \in S
  <2>1. Canonic[Unary("Not", a)] = Negated[a]
    BY <1>1, Canonics
  <2>2. Negated[a] = Unary("Not", a)
    BY <1>1, <1>6, Negations
  <2> QED BY <1>0, <1>6, <2>1, <2>2, NormalNodes
<1>7. ASSUME NEW op \in Steps, NEW n \in Int, NEW a \in S PROVE Node(op, n, <<a>>) \in S
  <2>1. a \in Normal /\ a \in Trees /\ Canonic[a] = a
    BY <1>0, <1>1
  <2>2. Canonic[Node(op, n, <<a>>)] = Node(op, n, <<Canonic[a]>>)
    BY <2>1, Canonics
  <2>3. Node(op, n, <<a>>) \in Normal
    BY <2>1, NormalNodes
  <2> QED BY <1>0, <2>1, <2>2, <2>3
<1>8. ASSUME NEW op \in Connectives \ {"Imp"}, NEW a \in S, NEW b \in S PROVE Binary(op, a, b) \in S
  <2>1. a \in Normal /\ a \in Trees /\ Canonic[a] = a /\ b \in Normal /\ b \in Trees /\ Canonic[b] = b
    BY <1>0, <1>1
  <2>2. Binary(op, a, b) \in Normal
    BY <2>1, NormalNodes
  <2>3. CASE op \in {"Or", "And", "Xor", "Equ"}
    <3>1. Canonic[Binary(op, a, b)] = Binary(op, Canonic[a], Canonic[b])
      BY <2>1, <2>3, Canonics
    <3> QED BY <1>0, <2>1, <2>2, <3>1
  <2>4. CASE op \in {"Eq", "Ne", "Lt", "Le", "Gt", "Ge"}
    <3>1. Binary(op, a, b).op \in Untouched
      BY <2>4 DEF Binary, Node, Untouched
    <3> QED BY <1>2, <2>2, <3>1
  <2> QED BY <2>3, <2>4 DEF Connectives
<1>9. ASSUME NEW op \in AllOps, NEW t \in Windows, NEW a \in S, NEW b \in S PROVE Node(op, t, <<a, b>>) \in S
  <2>1. a \in Normal /\ a \in Trees /\ Canonic[a] = a /\ b \in Normal /\ b \in Trees /\ Canonic[b] = b
    BY <1>0, <1>1
  <2>2. Canonic[Node(op, t, <<a, b>>)] = Node(op, t, <<Canonic[a], Canonic[b]>>)
    BY <2>1, Canonics
  <2>3. Node(op, t, <<a, b>>) \in Normal
    BY <2>1, NormalNodes
  <2> QED BY <1>0, <2>1, <2>2, <2>3
<1>10. ASSUME NEW a \in S, NEW b \in S, NEW c \in S PROVE Node("Choice", None, <<a, b, c>>) \in S
  <2>1. Node("Choice", None, <<a, b, c>>) \in Normal
    BY <1>0, NormalNodes
  <2>2. Node("Choice", None, <<a, b, c>>).op \in Untouched
    BY DEF Node, Untouched
  <2> QED BY <1>2, <2>1, <2>2
<1>11. S = Normal
  BY <1>1, <1>3, <1>4, <1>5, <1>6, <1>7, <1>8, <1>9, <1>10, OnNormalKinds
<1> QED BY <1>0, <1>11

----------------------------------------------------------------------------
(* What RewriteImpl makes of a formula, given what it made of its operands.*)
(* Those are normal forms already, so that another pass over what was in   *)
(* parentheses, and CanonicImpl over a negation, have nothing to do.       *)
RewriteOf(e, v) ==
  CASE e.op = "Not"   -> Negated[v[1]]
    [] e.op = "Paren" -> v[1]
    [] OTHER -> Canonic[Node(e.op, e.par, v)]

LEMMA RewriteType ==
  ASSUME AllTrees, NEW e \in Trees, NEW v \in Seq(Normal), DOMAIN v = DOMAIN e.args
  PROVE  /\ RewriteOf(e, v) \in Normal
         /\ e.op \notin {"Not", "Paren"} => Node(e.op, e.par, v) \in Trees
<1> DEFINE a == e.args[1]
           b == e.args[2]
           c == e.args[3]
           n == Node(e.op, e.par, v)
<1>1. \A f \in Normal : f \in Trees /\ Negated[f] \in Normal /\ Canonic[f] = f
  BY NormalIs, NegatedNormal, CanonicNormal
<1>2. e.op \notin {"Not", "Paren"} => RewriteOf(e, v) = Canonic[n]
  BY DEF RewriteOf
<1>3. ASSUME n \in Normal, e.op \notin {"Not", "Paren"} PROVE RewriteOf(e, v) \in Normal /\ n \in Trees
  BY <1>1, <1>2, <1>3
<1>4. "Not" \notin Data /\ "Paren" \notin Data
  BY DEF AllTrees, Names, Wrapping
<1>5. CASE e.op \in Truths /\ e = Leaf(e.op)
  <2>1. e.args = <<>> /\ e.par = None /\ (e.op = "true" \/ e.op = "false")
    BY <1>5 DEF Leaf, Node, Truths
  <2>2. n = True \/ n = False
    BY <2>1, Values DEF True, False, Leaf
  <2> QED BY <1>3, <2>1, <2>2, NormalNodes
<1>6. CASE e.op \in Data \cup {"bound"} /\ (e = Leaf(e.op) \/ e = Bound(e.par))
  <2>1. e.args = <<>> /\ e = Node(e.op, e.par, e.args)
    BY <1>6 DEF Leaf, Bound, Node
  <2>2. n = e
    BY <2>1, Values
  <2>3. e.op \notin {"Not", "Paren"}
    BY <1>4, <1>6
  <2> QED BY <1>3, <1>6, <2>2, <2>3, NormalNodes
<1>7. CASE e.op \in Wrapping /\ a \in Trees /\ e = Unary(e.op, a)
  <2>1. e.args = <<a>> /\ e.par = None
    BY <1>7 DEF Unary, Node
  <2>2. v[1] \in Normal /\ v = <<v[1]>>
    BY <2>1, Values
  <2>3. CASE e.op = "At"
    <3>1. n = Unary("At", v[1])
      BY <2>1, <2>2, <2>3 DEF Unary
    <3> QED BY <1>3, <2>2, <2>3, <3>1, NormalNodes
  <2>4. CASE e.op = "Not"
    BY <1>1, <2>2, <2>4 DEF RewriteOf
  <2>5. CASE e.op = "Paren"
    BY <2>2, <2>5 DEF RewriteOf
  <2> QED BY <1>7, <2>3, <2>4, <2>5 DEF Wrapping
<1>8. CASE e.op \in Steps /\ e.par \in Int /\ e = Node(e.op, e.par, <<a>>)
  <2>1. e.args = <<a>> /\ e.op \notin {"Not", "Paren"}
    BY <1>8 DEF Node, Steps
  <2>2. v[1] \in Normal /\ v = <<v[1]>>
    BY <2>1, Values
  <2>3. Node(e.op, e.par, <<v[1]>>) \in Normal
    BY <1>8, <2>2, NormalNodes
  <2> QED BY <1>3, <2>1, <2>2, <2>3
<1>9. CASE e.op \in Quantifiers /\ e.par \in Windows /\ e = Node(e.op, e.par, <<a>>)
  <2>1. e.args = <<a>> /\ e.op \notin {"Not", "Paren"}
    BY <1>9 DEF Node, Quantifiers
  <2>2. v[1] \in Normal /\ v = <<v[1]>>
    BY <2>1, Values
  <2>3. v[1] \in Trees /\ Canonic[v[1]] = v[1]
    BY <1>1, <2>2
  <2> DEFINE m(op) == Node(op, e.par, <<v[1]>>)
  <2>4. \A op \in Quantifiers : m(op) \in Trees
    BY <1>9, <2>3, Nodes
  <2>5. \A op \in AllOps : Node(op, e.par, <<False, v[1]>>) \in Normal /\ Node(op, e.par, <<True, v[1]>>) \in Normal
    BY <1>9, <2>2, NormalNodes
  <2>6. {"Us", "Rw", "Ss", "Tw"} \subseteq AllOps
    BY DEF AllOps, FutureOps, PastOps
  <2>7. /\ Canonic[m("G")] = Node("Rw", e.par, <<False, v[1]>>)
        /\ Canonic[m("F")] = Node("Us", e.par, <<True, v[1]>>)
        /\ Canonic[m("H")] = Node("Tw", e.par, <<False, v[1]>>)
        /\ Canonic[m("O")] = Node("Ss", e.par, <<True, v[1]>>)
    BY <1>9, <2>3, Canonics
  <2> HIDE DEF m
  <2>8. Canonic[m(e.op)] \in Normal /\ m(e.op) \in Trees
    BY <1>9, <2>4, <2>5, <2>6, <2>7 DEF Quantifiers
  <2>9. n = m(e.op)
    BY <2>2 DEF m
  <2> QED BY <1>2, <2>1, <2>8, <2>9
<1>10. CASE e.op \in Connectives /\ e = Binary(e.op, a, b)
  <2>1. e.args = <<a, b>> /\ e.par = None /\ e.op \notin {"Not", "Paren"}
    BY <1>10 DEF Binary, Node, Connectives
  <2>2. v[1] \in Normal /\ v[2] \in Normal /\ v = <<v[1], v[2]>>
    BY <2>1, Values
  <2>3. n = Binary(e.op, v[1], v[2])
    BY <2>1, <2>2 DEF Binary
  <2>4. CASE e.op = "Imp"
    <3>1. Negated[v[1]] \in Normal /\ Canonic[v[2]] = v[2] /\ v[1] \in Trees /\ v[2] \in Trees
      BY <1>1, <2>2
    <3>2. Canonic[Negated[v[1]]] = Negated[v[1]]
      BY <1>1, <3>1
    <3>3. Canonic[Binary("Imp", v[1], v[2])] = Binary("Or", Negated[v[1]], v[2])
      BY <3>1, <3>2, Canonics
    <3>4. "Or" \in Connectives \ {"Imp"}
      BY DEF Connectives
    <3>5. Binary("Or", Negated[v[1]], v[2]) \in Normal
      BY <2>2, <3>1, <3>4, NormalNodes
    <3>6. Binary(e.op, v[1], v[2]) \in Trees
      BY <1>10, <3>1, Nodes
    <3> QED BY <1>2, <2>1, <2>3, <2>4, <3>3, <3>5, <3>6
  <2>5. CASE e.op \in Connectives \ {"Imp"}
    <3>1. Binary(e.op, v[1], v[2]) \in Normal
      BY <2>2, <2>5, NormalNodes
    <3> QED BY <1>3, <2>1, <2>3, <3>1
  <2> QED BY <1>10, <2>4, <2>5
<1>11. CASE e.op \in AllOps /\ e.par \in Windows /\ e = Node(e.op, e.par, <<a, b>>)
  <2>1. e.args = <<a, b>> /\ e.op \notin {"Not", "Paren"}
    BY <1>11 DEF Node, AllOps, FutureOps, PastOps
  <2>2. v[1] \in Normal /\ v[2] \in Normal /\ v = <<v[1], v[2]>>
    BY <2>1, Values
  <2>3. Node(e.op, e.par, <<v[1], v[2]>>) \in Normal
    BY <1>11, <2>2, NormalNodes
  <2> QED BY <1>3, <2>1, <2>2, <2>3
<1>12. CASE e.op = "Choice" /\ e = Node("Choice", None, <<a, b, c>>)
  <2>1. e.args = <<a, b, c>> /\ e.par = None
    BY <1>12 DEF Node
  <2>2. v[1] \in Normal /\ v[2] \in Normal /\ v[3] \in Normal /\ v = <<v[1], v[2], v[3]>>
    BY <2>1, Values
  <2>3. Node("Choice", None, <<v[1], v[2], v[3]>>) \in Normal
    BY <2>2, NormalNodes
  <2> QED BY <1>3, <1>12, <2>1, <2>2, <2>3
<1> QED BY <1>5, <1>6, <1>7, <1>8, <1>9, <1>10, <1>11, <1>12, TreeKinds

LEMMA FixesNormal ==
  ASSUME AllTrees, NEW g,
         \A e \in Normal : e.op = "Not" => g[e] = Canonic[Negated[g[e.args[1]]]],
         \A e \in Normal : e.op \notin {"Not", "Paren"} => g[e] = Canonic[Node(e.op, e.par, Over(g, e))]
  PROVE  \A e \in Normal : g[e] = e
<1> DEFINE S == {e \in Normal : g[e] = e}
<1>0. \A e : e \in S <=> e \in Normal /\ g[e] = e
  OBVIOUS
<1> HIDE DEF S
<1>1. S \subseteq Normal /\ Normal \subseteq Trees
  BY <1>0, NormalIs
<1>2. ASSUME NEW e \in Forms(S) PROVE e \in S
  <2>1. /\ e \in Trees /\ e.op \notin Replaced /\ (e.op = "Not" => e.args[1].op \in Atoms)
        /\ \A k \in DOMAIN e.args : e.args[k] \in S
    BY DEF Forms
  <2>2. e \in Normal
    <3>1. e \in Forms(Normal)
      BY <1>1, <2>1 DEF Forms
    <3> QED BY <3>1, NormalIs
  <2>3. Canonic[e] = e
    BY <2>2, CanonicNormal
  <2>4. CASE e.op = "Not"
    <3>1. e = Unary("Not", e.args[1]) /\ e.args[1] \in Trees
      BY <2>1, <2>4, ByOperator DEF Wrapping
    <3>2. e.args = <<e.args[1]>>
      BY <3>1 DEF Unary, Node
    <3>3. e.args[1] \in S
      BY <2>1, <3>2
    <3>4. g[e.args[1]] = e.args[1]
      BY <1>0, <3>3
    <3>5. Negated[e.args[1]] = e
      BY <2>1, <2>4, <3>1, Negations
    <3>6. g[e] = e
      BY <2>2, <2>3, <2>4, <3>4, <3>5
    <3> QED BY <1>0, <2>2, <3>6
  <2>5. CASE e.op # "Not"
    <3>1. \A k \in DOMAIN e.args : g[e.args[k]] = e.args[k]
      BY <1>0, <2>1
    <3>2. Over(g, e) = [k \in DOMAIN e.args |-> e.args[k]]
      BY <3>1, Zenon DEF Over
    <3>3. Node(e.op, e.par, Over(g, e)) = e
      BY <2>1, <3>2, Rebuilt
    <3>4. e.op # "Paren"
      BY <2>1 DEF Replaced
    <3>5. g[e] = e
      BY <2>2, <2>3, <2>5, <3>3, <3>4
    <3> QED BY <1>0, <2>2, <3>5
  <2> QED BY <2>4, <2>5
<1>3. S = Normal
  BY <1>1, <1>2, OnNormal
<1> QED BY <1>0, <1>3

(* The definition of rewritten has a solution, although it goes on below   *)
(* what it made of an operand, and has no other.                           *)
LEMMA RewrittenIs ==
  ASSUME AllTrees
  PROVE  /\ rewritten \in [Trees -> Normal]
         /\ \A e \in Trees : rewritten[e] = RewriteOf(e, Over(rewritten, e))
         /\ \A e \in Normal : rewritten[e] = e
<1> DEFINE calc == [p \in Trees \X Seq(Normal) |-> RewriteOf(p[1], p[2])]
           Body0(g, e) ==
             LET arg == g[e.args[1]]
             IN  Canonic[
                   CASE e.op = "Not" -> Negated[arg]
                     [] e.op = "Paren" -> IF arg.op \in Closed THEN g[arg] ELSE Unary("Paren", arg)
                     [] OTHER -> Node(e.op, e.par, [k \in DOMAIN e.args |-> g[e.args[k]]])]
           D(g) == g = [e \in Trees |-> Body0(g, e)]
           t == CHOOSE g : D(g)
<1>1. \A e \in Trees : \A v \in Seq(Normal) : calc[<<e, v>>] = RewriteOf(e, v)
  OBVIOUS
<1> HIDE DEF calc
<1>2. Yields(Trees, Normal, Args, calc)
  BY <1>1, RewriteType DEF Yields, Args
<1>3. PICK f : Solves(f, Trees, Normal, Args, calc)
  BY <1>2, NormalNodes, FromOperands
<1>4. f \in [Trees -> Normal] /\ \A e \in Trees : f[e] = RewriteOf(e, Over(f, e))
  <2>1. f \in [Trees -> Normal] /\ \A e \in Trees : f[e] = calc[<<e, Over(f, e)>>]
    BY <1>3, SolvesOver
  <2>2. \A e \in Trees : Over(f, e) \in Seq(Normal)
    BY <2>1, OverType
  <2> QED BY <1>1, <2>1, <2>2
<1>5. ASSUME NEW e \in Trees, NEW g
      PROVE  /\ e.op = "Not" => Body0(g, e) = Canonic[Negated[g[e.args[1]]]]
             /\ e.op = "Paren" => Body0(g, e) = Canonic[IF g[e.args[1]].op \in Closed
                                                          THEN g[g[e.args[1]]]
                                                          ELSE Unary("Paren", g[e.args[1]])]
             /\ e.op \notin {"Not", "Paren"} => Body0(g, e) = Canonic[Node(e.op, e.par, Over(g, e))]
  BY DEF Over
<1> HIDE DEF Body0
<1>6. ASSUME NEW e \in Trees, e.op \in {"Not", "Paren"}
      PROVE  e.args[1] \in Trees /\ 1 \in DOMAIN e.args /\ \A g : Over(g, e)[1] = g[e.args[1]]
  <2>1. e = Unary(e.op, e.args[1]) /\ e.args[1] \in Trees
    BY <1>6, ByOperator DEF Wrapping
  <2>2. e.args = <<e.args[1]>>
    BY <2>1 DEF Unary, Node
  <2> QED BY <2>1, <2>2 DEF Over
<1>7. \A n \in Normal : n \in Trees /\ Negated[n] \in Normal /\ Canonic[n] = n
  BY NormalIs, NegatedNormal, CanonicNormal
<1>8. \A e \in Normal : f[e] = e
  <2>1. ASSUME NEW e \in Normal, e.op = "Not" PROVE f[e] = Canonic[Negated[f[e.args[1]]]]
    <3>1. e \in Trees /\ e.args[1] \in Trees /\ Over(f, e)[1] = f[e.args[1]]
      BY <1>6, <1>7, <2>1
    <3>2. f[e] = Negated[f[e.args[1]]]
      BY <1>4, <2>1, <3>1 DEF RewriteOf
    <3>3. Negated[f[e.args[1]]] \in Normal
      BY <1>4, <1>7, <3>1
    <3> QED BY <1>7, <3>2, <3>3
  <2>2. ASSUME NEW e \in Normal, e.op \notin {"Not", "Paren"}
        PROVE  f[e] = Canonic[Node(e.op, e.par, Over(f, e))]
    BY <1>4, <1>7, <2>2 DEF RewriteOf
  <2> QED BY <2>1, <2>2, FixesNormal
<1>9. ASSUME NEW e \in Trees PROVE f[e] = Body0(f, e)
  <2>1. CASE e.op = "Not"
    <3>1. e.args[1] \in Trees /\ Over(f, e)[1] = f[e.args[1]]
      BY <1>6, <2>1
    <3>2. f[e] = Negated[f[e.args[1]]]
      BY <1>4, <2>1, <3>1 DEF RewriteOf
    <3>3. Canonic[Negated[f[e.args[1]]]] = Negated[f[e.args[1]]]
      BY <1>4, <1>7, <3>1
    <3> QED BY <1>5, <2>1, <3>2, <3>3
  <2>2. CASE e.op = "Paren"
    <3> DEFINE arg == f[e.args[1]]
    <3>1. e.args[1] \in Trees /\ Over(f, e)[1] = arg
      BY <1>6, <2>2
    <3>2. arg \in Normal
      BY <1>4, <3>1
    <3>3. f[e] = arg
      BY <1>4, <2>2, <3>1 DEF RewriteOf
    <3>4. f[arg] = arg /\ Canonic[arg] = arg /\ Canonic[Unary("Paren", arg)] = Canonic[arg]
      BY <1>7, <1>8, <3>2, Canonics
    <3>5. Body0(f, e) = Canonic[IF arg.op \in Closed THEN f[arg] ELSE Unary("Paren", arg)]
      BY <1>5, <2>2
    <3> HIDE DEF arg
    <3> QED BY <3>3, <3>4, <3>5
  <2>3. CASE e.op \notin {"Not", "Paren"}
    BY <1>4, <1>5, <2>3 DEF RewriteOf
  <2> QED BY <2>1, <2>2, <2>3
<1>10. D(f)
  <2>1. f = [e \in Trees |-> f[e]]
    BY <1>4
  <2> QED BY <1>9, <2>1, Zenon
<1>11. rewritten = t
  BY DEF rewritten, Body0
<1>12. D(t)
  BY <1>10, Zenon
<1> HIDE DEF t
<1>13. t = [e \in Trees |-> t[e]] /\ \A e \in Trees : t[e] = Body0(t, e)
  BY <1>12, Zenon
<1>14. \A e \in Normal : t[e] = e
  <2>1. ASSUME NEW e \in Normal, e.op = "Not" PROVE t[e] = Canonic[Negated[t[e.args[1]]]]
    BY <1>5, <1>7, <1>13, <2>1
  <2>2. ASSUME NEW e \in Normal, e.op \notin {"Not", "Paren"}
        PROVE  t[e] = Canonic[Node(e.op, e.par, Over(t, e))]
    BY <1>5, <1>7, <1>13, <2>2
  <2> QED BY <2>1, <2>2, FixesNormal
<1>15. \A e \in Trees : f[e] = t[e]
  <2>1. ASSUME NEW e \in Trees, \A k \in DOMAIN e.args : f[e.args[k]] = t[e.args[k]]
        PROVE  f[e] = t[e]
    <3>1. CASE e.op = "Not"
      <4>1. f[e.args[1]] = t[e.args[1]]
        BY <1>6, <2>1, <3>1
      <4> QED BY <1>5, <1>9, <1>13, <3>1, <4>1
    <3>2. CASE e.op = "Paren"
      <4> DEFINE arg == f[e.args[1]]
      <4>1. t[e.args[1]] = arg /\ arg \in Normal
        BY <1>4, <1>6, <2>1, <3>2
      <4>2. f[arg] = t[arg]
        BY <1>8, <1>14, <4>1
      <4>3. /\ Body0(f, e) = Canonic[IF arg.op \in Closed THEN f[arg] ELSE Unary("Paren", arg)]
            /\ Body0(t, e) = Canonic[IF arg.op \in Closed THEN t[arg] ELSE Unary("Paren", arg)]
        BY <1>5, <3>2, <4>1
      <4> HIDE DEF arg
      <4> QED BY <1>9, <1>13, <4>2, <4>3
    <3>3. CASE e.op \notin {"Not", "Paren"}
      <4>1. Over(f, e) = Over(t, e)
        BY <2>1, OverSame
      <4> QED BY <1>5, <1>9, <1>13, <3>3, <4>1
    <3> QED BY <3>1, <3>2, <3>3
  <2> QED BY <2>1, Same
<1>16. t = f
  BY <1>4, <1>13, <1>15, Zenon
<1> QED BY <1>4, <1>8, <1>11, <1>16

(* The formula that is compiled holds at the rows where the one that was   *)
(* written does.                                                           *)
THEOREM RewrittenKeepsMeaning ==
  ASSUME AllTrees, NEW s, Segment(s)
  PROVE  \A e \in Trees : \A x \in Row : Sat(Rewritten(e), s, x) = Sat(e, s, x)
<1> DEFINE S == {e \in Trees : Alike(rewritten[e], e, s)}
<1>0. \A e : e \in S <=> e \in Trees /\ Alike(rewritten[e], e, s)
  OBVIOUS
<1> HIDE DEF S
<1>1. \A e \in Trees : rewritten[e] \in Trees /\ rewritten[e] = RewriteOf(e, Over(rewritten, e))
  BY RewrittenIs, NormalIs
<1>2. ASSUME NEW e \in Trees, \A k \in DOMAIN e.args : e.args[k] \in S PROVE e \in S
  <2> DEFINE a == e.args[1]
             v == Over(rewritten, e)
  <2>1. ASSUME e.op \in {"Not", "Paren"}
        PROVE  a \in Trees /\ a \in S /\ v[1] = rewritten[a] /\ e = Unary(e.op, a)
    <3>1. e = Unary(e.op, a) /\ a \in Trees
      BY <2>1, ByOperator DEF Wrapping
    <3>2. e.args = <<a>>
      BY <3>1 DEF Unary, Node
    <3> QED BY <1>2, <3>1, <3>2 DEF Over
  <2>2. CASE e.op = "Not"
    <3>1. a \in Trees /\ a \in S /\ e = Unary("Not", a) /\ rewritten[e] = Negated[rewritten[a]]
      BY <1>1, <2>1, <2>2 DEF RewriteOf
    <3>2. rewritten[a] \in Trees /\ Alike(rewritten[a], a, s)
      BY <1>0, <1>1, <3>1
    <3> HIDE DEF a
    <3>3. ASSUME NEW x \in Row PROVE Sat(Negated[rewritten[a]], s, x) = Sat(Unary("Not", a), s, x)
      <4>1. Sat(Negated[rewritten[a]], s, x) = DataRow \ Sat(rewritten[a], s, x)
        BY <3>2, NegatedIsNot
      <4>2. Sat(Unary("Not", a), s, x) = DataRow \ Sat(a, s, x)
        BY <3>1, SatWrapping
      <4> QED BY <3>2, <4>1, <4>2 DEF Alike
    <3> QED BY <1>0, <3>1, <3>3 DEF Alike
  <2>3. CASE e.op = "Paren"
    <3>1. a \in Trees /\ a \in S /\ e = Unary("Paren", a) /\ rewritten[e] = rewritten[a]
      BY <1>1, <2>1, <2>3 DEF RewriteOf
    <3> HIDE DEF a
    <3>2. \A x \in Row : Sat(Unary("Paren", a), s, x) = Sat(a, s, x)
      BY <3>1, SatWrapping
    <3> QED BY <1>0, <3>1, <3>2 DEF Alike
  <2>4. CASE e.op \notin {"Not", "Paren"}
    <3> DEFINE n == Node(e.op, e.par, v)
    <3>1. v \in Seq(Normal) /\ DOMAIN v = DOMAIN e.args
      BY RewrittenIs, OverType
    <3>2. n \in Trees
      BY <2>4, <3>1, RewriteType
    <3>3. rewritten[e] = Canonic[n]
      BY <1>1, <2>4 DEF RewriteOf
    <3>4. \A k \in DOMAIN e.args : Alike(v[k], e.args[k], s)
      BY <1>0, <1>2 DEF Over
    <3> HIDE DEF v
    <3>5. n.op = e.op /\ n.par = e.par /\ n.args = v
      BY DEF Node
    <3> HIDE DEF n
    <3>6. Alike(n, e, s)
      BY <3>1, <3>2, <3>4, <3>5, Congruent
    <3>7. Alike(Canonic[n], n, s)
      BY <3>2, CanonicKeepsMeaning DEF Alike
    <3> QED BY <1>0, <3>3, <3>6, <3>7 DEF Alike
  <2> QED BY <2>2, <2>3, <2>4
<1>3. S \subseteq Trees
  BY <1>0
<1>4. S = Trees
  BY <1>2, <1>3, OnOperands
<1> QED BY <1>0, <1>4 DEF Alike, Rewritten

----------------------------------------------------------------------------
(* The operators of a formula. *)
LEMMA OperatorsIs ==
  ASSUME AllTrees
  PROVE  \A e \in Trees : Operators[e] = {e.op} \cup UNION {Operators[e.args[k]] : k \in DOMAIN e.args}
<1> DEFINE calc == [p \in Trees \X Seq(SUBSET (Names \cup Data)) |->
                      {p[1].op} \cup UNION {p[2][k] : k \in DOMAIN p[2]}]
           Body0(g, e) == {e.op} \cup UNION {g[e.args[k]] : k \in DOMAIN e.args}
           D(g) == g = [e \in Trees |-> Body0(g, e)]
           t == CHOOSE g : D(g)
           V == SUBSET (Names \cup Data)
<1>1. \A e \in Trees : \A v \in Seq(V) : calc[<<e, v>>] = {e.op} \cup UNION {v[k] : k \in DOMAIN v}
  OBVIOUS
<1> HIDE DEF calc
<1>2. Yields(Trees, V, Args, calc)
  <2> SUFFICES ASSUME NEW e \in Trees, NEW v \in Seq(V) PROVE calc[<<e, v>>] \in V
    BY DEF Yields
  <2>1. e.op \in Names \cup Data
    BY ByOperator
  <2>2. \A k \in DOMAIN v : v[k] \subseteq Names \cup Data
    OBVIOUS
  <2>3. {e.op} \cup UNION {v[k] : k \in DOMAIN v} \subseteq Names \cup Data
    BY <2>1, <2>2
  <2> QED BY <1>1, <2>3
<1>3. PICK f : Solves(f, Trees, V, Args, calc)
  <2>1. {} \in V
    OBVIOUS
  <2> QED BY <1>2, <2>1, FromOperands
<1> HIDE DEF V
<1>4. f = [e \in Trees |-> f[e]] /\ \A e \in Trees : f[e] = Body0(f, e)
  <2>1. f \in [Trees -> V] /\ \A e \in Trees : f[e] = calc[<<e, Over(f, e)>>]
    BY <1>3, SolvesOver
  <2>2. \A e \in Trees : Over(f, e) \in Seq(V)
    BY <2>1, OverType
  <2>3. \A e \in Trees : {Over(f, e)[k] : k \in DOMAIN Over(f, e)} = {f[e.args[k]] : k \in DOMAIN e.args}
    BY DEF Over
  <2> QED BY <1>1, <2>1, <2>2, <2>3, ZenonT(60)
<1> HIDE DEF Body0
<1>5. D(f)
  BY <1>4, Zenon
<1>6. Operators = t
  BY DEF Operators, Body0
<1>7. D(t)
  BY <1>5, Zenon
<1> HIDE DEF t
<1>8. \A e \in Trees : t[e] = Body0(t, e)
  BY <1>7, Zenon
<1> QED BY <1>6, <1>8 DEF Body0

(* The code generator has a visitor for every operator of a normal form.   *)
LEMMA NormalCompiles ==
  ASSUME AllTrees
  PROVE  \A e \in Normal : Compiles(e)
<1> DEFINE S == {e \in Normal : Compiles(e)}
<1>0. \A e : e \in S <=> e \in Normal /\ Compiles(e)
  OBVIOUS
<1> HIDE DEF S
<1>1. S \subseteq Normal
  BY <1>0
<1>2. ASSUME NEW op \in (Names \cup Data) \ Replaced PROVE op \in Compiled
  BY DEF Names, Replaced, Compiled, Truths, Wrapping, Steps, Quantifiers, Connectives, AllOps
<1>3. ASSUME NEW e \in Forms(S) PROVE e \in S
  <2>1. e \in Trees /\ e.op \notin Replaced /\ \A k \in DOMAIN e.args : e.args[k] \in S
    BY DEF Forms
  <2>2. e \in Normal
    <3>1. e \in Forms(Normal)
      BY <1>1 DEF Forms
    <3> QED BY <3>1, NormalIs
  <2>3. e.op \in Compiled
    BY <1>2, <2>1, ByOperator
  <2>4. \A k \in DOMAIN e.args : Operators[e.args[k]] \subseteq Compiled
    BY <1>0, <2>1 DEF Compiles
  <2>5. Operators[e] \subseteq Compiled
    BY <2>1, <2>3, <2>4, OperatorsIs
  <2> QED BY <1>0, <2>2, <2>5 DEF Compiles
<1>4. S = Normal
  BY <1>1, <1>3, OnNormal
<1> QED BY <1>0, <1>4

----------------------------------------------------------------------------
(* What a pattern stands for is built from rewritten expressions, and      *)
(* CanonicImpl alone makes a normal form of it: that needs the negations   *)
(* of its parts too, for an implication.                                   *)
Ready == {e \in Trees : Canonic[e] \in Normal /\ Canonic[Negated[e]] \in Normal}

LEMMA ReadyNormal ==
  ASSUME AllTrees, NEW e \in Normal
  PROVE  e \in Ready /\ Not(e) \in Ready
<1>1. e \in Trees /\ Negated[e] \in Normal /\ Canonic[e] = e
  BY NormalIs, NegatedNormal, CanonicNormal
<1>2. Canonic[Negated[e]] = Negated[e]
  BY <1>1, CanonicNormal
<1>3. Unary("Not", e) \in Trees /\ Unary("Paren", Unary("Not", e)) \in Trees
  BY <1>1, Nodes DEF Wrapping
<1>4. Canonic[Not(e)] = Negated[e]
  BY <1>1, <1>3, Canonics DEF Not
<1>5. Negated[Not(e)] = e
  BY <1>1, <1>3, Negations DEF Not
<1>6. Not(e) \in Trees
  BY <1>3 DEF Not
<1> QED BY <1>1, <1>2, <1>4, <1>5, <1>6 DEF Ready

LEMMA ReadyTypes ==
  ASSUME AllTrees, NEW e \in Ready
  PROVE  /\ e \in Trees /\ Negated[e] \in Trees
         /\ Canonic[e] \in Normal /\ Canonic[Negated[e]] \in Normal
BY NegatedIs DEF Ready

LEMMA ReadyConnectives ==
  ASSUME AllTrees, NEW e \in Ready, NEW f \in Ready
  PROVE  And(e, f) \in Ready /\ Or(e, f) \in Ready /\ Imp(e, f) \in Ready
<1>1. /\ e \in Trees /\ Negated[e] \in Trees /\ Canonic[e] \in Normal /\ Canonic[Negated[e]] \in Normal
      /\ f \in Trees /\ Negated[f] \in Trees /\ Canonic[f] \in Normal /\ Canonic[Negated[f]] \in Normal
  BY ReadyTypes
<1>2. {"And", "Or"} \subseteq Connectives \ {"Imp"} /\ "Imp" \in Connectives
  BY DEF Connectives
<1>3. ASSUME NEW op \in Connectives PROVE Binary(op, e, f) \in Trees /\ Unary("Paren", Binary(op, e, f)) \in Trees
  <2>1. Binary(op, e, f) \in Trees
    BY <1>1, Nodes
  <2> QED BY <2>1, Nodes DEF Wrapping
<1>4. ASSUME NEW op \in Connectives
      PROVE  /\ Canonic[Unary("Paren", Binary(op, e, f))] = Canonic[Binary(op, e, f)]
             /\ Negated[Unary("Paren", Binary(op, e, f))] = Negated[Binary(op, e, f)]
  BY <1>3, Canonics, Negations
<1>5. ASSUME NEW op \in {"And", "Or"}, NEW a \in Trees, NEW b \in Trees,
             Canonic[a] \in Normal, Canonic[b] \in Normal
      PROVE  Canonic[Binary(op, a, b)] \in Normal
  <2>1. Canonic[Binary(op, a, b)] = Binary(op, Canonic[a], Canonic[b])
    BY Canonics
  <2> QED BY <1>2, <1>5, <2>1, NormalNodes
<1>6. Or(e, f) \in Ready
  <2>1. Negated[Binary("Or", e, f)] = Binary("And", Negated[e], Negated[f])
    BY <1>1, Negations, Domains
  <2>2. Canonic[Binary("Or", e, f)] \in Normal /\ Canonic[Negated[Binary("Or", e, f)]] \in Normal
    BY <1>1, <1>5, <2>1
  <2> QED BY <1>2, <1>3, <1>4, <2>2 DEF Or, Ready
<1>7. And(e, f) \in Ready
  <2>1. Negated[Binary("And", e, f)] = Binary("Or", Negated[e], Negated[f])
    BY <1>1, Negations, Domains
  <2>2. Canonic[Binary("And", e, f)] \in Normal /\ Canonic[Negated[Binary("And", e, f)]] \in Normal
    BY <1>1, <1>5, <2>1
  <2> QED BY <1>2, <1>3, <1>4, <2>2 DEF And, Ready
<1>8. Imp(e, f) \in Ready
  <2>1. Negated[Binary("Imp", e, f)] = Binary("And", e, Negated[f])
    BY <1>1, Negations
  <2>2. Canonic[Negated[Binary("Imp", e, f)]] \in Normal
    BY <1>1, <1>5, <2>1
  <2>3. Canonic[Binary("Imp", e, f)] = Binary("Or", Canonic[Negated[e]], Canonic[f])
    BY <1>1, Canonics
  <2>4. Canonic[Binary("Imp", e, f)] \in Normal
    BY <1>1, <1>2, <2>3, NormalNodes
  <2> QED BY <1>2, <1>3, <1>4, <2>2, <2>4 DEF Imp, Ready
<1> QED BY <1>6, <1>7, <1>8

LEMMA ReadyTemporal ==
  ASSUME AllTrees, NEW t \in Windows, NEW e \in Ready, NEW f \in Ready
  PROVE  /\ G(t, e) \in Ready /\ F(t, e) \in Ready /\ Once(t, e) \in Ready
         /\ Us(t, e, f) \in Ready /\ Uw(t, e, f) \in Ready /\ Xs(e) \in Ready
<1>1. /\ e \in Trees /\ Negated[e] \in Trees /\ Canonic[e] \in Normal /\ Canonic[Negated[e]] \in Normal
      /\ f \in Trees /\ Negated[f] \in Trees /\ Canonic[f] \in Normal /\ Canonic[Negated[f]] \in Normal
  BY ReadyTypes
<1>2. ASSUME NEW op \in Quantifiers PROVE Node(op, t, <<e>>) \in Ready
  <2>1. Node(op, t, <<e>>) \in Trees
    BY <1>1, Nodes
  <2>2. Negated[Node(op, t, <<e>>)] = Node(Dual[op], t, <<Negated[e]>>) /\ Dual[op] \in Quantifiers
    BY <1>1, Negations, Domains
  <2>3. ASSUME NEW o \in Quantifiers, NEW a \in Trees, Canonic[a] \in Normal
        PROVE  Canonic[Node(o, t, <<a>>)] \in Normal
    <3>1. {"Us", "Rw", "Ss", "Tw"} \subseteq AllOps
      BY DEF AllOps, FutureOps, PastOps
    <3>2. \A u \in AllOps : Node(u, t, <<False, Canonic[a]>>) \in Normal /\ Node(u, t, <<True, Canonic[a]>>) \in Normal
      BY <2>3, NormalNodes
    <3>3. /\ Canonic[Node("G", t, <<a>>)] = Node("Rw", t, <<False, Canonic[a]>>)
          /\ Canonic[Node("F", t, <<a>>)] = Node("Us", t, <<True, Canonic[a]>>)
          /\ Canonic[Node("H", t, <<a>>)] = Node("Tw", t, <<False, Canonic[a]>>)
          /\ Canonic[Node("O", t, <<a>>)] = Node("Ss", t, <<True, Canonic[a]>>)
      BY Canonics
    <3> QED BY <3>1, <3>2, <3>3 DEF Quantifiers
  <2>4. Canonic[Node(op, t, <<e>>)] \in Normal /\ Canonic[Node(Dual[op], t, <<Negated[e]>>)] \in Normal
    BY <1>1, <2>2, <2>3
  <2> DEFINE n == Node(op, t, <<e>>)
  <2>5. n \in Trees /\ Canonic[n] \in Normal /\ Canonic[Negated[n]] \in Normal
    BY <2>1, <2>2, <2>4
  <2> HIDE DEF n
  <2>6. n \in Ready
    BY <2>5 DEF Ready
  <2> QED BY <2>6 DEF n
<1>3. ASSUME NEW op \in AllOps PROVE Node(op, t, <<e, f>>) \in Ready
  <2>1. Node(op, t, <<e, f>>) \in Trees
    BY <1>1, Nodes
  <2>2. Negated[Node(op, t, <<e, f>>)] = Node(Dual[op], t, <<Negated[e], Negated[f]>>) /\ Dual[op] \in AllOps
    BY <1>1, Negations, Domains
  <2>3. ASSUME NEW o \in AllOps, NEW a \in Trees, NEW b \in Trees, Canonic[a] \in Normal, Canonic[b] \in Normal
        PROVE  Canonic[Node(o, t, <<a, b>>)] \in Normal
    <3>1. Canonic[Node(o, t, <<a, b>>)] = Node(o, t, <<Canonic[a], Canonic[b]>>)
      BY Canonics
    <3>2. Node(o, t, <<Canonic[a], Canonic[b]>>) \in Normal
      BY <2>3, NormalNodes
    <3> QED BY <3>1, <3>2
  <2>4. Canonic[Node(op, t, <<e, f>>)] \in Normal /\ Canonic[Node(Dual[op], t, <<Negated[e], Negated[f]>>)] \in Normal
    BY <1>1, <2>2, <2>3
  <2> DEFINE n == Node(op, t, <<e, f>>)
  <2>5. n \in Trees /\ Canonic[n] \in Normal /\ Canonic[Negated[n]] \in Normal
    BY <2>1, <2>2, <2>4
  <2> HIDE DEF n
  <2>6. n \in Ready
    BY <2>5 DEF Ready
  <2> QED BY <2>6 DEF n
<1>4. Node("Xs", 1, <<e>>) \in Ready
  <2>1. "Xs" \in Steps /\ "Xw" \in Steps /\ Dual["Xs"] = "Xw" /\ 1 \in Int
    BY DEF Steps, Dual
  <2>2. Node("Xs", 1, <<e>>) \in Trees
    BY <1>1, <2>1, Nodes
  <2>3. Negated[Node("Xs", 1, <<e>>)] = Node("Xw", 1, <<Negated[e]>>)
    BY <1>1, <2>1, Negations, SMTT(60)
  <2>4. ASSUME NEW o \in Steps, NEW a \in Trees, Canonic[a] \in Normal
        PROVE  Canonic[Node(o, 1, <<a>>)] \in Normal
    <3>1. Canonic[Node(o, 1, <<a>>)] = Node(o, 1, <<Canonic[a]>>)
      BY <2>1, Canonics
    <3>2. Node(o, 1, <<Canonic[a]>>) \in Normal
      BY <2>1, <2>4, NormalNodes
    <3> QED BY <3>1, <3>2
  <2>5. Canonic[Node("Xs", 1, <<e>>)] \in Normal /\ Canonic[Node("Xw", 1, <<Negated[e]>>)] \in Normal
    BY <1>1, <2>1, <2>4
  <2> DEFINE n == Node("Xs", 1, <<e>>)
  <2>6. n \in Trees /\ Canonic[n] \in Normal /\ Canonic[Negated[n]] \in Normal
    BY <2>2, <2>3, <2>5
  <2> HIDE DEF n
  <2>7. n \in Ready
    BY <2>6 DEF Ready
  <2> QED BY <2>7 DEF n
<1>5. G(t, e) \in Ready /\ F(t, e) \in Ready /\ Once(t, e) \in Ready
  BY <1>2 DEF G, F, Once, Quantifiers
<1>6. Us(t, e, f) \in Ready /\ Uw(t, e, f) \in Ready
  BY <1>3 DEF Us, Uw, AllOps, FutureOps
<1> QED BY <1>4, <1>5, <1>6 DEF Xs

(* What the parser makes of a statement. *)
Written(p) ==
  /\ p.P \in Trees /\ p.S \in Trees /\ p.T \in Trees
  /\ p.t[1] \in Windows /\ p.t[2] \in Windows
  /\ p.c[1] \in Trees \cup {None} /\ p.c[2] \in Trees \cup {None}

Chained == {"ResponseChain12", "ResponseChain21"}

LEMMA WindowsAreNot ==
  ASSUME AllTrees
  PROVE  /\ \A w \in Windows : WellTyped(w) => w \in Absent
         /\ \A e \in Trees : e # NoWindow /\ WellTyped(e)
<1>1. \A w \in Windows : DOMAIN w = {"lo", "hi"}
  BY DEF Windows
<1>2. DOMAIN NoWindow = {"lo", "hi"}
  BY DEF NoWindow, Window
<1>3. ASSUME NEW e \in Trees PROVE DOMAIN e = {"op", "par", "args"}
  <2>1. Node(e.op, e.par, e.args) = e
    BY Rebuilt
  <2>2. DOMAIN Node(e.op, e.par, e.args) = {"op", "par", "args"}
    BY DEF Node
  <2> QED BY <2>1, <2>2
<1>4. \A w \in Windows : WellTyped(w) => w \in Absent
  BY <1>1 DEF WellTyped
<1>5. \A e \in Trees : e # NoWindow /\ WellTyped(e)
  BY <1>2, <1>3 DEF WellTyped
<1> QED BY <1>4, <1>5

LEMMA MadeNormal ==
  ASSUME AllTrees, NEW c \in Trees \cup Absent
  PROVE  Made(c) \in Normal
<1>1. CASE c \in Absent
  BY <1>1, NormalNodes DEF Made
<1>2. CASE c \notin Absent
  <2>1. rewritten[c] \in Normal
    BY <1>2, RewrittenIs
  <2> QED BY <1>2, <2>1 DEF Made, Rewritten
<1> QED BY <1>1, <1>2

(* An accepted chain has no bound where its constraint should be.          *)
LEMMA NoConstraint ==
  ASSUME AllTrees, NEW p, Written(p), Sound(p)
  PROVE  p.kind \in Chained => CST(p) \in Absent
<1>1. CST(p) \in Windows
  BY DEF Written, CST
<1>2. p.kind \in Chained => CST(p) \in Constraints(p)
  BY DEF Constraints, Chained
<1>3. p.kind \in Chained => WellTyped(CST(p))
  BY <1>2 DEF Sound
<1> QED BY <1>1, <1>3, WindowsAreNot

LEMMA CodeNormal ==
  ASSUME AllTrees, NEW p, Written(p), Sound(p)
  PROVE  /\ p.kind = "Expression" \/ Body(p) \in Trees
         /\ Code(p) \in Normal
<1> DEFINE P == Rewritten(p.P)
           S == Rewritten(p.S)
           T == Rewritten(p.T)
           t1 == p.t[1]
           t2 == p.t[2]
           z1 == Not(Made(p.c[1]))
           z2 == Not(Made(p.c[2]))
           st == Not(Made(CST(p)))
<1>1. P \in Normal /\ S \in Normal /\ T \in Normal
  BY RewrittenIs DEF Written, Rewritten
<1>2. P \in Ready /\ S \in Ready /\ T \in Ready /\ Not(P) \in Ready /\ True \in Ready
  BY <1>1, NormalNodes, ReadyNormal
<1>3. z1 \in Ready /\ z2 \in Ready
  <2>1. None \in Absent
    BY DEF Absent
  <2>2. Made(p.c[1]) \in Normal /\ Made(p.c[2]) \in Normal
    BY <2>1, MadeNormal DEF Written
  <2> QED BY <2>2, ReadyNormal
<1>4. p.kind \in Chained => st \in Ready
  BY NoConstraint, MadeNormal, ReadyNormal
<1>5. t1 \in Windows /\ t2 \in Windows /\ NoWindow \in Windows
  BY RowTypes DEF Written
<1> HIDE DEF P, S, T, t1, t2, z1, z2, st
<1>6. \A e \in Ready, f \in Ready : And(e, f) \in Ready /\ Or(e, f) \in Ready /\ Imp(e, f) \in Ready
  BY ReadyConnectives
<1>7. \A t \in Windows, e \in Ready : G(t, e) \in Ready /\ F(t, e) \in Ready /\ Once(t, e) \in Ready
  BY ReadyTemporal
<1>8. \A t \in Windows, e \in Ready, f \in Ready : Us(t, e, f) \in Ready /\ Uw(t, e, f) \in Ready
  BY ReadyTemporal
<1>9. \A e \in Ready : Always(e) \in Ready /\ Xs(e) \in Ready
  BY <1>5, ReadyTemporal DEF Always
<1>10. Body(p) \in Ready
  <2>1. CASE p.kind \in {"Universality", "Absence", "Existence", "Recurrence", "ResponseInvariance", "Until"}
    <3>1. /\ G(t1, P) \in Ready /\ G(t1, Not(P)) \in Ready /\ F(t1, P) \in Ready /\ Us(t1, P, S) \in Ready
          /\ G(t1, S) \in Ready
      BY <1>2, <1>5, <1>7, <1>8
    <3>2. Always(F(t1, P)) \in Ready /\ Always(Imp(P, G(t1, S))) \in Ready
      BY <1>2, <1>6, <1>9, <3>1
    <3> QED BY <2>1, <3>1, <3>2 DEF Body, P, S, t1
  <2>2. CASE p.kind \in {"MaximumDuration", "MinimunDuration"}
    <3>1. And(P, F(t1, Not(P))) \in Ready /\ G(t1, P) \in Ready
      BY <1>2, <1>5, <1>6, <1>7
    <3>2. Uw(NoWindow, Not(P), And(P, F(t1, Not(P)))) \in Ready /\ Uw(NoWindow, Not(P), G(t1, P)) \in Ready
      BY <1>2, <1>5, <1>8, <3>1
    <3>3. /\ Always(Or(P, Uw(NoWindow, Not(P), And(P, F(t1, Not(P)))))) \in Ready
          /\ Always(Or(P, Uw(NoWindow, Not(P), G(t1, P)))) \in Ready
      BY <1>2, <1>6, <1>9, <3>2
    <3> QED BY <2>2, <3>3 DEF Body, P, t1
  <2>3. CASE p.kind \in {"Precedence", "Response"}
    <3>1. Once(t1, S) \in Ready /\ Us(t1, z1, S) \in Ready
      BY <1>2, <1>3, <1>5, <1>7, <1>8
    <3>2. Always(Imp(P, Once(t1, S))) \in Ready /\ Always(Imp(P, Us(t1, z1, S))) \in Ready
      BY <1>2, <1>6, <1>9, <3>1
    <3> QED BY <2>3, <3>2 DEF Body, P, S, t1, z1
  <2>4. CASE p.kind = "ResponseChain12"
    <3>1. st \in Ready
      BY <1>4, <2>4 DEF Chained
    <3>2. And(S, st) \in Ready /\ Xs(Us(t2, st, T)) \in Ready
      BY <1>2, <1>5, <1>6, <1>8, <1>9, <3>1
    <3>3. Us(t1, z1, And(And(S, st), Xs(Us(t2, st, T)))) \in Ready
      BY <1>3, <1>5, <1>6, <1>8, <3>2
    <3>4. Always(Imp(P, Us(t1, z1, And(And(S, st), Xs(Us(t2, st, T)))))) \in Ready
      BY <1>2, <1>6, <1>9, <3>3
    <3> QED BY <2>4, <3>4 DEF Body, P, S, T, t1, t2, z1, st
  <2>5. CASE p.kind = "ResponseChain21"
    <3>1. st \in Ready
      BY <1>4, <2>5 DEF Chained
    <3>2. And(S, st) \in Ready /\ And(T, z2) \in Ready /\ Us(t2, z2, P) \in Ready
      BY <1>2, <1>3, <1>5, <1>6, <1>8, <3>1
    <3>3. Xs(Us(t2, st, And(T, z2))) \in Ready /\ Xs(Us(t1, st, And(T, Us(t2, z2, P)))) \in Ready
      BY <1>2, <1>5, <1>6, <1>8, <1>9, <3>1, <3>2
    <3>4. Always(Imp(And(And(S, st), Xs(Us(t2, st, And(T, z2)))), Xs(Us(t1, st, And(T, Us(t2, z2, P)))))) \in Ready
      BY <1>6, <1>9, <3>2, <3>3
    <3> QED BY <2>5, <3>4 DEF Body, P, S, T, t1, t2, z2, st
  <2>6. CASE p.kind \notin {"Universality", "Absence", "Existence", "Recurrence", "ResponseInvariance", "Until",
                            "MaximumDuration", "MinimunDuration", "Precedence", "Response",
                            "ResponseChain12", "ResponseChain21"}
    <3>1. Body(p) = True
      BY <2>6 DEF Body
    <3> QED BY <1>2, <3>1
  <2> QED BY <2>1, <2>2, <2>3, <2>4, <2>5, <2>6
<1>11. Body(p) \in Trees /\ Canonic[Body(p)] \in Normal
  BY <1>10, ReadyTypes
<1> QED BY <1>1, <1>11 DEF Code, P

----------------------------------------------------------------------------
(* How far a statement has come tells what has been found of it.           *)
Progress ==
  /\ statement \in Statements
  /\ stage \in {"accepted", "emitted", "no visitor"} => Sound(statement)
  /\ stage = "rejected" => ~Sound(statement)
  /\ stage = "emitted" => compiled = Code(statement)
  /\ stage = "no visitor" =>
       ~(\A e \in {Code(statement)} \cup Conditions(statement) : Compiles(e))

LEMMA Progressing == Spec => []Progress
<1>1. Init => Progress
  BY DEF Init, Progress
<1>2. Progress /\ [Next]_vars => Progress'
  <2> SUFFICES ASSUME Progress, [Next]_vars PROVE Progress'
    OBVIOUS
  <2> DEFINE compiles(p) == \A e \in {Code(p)} \cup Conditions(p) : Compiles(e)
  <2> HIDE DEF compiles
  <2>1. CASE Accept
    BY <2>1 DEF Accept, Progress
  <2>2. CASE Emit
    <3>1. /\ stage = "accepted" /\ compiled' = Code(statement) /\ statement' = statement
          /\ stage' = IF compiles(statement) THEN "emitted" ELSE "no visitor"
      BY <2>2 DEF Emit, compiles
    <3>2. stage' = "no visitor" => ~compiles(statement')
      BY <3>1
    <3>3. /\ statement' \in Statements /\ Sound(statement') /\ compiled' = Code(statement')
          /\ stage' # "rejected"
      BY <3>1 DEF Progress
    <3> QED BY <3>2, <3>3 DEF Progress, compiles
  <2>3. CASE UNCHANGED vars
    BY <2>3 DEF vars, Progress
  <2> QED BY <2>1, <2>2, <2>3 DEF Next
<1> QED BY <1>1, <1>2, PTL DEF Spec

(* The statements are what the parser makes, and are judged on segments.   *)
AllWritten ==
  \A p \in Statements : Written(p) /\ \A s \in Segments(p) : Segment(s)

(* At every row of every segment the formula that is compiled holds where  *)
(* the one that was written does.                                          *)
THEOREM MeaningIsKept ==
  ASSUME AllTrees, AllWritten
  PROVE  Spec => []MeaningKept
<1>1. Progress => MeaningKept
  <2> SUFFICES ASSUME Progress, stage = "emitted", statement.kind = "Expression",
                      NEW s \in Segments(statement)
               PROVE  Sat(compiled, s, 1) = Sat(statement.P, s, 1)
    BY DEF MeaningKept
  <2>1. statement.P \in Trees /\ Segment(s)
    BY DEF Progress, AllWritten, Written
  <2>2. compiled = Rewritten(statement.P)
    BY DEF Progress, Code
  <2>3. 1 \in Row
    BY TraceAssumption DEF Row
  <2> QED BY <2>1, <2>2, <2>3, RewrittenKeepsMeaning
<1> QED BY <1>1, Progressing, PTL

(* A second pass of the rewriting changes nothing: what is compiled is a   *)
(* normal form.                                                            *)
THEOREM CodeIsSettled ==
  ASSUME AllTrees, AllWritten
  PROVE  Spec => []Settled
<1>1. Progress => Settled
  <2> SUFFICES ASSUME Progress, stage = "emitted" PROVE Rewritten(compiled) = compiled
    BY DEF Settled
  <2>1. compiled \in Normal
    BY CodeNormal DEF Progress, AllWritten
  <2> QED BY <2>1, RewrittenIs DEF Rewritten
<1> QED BY <1>1, Progressing, PTL

(* The code generator has a visitor for every operator it meets, unless it *)
(* meets it in the condition of a scope, which nobody rewrites.            *)
THEOREM CodeIsCompilable ==
  ASSUME AllTrees, AllWritten
  PROVE  Spec => []Compilable
<1>1. Progress => Compilable
  <2> SUFFICES ASSUME Progress, stage = "no visitor"
               PROVE  \E e \in Conditions(statement) : ~Compiles(e)
    BY DEF Compilable
  <2>1. statement \in Statements /\ Code(statement) \in Normal
    BY CodeNormal DEF Progress, AllWritten
  <2>2. Compiles(Code(statement))
    BY <2>1, NormalCompiles
  <2> QED BY <2>2 DEF Progress
<1> QED BY <1>1, Progressing, PTL

(* Only a time bound where there should be none makes the type calculation *)
(* reject a sentence, or one that a response chain has on its leg from S   *)
(* to T: that is taken for the constraint of that leg.                     *)
THEOREM OnlyTemporalIsRejected ==
  ASSUME AllTrees, AllWritten
  PROVE  Spec => []OnlyTemporalRejected
<1>1. Progress => OnlyTemporalRejected
  <2> SUFFICES ASSUME Progress, stage = "rejected", ~(statement.kind \in Chained /\ CST(statement) # NoWindow)
               PROVE  \E e \in {statement.P, statement.S, statement.T} \cup Conditions(statement) : Temporal(e)
    BY DEF OnlyTemporalRejected, Chained, CST
  <2>1. statement \in Statements /\ Written(statement) /\ ~Sound(statement)
    BY DEF Progress, AllWritten
  <2>2. ASSUME NEW c \in Constraints(statement) PROVE WellTyped(c)
    <3>1. WellTyped(None) /\ WellTyped(NoWindow)
      BY DEF WellTyped, Absent
    <3>2. WellTyped(statement.c[1]) /\ WellTyped(statement.c[2])
      BY <2>1, <3>1, WindowsAreNot DEF Written
    <3>3. statement.kind \in Chained => WellTyped(CST(statement))
      BY <3>1
    <3> QED BY <2>2, <3>2, <3>3 DEF Constraints, Chained
  <2> QED BY <2>1, <2>2 DEF Sound
<1> QED BY <1>1, Progressing, PTL

----------------------------------------------------------------------------
(* What the operators of a pattern say of the rows of a segment.           *)
Timely(s) == Segment(s) /\ s.time \in Traces

LEMMA AheadIs ==
  ASSUME NEW w \in Windows, NEW s, NEW i \in DataRow
  PROVE  /\ Ahead(w, s, i) \subseteq i..(N - 1)
         /\ Ahead(NoWindow, s, i) = i..(N - 1)
<1>1. \A v \in Windows : LET c == CallAt("Us", v, {}, {}, s, i)
                         IN  c.op = "Us" /\ c.start = i /\ c.lo = v.lo /\ c.hi = v.hi
  BY DEF CallAt
<1>2. "Us" \notin PastOps
  BY DEF PastOps
<1>3. \A v \in Windows : Reach(CallAt("Us", v, {}, {}, s, i)) = i..(N - 1)
  BY <1>1, <1>2 DEF Reach
<1>4. ~Bounded(CallAt("Us", NoWindow, {}, {}, s, i))
  BY <1>1, RowTypes DEF Bounded, NoWindow, Window
<1> QED BY <1>3, <1>4, RowTypes DEF Ahead, Visible

(* Until, in terms of the rows that its window shows. *)
LEMMA MeaningUntil ==
  ASSUME Operands = [Row -> BOOLEAN], NEW w \in Windows, NEW s, Timely(s), NEW X, NEW Y, NEW i \in DataRow
  PROVE  /\ Meaning(CallAt("Us", w, X, Y, s, i)) <=>
              \E j \in Ahead(w, s, i) \cap Y : \A k \in Ahead(w, s, i) : k < j => k \in X
         /\ Meaning(CallAt("Uw", NoWindow, X, Y, s, i)) <=>
              \/ \E j \in Ahead(NoWindow, s, i) \cap Y : \A k \in Ahead(NoWindow, s, i) : k < j => k \in X
              \/ Ahead(NoWindow, s, i) \subseteq X
<1>1. "Us" \in AllOps /\ "Uw" \in AllOps /\ "Us" \notin PastOps /\ "Uw" \notin PastOps
  BY DEF AllOps, FutureOps, PastOps
<1>2. i \in 1..N /\ DataRow \subseteq Row
  BY RowTypes, TraceAssumption DEF DataRow
<1>3. ASSUME NEW op, NEW v \in Windows, NEW A, NEW B
      PROVE  LET c == CallAt(op, v, A, B, s, i)
             IN  /\ c.op = op /\ c.lo = v.lo /\ c.hi = v.hi /\ c.time = s.time /\ c.start = i
                 /\ c.lhs = [r \in Row |-> r \in A] /\ c.rhs = [r \in Row |-> r \in B]
  BY DEF CallAt
<1>4. ASSUME NEW v \in Windows, NEW op \in AllOps PROVE CallAt(op, v, X, Y, s, i) \in CallsOf(AllOps)
  <2>1. /\ v.lo \in Bounds /\ v.hi \in Bounds /\ s.time \in Traces
        /\ [r \in Row |-> r \in X] \in Operands /\ [r \in Row |-> r \in Y] \in Operands
    BY DEF Windows, Timely
  <2> QED BY <1>2, <2>1 DEF CallAt, CallsOf
<1>5. ASSUME NEW v \in Windows
      PROVE  Meaning(CallAt("Us", v, X, Y, s, i)) <=>
               \E j \in Ahead(v, s, i) \cap Y : \A k \in Ahead(v, s, i) : k < j => k \in X
  <2> DEFINE c == CallAt("Us", v, X, Y, s, i)
             d == CallAt("Us", v, {}, {}, s, i)
  <2>1. c \in CallsOf(AllOps)
    BY <1>1, <1>4
  <2>2. /\ c.op = "Us" /\ c.lo = d.lo /\ c.hi = d.hi /\ c.time = d.time /\ c.start = d.start /\ d.op = "Us"
        /\ c.lhs = [r \in Row |-> r \in X] /\ c.rhs = [r \in Row |-> r \in Y]
    BY DEF CallAt
  <2>3. Ahead(v, s, i) = Visible(d) /\ Ahead(v, s, i) \subseteq Row
    <3>1. Ahead(v, s, i) \subseteq DataRow
      BY LookedAt
    <3> QED BY <1>2, <3>1 DEF Ahead
  <2> HIDE DEF c, d
  <2>4. Visible(c) = Visible(d)
    <3>1. Reach(c) = Reach(d) /\ (Bounded(c) <=> Bounded(d))
      BY <2>2 DEF Reach, Bounded
    <3>2. \A j : Instants(c, j) = Instants(d, j)
      BY <2>2 DEF Instants, Covered, InWindow, Now
    <3> QED BY <3>1, <3>2 DEF Visible
  <2>5. Meaning(c) <=> MeaningRows(c, Visible(c))
    <3>1. CASE Bounded(c)
      BY <2>1, <3>1, TimedIsRows DEF Meaning
    <3>2. CASE ~Bounded(c)
      BY <3>2 DEF Meaning, Visible
    <3> QED BY <3>1, <3>2
  <2>6. MeaningRows(c, Visible(c)) <=> UntilRows(c, Visible(c))
    BY <2>2 DEF MeaningRows
  <2>7. \A j, k : Nearer(c, k, j) <=> k < j
    BY <1>1, <2>2 DEF Nearer
  <2>8. \A j \in Row : c.lhs[j] = (j \in X) /\ c.rhs[j] = (j \in Y)
    BY <2>2
  <2>9. UntilRows(c, Visible(c)) <=>
          \E j \in Ahead(v, s, i) \cap Y : \A k \in Ahead(v, s, i) : k < j => k \in X
    BY <2>3, <2>4, <2>7, <2>8 DEF UntilRows
  <2> QED BY <2>5, <2>6, <2>9 DEF c
<1>6. Meaning(CallAt("Uw", NoWindow, X, Y, s, i)) <=>
        \/ \E j \in Ahead(NoWindow, s, i) \cap Y : \A k \in Ahead(NoWindow, s, i) : k < j => k \in X
        \/ Ahead(NoWindow, s, i) \subseteq X
  <2> DEFINE c == CallAt("Uw", NoWindow, X, Y, s, i)
             V == Ahead(NoWindow, s, i)
  <2>1. NoWindow \in Windows /\ NoWindow.lo = None /\ NoWindow.hi = None
    BY RowTypes DEF NoWindow, Window
  <2>2. /\ c.op = "Uw" /\ c.lo = None /\ c.hi = None /\ c.start = i
        /\ c.lhs = [r \in Row |-> r \in X] /\ c.rhs = [r \in Row |-> r \in Y]
    BY <1>3, <2>1
  <2>3. V = i..(N - 1) /\ V \subseteq Row
    <3>1. V \subseteq DataRow
      BY <2>1, LookedAt
    <3> QED BY <1>2, <3>1, AheadIs, RowTypes
  <2> HIDE DEF c, V
  <2>4. Reach(c) = V
    BY <1>1, <2>2, <2>3 DEF Reach
  <2>5. Meaning(c) <=> UntilRows(c, V) \/ \A j \in V : c.lhs[j]
    BY <2>2, <2>4 DEF Meaning, Bounded, MeaningRows
  <2>6. \A j, k : Nearer(c, k, j) <=> k < j
    BY <1>1, <2>2 DEF Nearer
  <2>7. \A j \in Row : c.lhs[j] = (j \in X) /\ c.rhs[j] = (j \in Y)
    BY <2>2
  <2>8. UntilRows(c, V) <=> \E j \in V \cap Y : \A k \in V : k < j => k \in X
    BY <2>3, <2>6, <2>7 DEF UntilRows
  <2>9. (\A j \in V : c.lhs[j]) <=> V \subseteq X
    BY <2>3, <2>7
  <2> QED BY <2>5, <2>8, <2>9 DEF c, V
<1> QED BY <1>5, <1>6

(* A row that a window without a lower bound does not show hides nothing.  *)
LEMMA HiddenRow ==
  ASSUME NEW w \in Windows, w.lo = None, NEW s, Timely(s), NEW i \in DataRow, i + 1 \in DataRow,
         i \notin Ahead(w, s, i)
  PROVE  Ahead(w, s, i + 1) \subseteq Ahead(w, s, i)
<1> DEFINE c == CallAt("Us", w, {}, {}, s, i)
           d == CallAt("Us", w, {}, {}, s, i + 1)
           T == s.time
<1>1. "Us" \notin PastOps
  BY DEF PastOps
<1>2. /\ c.op = "Us" /\ c.lo = None /\ c.hi = w.hi /\ c.time = T /\ c.start = i
      /\ d.op = "Us" /\ d.lo = None /\ d.hi = w.hi /\ d.time = T /\ d.start = i + 1
  BY DEF CallAt
<1>3. Ahead(w, s, i) = Visible(c) /\ Ahead(w, s, i + 1) = Visible(d)
  BY DEF Ahead
<1> HIDE DEF c, d
<1>4. /\ T \in [Row -> Int] /\ \A j, k \in Row : j <= k => T[j] <= T[k]
      /\ w.hi # None => w.hi \in Int
  BY TraceAssumption DEF Timely, Traces, Windows, Bounds
<1>5. i \in Int /\ N \in Int /\ 1 <= i /\ i + 1 <= N - 1
  BY RowTypes, TraceAssumption DEF DataRow
<1>6. Reach(c) = i..(N - 1) /\ Reach(d) = (i + 1)..(N - 1)
  BY <1>1, <1>2 DEF Reach
<1>7. /\ \A j : Instants(c, j) = {t \in T[j]..(T[j + 1] - 1) : w.hi # None => t < T[i] + w.hi}
      /\ \A j : Instants(d, j) = {t \in T[j]..(T[j + 1] - 1) : w.hi # None => t < T[i + 1] + w.hi}
  BY <1>1, <1>2 DEF Instants, Covered, InWindow, Now
<1>8. (Bounded(c) <=> w.hi # None) /\ (Bounded(d) <=> w.hi # None)
  BY <1>2 DEF Bounded
<1>9. w.hi # None /\ Instants(c, i) = {}
  BY <1>3, <1>5, <1>6, <1>8 DEF Visible
<1>10. w.hi \in Int /\ T[i] \in Int /\ T[i + 1] \in Int /\ T[i] <= T[i + 1]
  BY <1>4, <1>5, <1>9 DEF Row
<1>11. T[i + 1] = T[i] \/ w.hi <= 0
  <2>1. T[i] \notin Instants(c, i)
    BY <1>9
  <2> QED BY <1>7, <1>10, <2>1
<1>12. ASSUME NEW j \in Visible(d) PROVE j \in Visible(c)
  <2>1. j \in (i + 1)..(N - 1) /\ Instants(d, j) # {}
    BY <1>6, <1>8, <1>9 DEF Visible
  <2>2. PICK t : t \in Instants(d, j)
    BY <2>1
  <2>3. j \in Row /\ j + 1 \in Row /\ i + 1 \in Row /\ i + 1 <= j
    BY <1>5, <2>1 DEF Row
  <2>4. T[j] \in Int /\ T[j + 1] \in Int /\ T[i + 1] <= T[j]
    BY <1>4, <2>3
  <2>5. t \in Int /\ T[j] <= t /\ t <= T[j + 1] - 1 /\ t < T[i + 1] + w.hi
    BY <1>7, <1>9, <2>2, <2>4
  <2>6. T[i + 1] = T[i]
    BY <1>10, <1>11, <2>4, <2>5
  <2>7. t \in Instants(c, j)
    BY <1>7, <2>4, <2>5, <2>6
  <2>8. j \in i..(N - 1)
    BY <1>5, <2>1
  <2> QED BY <1>6, <2>7, <2>8 DEF Visible
<1> QED BY <1>3, <1>12

(* Where the parts of a pattern hold. *)
LEMMA SatBuilt ==
  ASSUME AllTrees, NEW s, Segment(s), NEW e \in Trees, NEW f \in Trees, NEW t \in Windows
  PROVE  LET A == Sat(e, s, 1)
             B == Sat(f, s, 1)
         IN  /\ And(e, f) \in Trees /\ Sat(And(e, f), s, 1) = A \cap B
             /\ Or(e, f) \in Trees /\ Sat(Or(e, f), s, 1) = A \cup B
             /\ Imp(e, f) \in Trees /\ Sat(Imp(e, f), s, 1) = (DataRow \ A) \cup B
             /\ Not(e) \in Trees /\ Sat(Not(e), s, 1) = DataRow \ A
             /\ G(t, e) \in Trees /\ Sat(G(t, e), s, 1) = {i \in DataRow : Ahead(t, s, i) \subseteq A}
             /\ F(t, e) \in Trees /\ Sat(F(t, e), s, 1) = {i \in DataRow : Ahead(t, s, i) \cap A # {}}
             /\ Once(t, e) \in Trees /\ Sat(Once(t, e), s, 1) = {i \in DataRow : Behind(t, s, i) \cap A # {}}
             /\ Xs(e) \in Trees /\ Sat(Xs(e), s, 1) = {i \in DataRow : i + 1 \in A}
<1>0. 1 \in Row
  BY TraceAssumption DEF Row
<1> DEFINE A == Sat(e, s, 1)
           B == Sat(f, s, 1)
<1>1. ASSUME NEW g \in Trees PROVE Unary("Paren", g) \in Trees /\ Sat(Unary("Paren", g), s, 1) = Sat(g, s, 1)
  BY <1>0, Nodes, SatWrapping DEF Wrapping
<1>2. ASSUME NEW op \in Connectives PROVE Binary(op, e, f) \in Trees
  BY Nodes
<1>3. {"And", "Or", "Imp"} \subseteq Connectives
  BY DEF Connectives
<1>4. /\ Sat(Binary("And", e, f), s, 1) = A \cap B
      /\ Sat(Binary("Or", e, f), s, 1) = A \cup B
      /\ Sat(Binary("Imp", e, f), s, 1) = (DataRow \ A) \cup B
  BY <1>0, SatConnectives
<1>5. Unary("Not", e) \in Trees /\ Sat(Unary("Not", e), s, 1) = DataRow \ A
  BY <1>0, Nodes, SatWrapping DEF Wrapping
<1>6. /\ And(e, f) \in Trees /\ Sat(And(e, f), s, 1) = A \cap B
      /\ Or(e, f) \in Trees /\ Sat(Or(e, f), s, 1) = A \cup B
  BY <1>1, <1>2, <1>3, <1>4 DEF And, Or
<1>7. /\ Imp(e, f) \in Trees /\ Sat(Imp(e, f), s, 1) = (DataRow \ A) \cup B
      /\ Not(e) \in Trees /\ Sat(Not(e), s, 1) = DataRow \ A
  BY <1>1, <1>2, <1>3, <1>4, <1>5 DEF Imp, Not
<1>8. \A op \in Quantifiers : Node(op, t, <<e>>) \in Trees
  BY Nodes
<1>9. /\ Sat(Node("G", t, <<e>>), s, 1) = {i \in DataRow : Ahead(t, s, i) \subseteq A}
      /\ Sat(Node("F", t, <<e>>), s, 1) = {i \in DataRow : Ahead(t, s, i) \cap A # {}}
      /\ Sat(Node("O", t, <<e>>), s, 1) = {i \in DataRow : Behind(t, s, i) \cap A # {}}
  BY <1>0, SatQuantifiers
<1>10. /\ G(t, e) \in Trees /\ Sat(G(t, e), s, 1) = {i \in DataRow : Ahead(t, s, i) \subseteq A}
       /\ F(t, e) \in Trees /\ Sat(F(t, e), s, 1) = {i \in DataRow : Ahead(t, s, i) \cap A # {}}
       /\ Once(t, e) \in Trees /\ Sat(Once(t, e), s, 1) = {i \in DataRow : Behind(t, s, i) \cap A # {}}
  BY <1>8, <1>9 DEF G, F, Once, Quantifiers
<1>11. Xs(e) \in Trees /\ Sat(Xs(e), s, 1) = {i \in DataRow : i + 1 \in A}
  <2>1. "Xs" \in Steps /\ 1 \in Int
    BY DEF Steps
  <2>2. Node("Xs", 1, <<e>>) \in Trees
    BY <2>1, Nodes
  <2>3. Sat(Node("Xs", 1, <<e>>), s, 1) = Stepped("Xs", 1, A)
    BY <1>0, <2>1, SatSteps
  <2>4. Stepped("Xs", 1, A) = {i \in DataRow : i + 1 \in A}
    BY DEF Stepped, Before
  <2> QED BY <2>2, <2>3, <2>4 DEF Xs
<1> QED BY <1>6, <1>7, <1>10, <1>11

(* The rows from i on. *)
Rest(i) == i..(N - 1)

Awaited(A, B, s) ==
  {i \in DataRow : Arrivals(NoWindow, DataRow \ A, B, s, i) # {} \/ Rest(i) \subseteq A}

LEMMA SatUntil ==
  ASSUME AllTrees, Operands = [Row -> BOOLEAN], NEW s, Timely(s), NEW e \in Trees, NEW f \in Trees,
         NEW t \in Windows, NEW A, A = Sat(e, s, 1), NEW B, B = Sat(f, s, 1)
  PROVE  /\ Us(t, e, f) \in Trees
         /\ \A i \in DataRow : i \in Sat(Us(t, e, f), s, 1) <=> Arrivals(t, DataRow \ A, B, s, i) # {}
<1>0. 1 \in Row /\ Segment(s)
  BY TraceAssumption DEF Row, Timely
<1>1. "Us" \in AllOps
  BY DEF AllOps, FutureOps
<1>2. Node("Us", t, <<e, f>>) \in Trees
  BY <1>1, Nodes
<1>3. Sat(Node("Us", t, <<e, f>>), s, 1) = {i \in DataRow : Meaning(CallAt("Us", t, A, B, s, i))}
  BY <1>0, <1>1, SatTemporal
<1>4. ASSUME NEW i \in DataRow
      PROVE  Meaning(CallAt("Us", t, A, B, s, i)) <=> Arrivals(t, DataRow \ A, B, s, i) # {}
  <2>1. Ahead(t, s, i) \subseteq DataRow
    BY LookedAt
  <2>2. Meaning(CallAt("Us", t, A, B, s, i)) <=>
          \E j \in Ahead(t, s, i) \cap B : \A k \in Ahead(t, s, i) : k < j => k \in A
    BY MeaningUntil
  <2> QED BY <2>1, <2>2 DEF Arrivals
<1> QED BY <1>2, <1>3, <1>4 DEF Us

LEMMA SatWeak ==
  ASSUME AllTrees, Operands = [Row -> BOOLEAN], NEW s, Timely(s), NEW e \in Trees, NEW f \in Trees,
         NEW A, A = Sat(e, s, 1), NEW B, B = Sat(f, s, 1)
  PROVE  Uw(NoWindow, e, f) \in Trees /\ Sat(Uw(NoWindow, e, f), s, 1) = Awaited(A, B, s)
<1>0. 1 \in Row /\ Segment(s) /\ NoWindow \in Windows
  BY RowTypes, TraceAssumption DEF Row, Timely
<1>1. "Uw" \in AllOps
  BY DEF AllOps, FutureOps
<1>2. Node("Uw", NoWindow, <<e, f>>) \in Trees
  BY <1>0, <1>1, Nodes
<1>3. Sat(Node("Uw", NoWindow, <<e, f>>), s, 1) = {i \in DataRow : Meaning(CallAt("Uw", NoWindow, A, B, s, i))}
  BY <1>0, <1>1, SatTemporal
<1>4. ASSUME NEW i \in DataRow
      PROVE  Meaning(CallAt("Uw", NoWindow, A, B, s, i)) <=>
               Arrivals(NoWindow, DataRow \ A, B, s, i) # {} \/ Rest(i) \subseteq A
  <2>1. Ahead(NoWindow, s, i) \subseteq DataRow /\ Ahead(NoWindow, s, i) = Rest(i)
    BY <1>0, LookedAt, AheadIs DEF Rest
  <2>2. Meaning(CallAt("Uw", NoWindow, A, B, s, i)) <=>
          \/ \E j \in Ahead(NoWindow, s, i) \cap B : \A k \in Ahead(NoWindow, s, i) : k < j => k \in A
          \/ Ahead(NoWindow, s, i) \subseteq A
    BY <1>0, MeaningUntil
  <2>3. Arrivals(NoWindow, DataRow \ A, B, s, i) # {} <=>
          \E j \in Ahead(NoWindow, s, i) \cap B : \A k \in Ahead(NoWindow, s, i) : k < j => k \in A
    BY <2>1 DEF Arrivals
  <2> QED BY <2>1, <2>2, <2>3
<1>5. Sat(Uw(NoWindow, e, f), s, 1) = Awaited(A, B, s)
  BY <1>3, <1>4 DEF Uw, Awaited
<1> QED BY <1>2, <1>5 DEF Uw

----------------------------------------------------------------------------
(* The two durations: what a weak until demands at every row it demands of *)
(* the rows at which the expression becomes satisfied.                     *)
LEMMA Least ==
  ASSUME NEW S, S \subseteq Nat, S # {}
  PROVE  \E m \in S : \A k \in S : m <= k
<1> DEFINE R == OpToRel(<, Nat)
<1>1. IsWellFoundedOn(R, Nat)
  BY NatLessThanWellFounded
<1>2. \A i, j \in Nat : i < j => <<i, j>> \in R
  BY DEF OpToRel
<1> HIDE DEF R
<1>3. PICK m \in S : \A k \in S : ~(<<k, m>> \in R)
  BY <1>1, WFMin
<1>4. \A k \in S : ~(k < m)
  BY <1>2, <1>3, Zenon
<1> QED BY <1>3, <1>4

LEMMA UntilRise ==
  ASSUME NEW s, NEW A, A \subseteq DataRow, NEW B, B \subseteq DataRow,
         \A i \in DataRow : i \in B /\ i \notin A /\ i + 1 \in A => i + 1 \in B
  PROVE  (\A i \in DataRow : i \in A \cup Awaited(DataRow \ A, B, s)) <=> Rises(A) \subseteq B
<1> DEFINE Z == DataRow \ (DataRow \ A)
<1>0. \A i \in DataRow : i \in Z <=> i \in A
  OBVIOUS
<1> HIDE DEF Z
<1> DEFINE here(i) == \/ i \in A
                      \/ Arrivals(NoWindow, Z, B, s, i) # {}
                      \/ Rest(i) \subseteq DataRow \ A
<1>1. \A i \in DataRow : Ahead(NoWindow, s, i) = i..(N - 1)
  BY AheadIs, RowTypes
<1>2. DataRow = 1..(N - 1) /\ N \in Int
  BY TraceAssumption DEF DataRow
<1>3. ASSUME NEW i \in DataRow
      PROVE  Arrivals(NoWindow, Z, B, s, i) = {j \in i..(N - 1) : j \in B /\ \A k \in i..(N - 1) : k < j => k \notin A}
  <2>1. \A k \in i..(N - 1) : k \in DataRow
    BY <1>2
  <2> QED BY <1>0, <1>1, <2>1 DEF Arrivals
<1>4. ASSUME \A i \in DataRow : here(i), NEW j \in Rises(A) PROVE j \in B
  <2>1. j \in A /\ j \in DataRow /\ j - 1 \in DataRow /\ j - 1 \notin A
    BY DEF Rises
  <2>2. j \in Int /\ j \in (j - 1)..(N - 1) /\ (j - 1) + 1 = j
    BY <1>2, <2>1
  <2>3. here(j - 1)
    BY <1>4, <2>1
  <2>4. PICK m : m \in Arrivals(NoWindow, Z, B, s, j - 1)
    BY <2>1, <2>2, <2>3 DEF Rest
  <2>5. m \in (j - 1)..(N - 1) /\ m \in B /\ ~(j < m)
    BY <1>3, <2>1, <2>2, <2>4
  <2>6. m = j \/ m = j - 1
    BY <1>2, <2>2, <2>5
  <2> QED BY <2>1, <2>2, <2>5, <2>6
<1>5. ASSUME Rises(A) \subseteq B, NEW i \in DataRow, i \notin A, NEW k \in i..(N - 1), k \in A
      PROVE  Arrivals(NoWindow, Z, B, s, i) # {}
  <2> DEFINE S == {m \in i..(N - 1) : m \in A}
  <2>1. S \subseteq Nat /\ S # {}
    BY <1>2, <1>5
  <2>2. PICK j \in S : \A m \in S : j <= m
    BY <2>1, Least
  <2>3. j \in A /\ j \in i..(N - 1) /\ \A m \in i..(N - 1) : m < j => m \notin A
    BY <1>2, <2>2
  <2>4. j - 1 \in DataRow /\ j - 1 \in i..(N - 1) /\ j - 1 < j
    BY <1>2, <1>5, <2>3
  <2>5. j \in Rises(A)
    BY <2>3, <2>4 DEF Rises
  <2>6. j \in B
    BY <1>5, <2>5
  <2>7. j \in Arrivals(NoWindow, Z, B, s, i)
    BY <1>3, <2>3, <2>6
  <2> QED BY <2>7
<1>6. ASSUME Rises(A) \subseteq B, NEW i \in DataRow PROVE here(i)
  <2>1. CASE \E k \in i..(N - 1) : k \in A
    BY <1>5, <1>6, <2>1
  <2>2. CASE \A k \in i..(N - 1) : k \notin A
    BY <1>2, <2>2 DEF Rest
  <2> QED BY <2>1, <2>2
<1>7. \A i \in DataRow : here(i) <=> i \in A \cup Awaited(DataRow \ A, B, s)
  BY DEF Awaited, Z
<1> HIDE DEF here
<1>8. (\A i \in DataRow : here(i)) <=> Rises(A) \subseteq B
  BY <1>4, <1>6
<1> QED BY <1>7, <1>8

----------------------------------------------------------------------------
(* A pattern's formula and its sentence.                                   *)
LEMMA SatAlways ==
  ASSUME AllTrees, NEW s, Segment(s), 1 \in DataRow, NEW e \in Trees
  PROVE  Always(e) \in Trees /\ (1 \in Sat(Always(e), s, 1) <=> \A i \in DataRow : i \in Sat(e, s, 1))
<1>1. NoWindow \in Windows
  BY RowTypes
<1>2. /\ G(NoWindow, e) \in Trees
      /\ Sat(G(NoWindow, e), s, 1) = {i \in DataRow : Ahead(NoWindow, s, i) \subseteq Sat(e, s, 1)}
  BY <1>1, SatBuilt
<1>3. Ahead(NoWindow, s, 1) = DataRow
  BY <1>1, AheadIs DEF DataRow
<1> QED BY <1>2, <1>3 DEF Always

(* Where the negation of a constraint holds; one that is left out is false. *)
LEMMA SatMade ==
  ASSUME AllTrees, NEW s, Segment(s), NEW c \in Trees \cup {None}
  PROVE  LET Z == IF c = None THEN {} ELSE Sat(c, s, 1)
         IN  /\ Z \subseteq DataRow
             /\ Made(c) \in Trees /\ Not(Made(c)) \in Trees
             /\ Sat(Not(Made(c)), s, 1) = DataRow \ Z
<1> DEFINE Z == IF c = None THEN {} ELSE Sat(c, s, 1)
<1>1. 1 \in Row
  BY TraceAssumption DEF Row
<1>2. Made(c) \in Trees /\ Sat(Made(c), s, 1) = Z
  <2>1. CASE c = None
    <3>1. Made(c) = False
      BY <2>1 DEF Made, Absent
    <3> QED BY <1>1, <2>1, <3>1, Nodes, SatLeaves
  <2>2. CASE c # None
    <3>1. c \in Trees /\ c # NoWindow
      BY <2>2, WindowsAreNot
    <3>2. Made(c) = Rewritten(c)
      BY <2>2, <3>1 DEF Made, Absent
    <3>3. Rewritten(c) \in Trees /\ Sat(Rewritten(c), s, 1) = Sat(c, s, 1)
      BY <1>1, <3>1, RewrittenKeepsMeaning, RewrittenIs, NormalIs DEF Rewritten
    <3> QED BY <2>2, <3>2, <3>3
  <2> QED BY <2>1, <2>2
<1>3. Z \subseteq DataRow
  BY <1>1, RowTypes
<1>4. \A w \in Windows : Not(Made(c)) \in Trees /\ Sat(Not(Made(c)), s, 1) = DataRow \ Sat(Made(c), s, 1)
  BY <1>2, SatBuilt
<1>5. Not(Made(c)) \in Trees /\ Sat(Not(Made(c)), s, 1) = DataRow \ Z
  BY <1>2, <1>4, RowTypes
<1> QED BY <1>2, <1>3, <1>5

(* The sentences that are translated: the bound of a duration is an upper  *)
(* one, and no leg of a chain has what its constructor mixes up.           *)
Upper(w) == w.lo = None

Translated(p) ==
  \/ p.kind \in {"Universality", "Absence", "Existence", "Recurrence", "Precedence", "Response",
                 "ResponseInvariance", "Until", "MaximumDuration"}
  \/ p.kind = "MinimunDuration" /\ Upper(p.t[1])
  \/ p.kind = "ResponseChain12" /\ p.t[2] = NoWindow /\ p.c[2] = None
  \/ p.kind = "ResponseChain21" /\ p.t[1] = NoWindow /\ p.t[2] = NoWindow /\ p.c[1] = None /\ p.c[2] = None

LEMMA SatRewritten ==
  ASSUME AllTrees, NEW s, Segment(s), NEW e \in Trees
  PROVE  Rewritten(e) \in Trees /\ Sat(Rewritten(e), s, 1) = Sat(e, s, 1) /\ Sat(e, s, 1) \subseteq DataRow
<1>1. 1 \in Row
  BY TraceAssumption DEF Row
<1> QED BY <1>1, RewrittenKeepsMeaning, RewrittenIs, NormalIs, RowTypes DEF Rewritten

(* The same, one operator at a time.                                       *)
LEMMA SatOver ==
  ASSUME AllTrees, NEW s, Segment(s), NEW t \in Windows
  PROVE  /\ \A e \in Trees : Not(e) \in Trees /\ Sat(Not(e), s, 1) = DataRow \ Sat(e, s, 1)
         /\ \A e \in Trees : G(t, e) \in Trees /\ Sat(G(t, e), s, 1) = {i \in DataRow : Ahead(t, s, i) \subseteq Sat(e, s, 1)}
         /\ \A e \in Trees : F(t, e) \in Trees /\ Sat(F(t, e), s, 1) = {i \in DataRow : Ahead(t, s, i) \cap Sat(e, s, 1) # {}}
         /\ \A e \in Trees : Once(t, e) \in Trees /\ Sat(Once(t, e), s, 1) = {i \in DataRow : Behind(t, s, i) \cap Sat(e, s, 1) # {}}
         /\ \A e \in Trees : Xs(e) \in Trees /\ Sat(Xs(e), s, 1) = {i \in DataRow : i + 1 \in Sat(e, s, 1)}
<1>1. ASSUME NEW e \in Trees PROVE Not(e) \in Trees /\ Sat(Not(e), s, 1) = DataRow \ Sat(e, s, 1)
  BY <1>1, SatBuilt
<1>2. ASSUME NEW e \in Trees
      PROVE  G(t, e) \in Trees /\ Sat(G(t, e), s, 1) = {i \in DataRow : Ahead(t, s, i) \subseteq Sat(e, s, 1)}
  BY <1>2, SatBuilt
<1>3. ASSUME NEW e \in Trees
      PROVE  F(t, e) \in Trees /\ Sat(F(t, e), s, 1) = {i \in DataRow : Ahead(t, s, i) \cap Sat(e, s, 1) # {}}
  BY <1>3, SatBuilt
<1>4. ASSUME NEW e \in Trees
      PROVE  Once(t, e) \in Trees /\ Sat(Once(t, e), s, 1) = {i \in DataRow : Behind(t, s, i) \cap Sat(e, s, 1) # {}}
  BY <1>4, SatBuilt
<1>5. ASSUME NEW e \in Trees PROVE Xs(e) \in Trees /\ Sat(Xs(e), s, 1) = {i \in DataRow : i + 1 \in Sat(e, s, 1)}
  BY <1>5, SatBuilt
<1> QED BY <1>1, <1>2, <1>3, <1>4, <1>5, Zenon

LEMMA SatJoined ==
  ASSUME AllTrees, NEW s, Segment(s), NEW e \in Trees, NEW f \in Trees
  PROVE  /\ And(e, f) \in Trees /\ Sat(And(e, f), s, 1) = Sat(e, s, 1) \cap Sat(f, s, 1)
         /\ Or(e, f) \in Trees /\ Sat(Or(e, f), s, 1) = Sat(e, s, 1) \cup Sat(f, s, 1)
         /\ Imp(e, f) \in Trees /\ Sat(Imp(e, f), s, 1) = (DataRow \ Sat(e, s, 1)) \cup Sat(f, s, 1)
<1>1. NoWindow \in Windows
  BY RowTypes
<1> QED BY <1>1, SatBuilt

(* Arrivals with the rows at which a constraint does not hold.             *)
LEMMA SameArrivals ==
  ASSUME NEW t \in Windows, NEW s, NEW i \in DataRow, NEW Z, NEW Y, NEW V,
         \A k \in DataRow : k \in Y <=> k \in Z
  PROVE  Arrivals(t, Y, V, s, i) = Arrivals(t, Z, V, s, i)
<1>1. \A k \in Ahead(t, s, i) : k \in DataRow
  BY LookedAt
<1> QED BY <1>1 DEF Arrivals

(* The formulas of the patterns without a chain.                           *)
LEMMA BodyMeaning ==
  ASSUME AllTrees, Operands = [Row -> BOOLEAN], 1 \in DataRow, NEW p, Written(p), Translated(p),
         p.kind \notin Chained, NEW s, Timely(s)
  PROVE  1 \in Sat(Body(p), s, 1) <=> Demand(p, s)
<1> DEFINE P == Rewritten(p.P)
           S == Rewritten(p.S)
           A == Sat(p.P, s, 1)
           B == Sat(p.S, s, 1)
           t == p.t[1]
           z == Not(Made(p.c[1]))
           Z == IF p.c[1] = None THEN {} ELSE Sat(p.c[1], s, 1)
<1>0. Segment(s) /\ t \in Windows /\ NoWindow \in Windows
  BY RowTypes DEF Timely, Written
<1>1. /\ P \in Trees /\ Sat(P, s, 1) = A /\ A \subseteq DataRow
      /\ S \in Trees /\ Sat(S, s, 1) = B /\ B \subseteq DataRow
  BY <1>0, SatRewritten DEF Written
<1>2. z \in Trees /\ Sat(z, s, 1) = DataRow \ Z /\ Z \subseteq DataRow
  BY <1>0, SatMade DEF Written
<1>3. /\ p.kind = "Universality" => Body(p) = G(t, P) /\ (Demand(p, s) <=> Ahead(t, s, 1) \subseteq A)
      /\ p.kind = "Absence" => Body(p) = G(t, Not(P)) /\ (Demand(p, s) <=> Ahead(t, s, 1) \cap A = {})
      /\ p.kind = "Existence" => Body(p) = F(t, P) /\ (Demand(p, s) <=> Ahead(t, s, 1) \cap A # {})
  BY DEF Body, Demand
<1>4. /\ p.kind = "MaximumDuration" =>
           /\ Body(p) = Always(Or(P, Uw(NoWindow, Not(P), And(P, F(t, Not(P))))))
           /\ Demand(p, s) <=> \A j \in Rises(A) : ~(Ahead(t, s, j) \subseteq A)
      /\ p.kind = "MinimunDuration" =>
           /\ Body(p) = Always(Or(P, Uw(NoWindow, Not(P), G(t, P))))
           /\ Demand(p, s) <=> \A j \in Rises(A) : Ahead(t, s, j) \subseteq A
      /\ p.kind = "Recurrence" =>
           /\ Body(p) = Always(F(t, P))
           /\ Demand(p, s) <=> \A i \in DataRow : Ahead(t, s, i) \cap A # {}
  BY DEF Body, Demand
<1>5. /\ p.kind = "Precedence" =>
           /\ Body(p) = Always(Imp(P, Once(t, S)))
           /\ Demand(p, s) <=> \A i \in A : Behind(t, s, i) \cap B # {}
      /\ p.kind = "ResponseInvariance" =>
           /\ Body(p) = Always(Imp(P, G(t, S)))
           /\ Demand(p, s) <=> \A i \in A : Ahead(t, s, i) \subseteq B
      /\ p.kind = "Until" =>
           /\ Body(p) = Us(t, P, S)
           /\ Demand(p, s) <=> Arrivals(t, DataRow \ A, B, s, 1) # {}
  BY DEF Body, Demand
<1>6. p.kind = "Response" =>
        /\ Body(p) = Always(Imp(P, Us(t, z, S)))
        /\ Demand(p, s) <=> \A i \in A : Arrivals(t, Z, B, s, i) # {}
  BY DEF Body, Demand
<1>7. /\ p.kind \in {"Universality", "Absence", "Existence", "Recurrence", "Precedence", "Response",
                     "ResponseInvariance", "Until", "MaximumDuration", "MinimunDuration"}
      /\ p.kind = "MinimunDuration" => t.lo = None
  BY DEF Translated, Chained, Upper
<1> HIDE DEF P, S, A, B, t, z, Z
<1>8. \A w \in Windows, i \in DataRow : Ahead(w, s, i) \subseteq DataRow /\ Behind(w, s, i) \subseteq DataRow
  BY LookedAt
<1>9. ASSUME NEW e \in Trees
      PROVE  Always(e) \in Trees /\ (1 \in Sat(Always(e), s, 1) <=> \A i \in DataRow : i \in Sat(e, s, 1))
  BY <1>0, SatAlways
<1>10. /\ G(t, P) \in Trees /\ Sat(G(t, P), s, 1) = {i \in DataRow : Ahead(t, s, i) \subseteq A}
       /\ F(t, P) \in Trees /\ Sat(F(t, P), s, 1) = {i \in DataRow : Ahead(t, s, i) \cap A # {}}
       /\ Not(P) \in Trees /\ Sat(Not(P), s, 1) = DataRow \ A
  BY <1>0, <1>1, SatOver
<1>11. CASE p.kind \in {"Universality", "Existence"}
  BY <1>3, <1>10, <1>11
<1>12. CASE p.kind = "Absence"
  <2>1. Sat(G(t, Not(P)), s, 1) = {i \in DataRow : Ahead(t, s, i) \subseteq DataRow \ A}
    BY <1>0, <1>10, SatOver
  <2>2. Ahead(t, s, 1) \subseteq DataRow
    BY <1>0, <1>8
  <2> QED BY <1>3, <1>12, <2>1, <2>2
<1>13. CASE p.kind = "Recurrence"
  <2>1. 1 \in Sat(Always(F(t, P)), s, 1) <=> \A i \in DataRow : i \in Sat(F(t, P), s, 1)
    BY <1>9, <1>10
  <2> QED BY <1>4, <1>10, <1>13, <2>1
<1>14. CASE p.kind = "Precedence"
  <2>1. Once(t, S) \in Trees /\ Sat(Once(t, S), s, 1) = {i \in DataRow : Behind(t, s, i) \cap B # {}}
    BY <1>0, <1>1, SatOver
  <2>2. /\ Imp(P, Once(t, S)) \in Trees
        /\ Sat(Imp(P, Once(t, S)), s, 1) = (DataRow \ A) \cup Sat(Once(t, S), s, 1)
    BY <1>0, <1>1, <2>1, SatJoined
  <2>3. 1 \in Sat(Body(p), s, 1) <=> \A i \in DataRow : i \in Sat(Imp(P, Once(t, S)), s, 1)
    BY <1>5, <1>9, <1>14, <2>2
  <2> QED BY <1>1, <1>5, <1>14, <2>1, <2>2, <2>3
<1>15. CASE p.kind = "ResponseInvariance"
  <2>1. G(t, S) \in Trees /\ Sat(G(t, S), s, 1) = {i \in DataRow : Ahead(t, s, i) \subseteq B}
    BY <1>0, <1>1, SatOver
  <2>2. /\ Imp(P, G(t, S)) \in Trees
        /\ Sat(Imp(P, G(t, S)), s, 1) = (DataRow \ A) \cup Sat(G(t, S), s, 1)
    BY <1>0, <1>1, <2>1, SatJoined
  <2>3. 1 \in Sat(Body(p), s, 1) <=> \A i \in DataRow : i \in Sat(Imp(P, G(t, S)), s, 1)
    BY <1>5, <1>9, <1>15, <2>2
  <2> QED BY <1>1, <1>5, <1>15, <2>1, <2>2, <2>3
<1>16. CASE p.kind = "Until"
  <2>1. A = Sat(P, s, 1) /\ B = Sat(S, s, 1)
    BY <1>1
  <2>2. \A i \in DataRow : i \in Sat(Us(t, P, S), s, 1) <=> Arrivals(t, DataRow \ A, B, s, i) # {}
    BY <1>0, <1>1, <2>1, SatUntil
  <2> QED BY <1>5, <1>16, <2>2
<1>17. CASE p.kind = "Response"
  <2> DEFINE Y == DataRow \ Z
  <2>1. /\ Us(t, z, S) \in Trees
        /\ \A i \in DataRow : i \in Sat(Us(t, z, S), s, 1) <=> Arrivals(t, DataRow \ Y, B, s, i) # {}
    <3>1. Y = Sat(z, s, 1) /\ B = Sat(S, s, 1)
      BY <1>1, <1>2
    <3> HIDE DEF Y
    <3> QED BY <1>0, <1>1, <1>2, <3>1, SatUntil
  <2>2. ASSUME NEW i \in DataRow PROVE Arrivals(t, DataRow \ Y, B, s, i) = Arrivals(t, Z, B, s, i)
    <3>1. \A k \in DataRow : k \in DataRow \ Y <=> k \in Z
      OBVIOUS
    <3> HIDE DEF Y
    <3> QED BY <1>0, <3>1, SameArrivals
  <2>3. /\ Imp(P, Us(t, z, S)) \in Trees
        /\ Sat(Imp(P, Us(t, z, S)), s, 1) = (DataRow \ A) \cup Sat(Us(t, z, S), s, 1)
    BY <1>0, <1>1, <2>1, SatJoined
  <2>4. 1 \in Sat(Body(p), s, 1) <=> \A i \in DataRow : i \in Sat(Imp(P, Us(t, z, S)), s, 1)
    BY <1>6, <1>9, <1>17, <2>3
  <2> QED BY <1>1, <1>6, <1>17, <2>1, <2>2, <2>3, <2>4
<1>18. ASSUME NEW g \in Trees, NEW C, C = Sat(g, s, 1),
              \A i \in DataRow : i \in C /\ i \notin A /\ i + 1 \in A => i + 1 \in C
       PROVE  LET e == Or(P, Uw(NoWindow, Not(P), g))
              IN  1 \in Sat(Always(e), s, 1) <=> Rises(A) \subseteq C
  <2> DEFINE u == Uw(NoWindow, Not(P), g)
             Y == DataRow \ A
  <2>1. Not(P) \in Trees /\ Y = Sat(Not(P), s, 1) /\ C = Sat(g, s, 1)
    BY <1>10, <1>18
  <2> HIDE DEF Y
  <2>2. u \in Trees /\ Sat(u, s, 1) = Awaited(Y, C, s)
    BY <1>0, <1>18, <2>1, SatWeak
  <2> HIDE DEF u
  <2>3. Or(P, u) \in Trees /\ Sat(Or(P, u), s, 1) = A \cup Sat(u, s, 1)
    BY <1>0, <1>1, <2>2, SatJoined
  <2>4. 1 \in Sat(Always(Or(P, u)), s, 1) <=> \A i \in DataRow : i \in A \cup Awaited(Y, C, s)
    BY <1>9, <2>2, <2>3
  <2>5. C \subseteq DataRow
    BY <1>0, <1>18, SatRewritten
  <2>6. (\A i \in DataRow : i \in A \cup Awaited(Y, C, s)) <=> Rises(A) \subseteq C
    BY <1>1, <1>18, <2>5, UntilRise DEF Y
  <2> QED BY <2>4, <2>6 DEF u
<1>19. Rises(A) \subseteq A /\ Rises(A) \subseteq DataRow
  BY <1>1 DEF Rises
<1>20. CASE p.kind = "MinimunDuration"
  <2> DEFINE C == Sat(G(t, P), s, 1)
  <2>1. C = {i \in DataRow : Ahead(t, s, i) \subseteq A}
    BY <1>10
  <2>2. ASSUME NEW i \in DataRow, i \in C, i \notin A, i + 1 \in A PROVE i + 1 \in C
    <3>1. i + 1 \in DataRow /\ i \notin Ahead(t, s, i)
      BY <1>1, <2>1, <2>2
    <3>2. Ahead(t, s, i + 1) \subseteq Ahead(t, s, i)
      BY <1>0, <1>7, <1>20, <3>1, HiddenRow
    <3> QED BY <2>1, <2>2, <3>1, <3>2
  <2>3. 1 \in Sat(Body(p), s, 1) <=> Rises(A) \subseteq C
    BY <1>4, <1>10, <1>18, <1>20, <2>2
  <2> QED BY <1>4, <1>19, <1>20, <2>1, <2>3
<1>21. CASE p.kind = "MaximumDuration"
  <2> DEFINE f == F(t, Not(P))
             g == And(P, F(t, Not(P)))
             C == Sat(g, s, 1)
  <2>1. f \in Trees /\ Sat(f, s, 1) = {i \in DataRow : Ahead(t, s, i) \cap (DataRow \ A) # {}}
    BY <1>0, <1>10, SatOver
  <2> HIDE DEF f
  <2>2. And(P, f) \in Trees /\ Sat(And(P, f), s, 1) = A \cap Sat(f, s, 1)
    BY <1>0, <1>1, <2>1, SatJoined
  <2>3. \A i : i \in C <=> i \in A /\ ~(Ahead(t, s, i) \subseteq A)
    BY <1>0, <1>1, <1>8, <2>1, <2>2 DEF f
  <2>4. g \in Trees
    BY <2>2 DEF f
  <2>5. 1 \in Sat(Body(p), s, 1) <=> Rises(A) \subseteq C
    <3> HIDE DEF C
    <3>1. \A i \in DataRow : i \in C /\ i \notin A /\ i + 1 \in A => i + 1 \in C
      BY <2>3
    <3>2. C = Sat(g, s, 1)
      BY DEF C
    <3> QED BY <1>4, <1>18, <1>21, <2>4, <3>1, <3>2
  <2> QED BY <1>4, <1>19, <1>21, <2>3, <2>5
<1> QED BY <1>7, <1>11, <1>12, <1>13, <1>14, <1>15, <1>16, <1>17, <1>20, <1>21

(* A leg without a bound and without a constraint, from the row behind.    *)
LEMMA SatFree ==
  ASSUME AllTrees, Operands = [Row -> BOOLEAN], NEW s, Timely(s), NEW n \in Trees, Sat(n, s, 1) = DataRow,
         NEW f \in Trees, NEW V, V = Sat(f, s, 1)
  PROVE  /\ Us(NoWindow, n, f) \in Trees
         /\ \A i \in DataRow : i \in Sat(Us(NoWindow, n, f), s, 1) <=> Arrivals(NoWindow, {}, V, s, i) # {}
<1>0. NoWindow \in Windows
  BY RowTypes
<1> DEFINE X == Sat(n, s, 1)
           Y == DataRow \ X
<1>1. X = Sat(n, s, 1)
  OBVIOUS
<1>2. \A k \in DataRow : k \in DataRow \ X <=> k \in {}
  OBVIOUS
<1> HIDE DEF X
<1>3. ASSUME NEW w \in Windows, w = NoWindow
      PROVE  /\ Us(w, n, f) \in Trees
             /\ \A i \in DataRow : i \in Sat(Us(w, n, f), s, 1) <=> Arrivals(w, Y, V, s, i) # {}
  <2>1. V = Sat(f, s, 1)
    OBVIOUS
  <2>2. Us(w, n, f) \in Trees
    BY <1>1, <2>1, SatUntil
  <2> QED BY <1>1, <2>1, <2>2, SatUntil
<1>4. \A k \in DataRow : k \in Y <=> k \in {}
  BY <1>2
<1> HIDE DEF Y
<1>5. \A i \in DataRow : Arrivals(NoWindow, Y, V, s, i) = Arrivals(NoWindow, {}, V, s, i)
  BY <1>0, <1>4, SameArrivals
<1>6. /\ Us(NoWindow, n, f) \in Trees
      /\ \A i \in DataRow : i \in Sat(Us(NoWindow, n, f), s, 1) <=> Arrivals(NoWindow, Y, V, s, i) # {}
  BY <1>0, <1>3
<1> QED BY <1>5, <1>6

LEMMA SatLater ==
  ASSUME AllTrees, Operands = [Row -> BOOLEAN], NEW s, Timely(s), NEW n \in Trees, Sat(n, s, 1) = DataRow,
         NEW f \in Trees, NEW V, V = Sat(f, s, 1)
  PROVE  /\ Xs(Us(NoWindow, n, f)) \in Trees
         /\ \A i \in DataRow : i \in Sat(Xs(Us(NoWindow, n, f)), s, 1) <=> LaterArrivals(NoWindow, {}, V, s, i) # {}
<1>0. Segment(s) /\ NoWindow \in Windows
  BY RowTypes DEF Timely
<1> DEFINE u == Us(NoWindow, n, f)
<1>1. u \in Trees /\ \A i \in DataRow : i \in Sat(u, s, 1) <=> Arrivals(NoWindow, {}, V, s, i) # {}
  BY SatFree
<1> HIDE DEF u
<1>2. Xs(u) \in Trees /\ Sat(Xs(u), s, 1) = {i \in DataRow : i + 1 \in Sat(u, s, 1)}
  BY <1>0, <1>1, SatOver
<1>3. Sat(u, s, 1) \subseteq DataRow
  BY <1>0, <1>1, SatRewritten
<1>4. \A i \in DataRow : i \in Sat(Xs(u), s, 1) <=> LaterArrivals(NoWindow, {}, V, s, i) # {}
  BY <1>1, <1>2, <1>3 DEF LaterArrivals
<1> QED BY <1>2, <1>4 DEF u

(* The formulas of the two response chains.                                *)
LEMMA ChainMeaning ==
  ASSUME AllTrees, Operands = [Row -> BOOLEAN], 1 \in DataRow, NEW p, Written(p), Translated(p),
         p.kind \in Chained, NEW s, Timely(s)
  PROVE  1 \in Sat(Body(p), s, 1) <=> Demand(p, s)
<1> DEFINE P == Rewritten(p.P)
           S == Rewritten(p.S)
           T == Rewritten(p.T)
           A == Sat(p.P, s, 1)
           B == Sat(p.S, s, 1)
           C == Sat(p.T, s, 1)
           t == p.t[1]
           z == Not(Made(p.c[1]))
           n == Not(False)
           Z == IF p.c[1] = None THEN {} ELSE Sat(p.c[1], s, 1)
           Free(V, i) == LaterArrivals(NoWindow, {}, V, s, i)
<1>0. Segment(s) /\ t \in Windows /\ NoWindow \in Windows
  BY RowTypes DEF Timely, Written
<1>1. /\ P \in Trees /\ Sat(P, s, 1) = A /\ A \subseteq DataRow
      /\ S \in Trees /\ Sat(S, s, 1) = B /\ B \subseteq DataRow
      /\ T \in Trees /\ Sat(T, s, 1) = C /\ C \subseteq DataRow
  BY <1>0, SatRewritten DEF Written
<1>2. z \in Trees /\ Sat(z, s, 1) = DataRow \ Z /\ Z \subseteq DataRow
  BY <1>0, SatMade DEF Written
<1>3. n \in Trees /\ Sat(n, s, 1) = DataRow
  <2>1. Not(Made(None)) \in Trees /\ Sat(Not(Made(None)), s, 1) = DataRow \ {}
    BY <1>0, SatMade
  <2> QED BY <2>1 DEF Made, Absent
<1>4. p.kind = "ResponseChain12" =>
        /\ Body(p) = Always(Imp(P, Us(t, z, And(And(S, n), Xs(Us(NoWindow, n, T))))))
        /\ Demand(p, s) <=> \A i \in A : \E j \in Arrivals(t, Z, B, s, i) : Free(C, j) # {}
  BY DEF Body, Demand, CST, Made, Absent, Translated
<1>5. p.kind = "ResponseChain21" =>
        /\ Body(p) = Always(Imp(And(And(S, n), Xs(Us(NoWindow, n, And(T, n)))),
                                Xs(Us(NoWindow, n, And(T, Us(NoWindow, n, P))))))
        /\ Demand(p, s) <=> \A i \in B : Free(C, i) # {} =>
                              \E j \in Free(C, i) : Arrivals(NoWindow, {}, A, s, j) # {}
  BY DEF Body, Demand, CST, Made, Absent, Translated
<1> HIDE DEF P, S, T, A, B, C, t, z, n, Z
<1>6. ASSUME NEW e \in Trees
      PROVE  1 \in Sat(Always(e), s, 1) <=> \A i \in DataRow : i \in Sat(e, s, 1)
  BY <1>0, SatAlways
<1>7. And(S, n) \in Trees /\ Sat(And(S, n), s, 1) = B
  <2>1. And(S, n) \in Trees /\ Sat(And(S, n), s, 1) = B \cap DataRow
    BY <1>0, <1>1, <1>3, SatJoined
  <2> QED BY <1>1, <2>1
<1>8. CASE p.kind = "ResponseChain12"
  <2> DEFINE x == Xs(Us(NoWindow, n, T))
             g == And(And(S, n), x)
             u == Us(t, z, g)
             E == Sat(g, s, 1)
             Y == DataRow \ Z
  <2>1. x \in Trees /\ \A i \in DataRow : i \in Sat(x, s, 1) <=> Free(C, i) # {}
    BY <1>1, <1>3, SatLater
  <2> HIDE DEF x
  <2>2. g \in Trees /\ Sat(g, s, 1) = B \cap Sat(x, s, 1)
    BY <1>0, <1>7, <2>1, SatJoined
  <2> HIDE DEF g
  <2>3. Y = Sat(z, s, 1) /\ \A k \in DataRow : k \in DataRow \ Y <=> k \in Z
    BY <1>2
  <2>4. \A i : i \in E <=> i \in B /\ Free(C, i) # {}
    <3>1. B \subseteq DataRow
      BY <1>1
    <3>2. \A i : i \in E <=> i \in B /\ i \in Sat(x, s, 1)
      BY <2>2
    <3>3. \A i \in B : i \in Sat(x, s, 1) <=> Free(C, i) # {}
      BY <2>1, <3>1
    <3> QED BY <3>2, <3>3
  <2>5. E = Sat(g, s, 1)
    OBVIOUS
  <2> HIDE DEF E, Y
  <2>6. u \in Trees /\ \A i \in DataRow : i \in Sat(u, s, 1) <=> Arrivals(t, DataRow \ Y, E, s, i) # {}
    BY <1>0, <1>2, <2>2, <2>3, <2>5, SatUntil, ZenonT(60)
  <2> HIDE DEF u
  <2>7. \A i \in DataRow : Arrivals(t, DataRow \ Y, E, s, i) = Arrivals(t, Z, E, s, i)
    BY <1>0, <2>3, SameArrivals
  <2>8. \A i \in DataRow : Arrivals(t, Z, E, s, i) # {} <=> \E j \in Arrivals(t, Z, B, s, i) : Free(C, j) # {}
    BY <2>4 DEF Arrivals
  <2>9. Imp(P, u) \in Trees /\ Sat(Imp(P, u), s, 1) = (DataRow \ A) \cup Sat(u, s, 1)
    BY <1>0, <1>1, <2>6, SatJoined
  <2>10. 1 \in Sat(Body(p), s, 1) <=> \A i \in DataRow : i \in Sat(Imp(P, u), s, 1)
    BY <1>4, <1>6, <1>8, <2>9 DEF u, g, x
  <2> QED BY <1>1, <1>4, <1>8, <2>6, <2>7, <2>8, <2>9, <2>10
<1>9. CASE p.kind = "ResponseChain21"
  <2> DEFINE g == And(T, n)
             x == Xs(Us(NoWindow, n, g))
             u == Us(NoWindow, n, P)
             h == And(T, u)
             y == Xs(Us(NoWindow, n, h))
             e == And(And(S, n), x)
             E == Sat(h, s, 1)
  <2>1. g \in Trees /\ C = Sat(g, s, 1)
    <3>1. g \in Trees /\ Sat(g, s, 1) = C \cap DataRow
      BY <1>0, <1>1, <1>3, SatJoined
    <3> QED BY <1>1, <3>1
  <2> HIDE DEF g
  <2>2. x \in Trees /\ \A i \in DataRow : i \in Sat(x, s, 1) <=> Free(C, i) # {}
    BY <1>3, <2>1, SatLater
  <2> HIDE DEF x
  <2>3. u \in Trees /\ \A i \in DataRow : i \in Sat(u, s, 1) <=> Arrivals(NoWindow, {}, A, s, i) # {}
    BY <1>1, <1>3, SatFree
  <2> HIDE DEF u
  <2>4. h \in Trees /\ Sat(h, s, 1) = C \cap Sat(u, s, 1)
    BY <1>0, <1>1, <2>3, SatJoined
  <2>5. E = Sat(h, s, 1)
    OBVIOUS
  <2>6. \A i : i \in E <=> i \in C /\ Arrivals(NoWindow, {}, A, s, i) # {}
    BY <1>1, <2>3, <2>4
  <2> HIDE DEF h, E
  <2>7. y \in Trees /\ \A i \in DataRow : i \in Sat(y, s, 1) <=> Free(E, i) # {}
    BY <1>3, <2>4, <2>5, SatLater
  <2> HIDE DEF y
  <2>8. e \in Trees /\ Sat(e, s, 1) = B \cap Sat(x, s, 1)
    BY <1>0, <1>7, <2>2, SatJoined
  <2> HIDE DEF e
  <2>9. Imp(e, y) \in Trees /\ Sat(Imp(e, y), s, 1) = (DataRow \ Sat(e, s, 1)) \cup Sat(y, s, 1)
    BY <1>0, <2>7, <2>8, SatJoined
  <2>10. 1 \in Sat(Body(p), s, 1) <=> \A i \in DataRow : i \in Sat(Imp(e, y), s, 1)
    BY <1>5, <1>6, <1>9, <2>9 DEF e, y, h, u, x, g
  <2>11. \A i \in DataRow : Free(E, i) # {} <=> \E j \in Free(C, i) : Arrivals(NoWindow, {}, A, s, j) # {}
    BY <2>6 DEF LaterArrivals, Arrivals
  <2> QED BY <1>1, <1>5, <1>9, <2>2, <2>7, <2>8, <2>9, <2>10, <2>11
<1> QED BY <1>8, <1>9 DEF Chained

(* The formula a pattern is translated to holds of exactly the segments    *)
(* its sentence describes, for every sentence whose bounds its rule in the *)
(* grammar allows and whose chain has nothing on the legs its constructor  *)
(* mixes up.                                                               *)
THEOREM PatternIsMeant ==
  ASSUME AllTrees, AllWritten, Operands = [Row -> BOOLEAN], N > 1,
         \A p \in Statements : p.kind # "Expression" =>
           Translated(p) /\ \A s \in Segments(p) : Timely(s)
  PROVE  Spec => []PatternMeaning
<1>1. Progress => PatternMeaning
  <2> SUFFICES ASSUME Progress, stage = "emitted", statement.kind # "Expression",
                      NEW s \in Segments(statement)
               PROVE  1 \in Sat(compiled, s, 1) <=> Demand(statement, s)
    BY DEF PatternMeaning
  <2>1. /\ statement \in Statements /\ Written(statement) /\ Sound(statement)
        /\ Translated(statement) /\ Timely(s) /\ Segment(s)
    BY DEF Progress, AllWritten
  <2>2. 1 \in DataRow /\ 1 \in Row
    BY TraceAssumption DEF DataRow, Row
  <2>3. compiled = Canonic[Body(statement)] /\ Body(statement) \in Trees
    BY <2>1, CodeNormal DEF Progress, Code
  <2>4. Sat(compiled, s, 1) = Sat(Body(statement), s, 1)
    BY <2>1, <2>2, <2>3, CanonicKeepsMeaning
  <2>5. 1 \in Sat(Body(statement), s, 1) <=> Demand(statement, s)
    BY <2>1, <2>2, BodyMeaning, ChainMeaning
  <2> QED BY <2>4, <2>5
<1> QED BY <1>1, Progressing, PTL
============================================================================
