----------------------------- MODULE Statement -----------------------------
(***************************************************************************)
(* A statement on its way from the parser to the code generator: either a  *)
(* formula, or a sentence that names a property pattern.  A sentence has   *)
(* its expressions P, S and T, two legs (between P and S, S and T, ...),   *)
(* each with a time bound and a constraint "without Z holding in between", *)
(* and the conditions of the scopes around it.  A formula is rewritten     *)
(* before it is compiled, and so is the formula a pattern stands for; the  *)
(* conditions of the scopes are compiled as they were parsed.              *)
(***************************************************************************)
EXTENDS Rewrite

CONSTANTS
  Statements,   \* the statements of the program
  Segments(_)   \* the segments a statement is judged on

VARIABLES
  statement,   \* as written
  stage,       \* how far it has come
  compiled     \* the formula the code generator gets; None before

vars == <<statement, stage, compiled>>

Stages == {"written", "accepted", "rejected", "emitted", "no visitor"}

Sentence(kind, P, S, T, t, c, scope) ==
  [kind |-> kind, P |-> P, S |-> S, T |-> T, t |-> t, c |-> c, scope |-> scope]

Expression(e) == Sentence("Expression", e, True, True, <<NoWindow, NoWindow>>, <<None, None>>, <<>>)

----------------------------------------------------------------------------
(* The constraints of the syntax tree.  The constructors of both response  *)
(* chains initialise cST, the constraint between S and T, with the time    *)
(* bound tST of that leg.                                                  *)
CST(p) == IF p.kind = "ResponseChain12" THEN p.t[2] ELSE p.t[1]

Constraints(p) ==
  CASE p.kind = "Response"        -> {p.c[1]}
    [] p.kind = "ResponseChain12" -> {p.c[1], CST(p)}
    [] p.kind = "ResponseChain21" -> {CST(p), p.c[2]}
    [] OTHER -> {}

Conditions(p) == {p.scope[k] : k \in DOMAIN p.scope}

(* is_temporal: the operators that take a time bound, not Xs, Xw, Ys, Yw. *)
Temporal(e) == Operators[e] \cap Timed # {}

(* A constraint must be Boolean, which a time bound is not. *)
Absent == {None, NoWindow}

(* A slip to test the properties with: a constraint that must be there. *)
WellTypedNeedsOne(c) == c \notin Absent /\ "op" \in DOMAIN c

WellTyped(c) == c \in Absent \/ "op" \in DOMAIN c

Sound(p) ==
  /\ p.kind # "Expression" => \A e \in {p.P, p.S, p.T} \cup Conditions(p) : ~Temporal(e)
  /\ \A c \in Constraints(p) : WellTyped(c)

(* The builder puts every connective in parentheses. *)
And(e, f)   == Unary("Paren", Binary("And", e, f))
Or(e, f)    == Unary("Paren", Binary("Or", e, f))
Imp(e, f)   == Unary("Paren", Binary("Imp", e, f))
Not(e)      == Unary("Paren", Unary("Not", e))
G(t, e)     == Node("G", t, <<e>>)
F(t, e)     == Node("F", t, <<e>>)
Once(t, e)  == Node("O", t, <<e>>)
(* A slip to test the properties with: the operands the wrong way round. *)
UsSwapped(t, e, f) == Node("Us", t, <<f, e>>)

Us(t, e, f) == Node("Us", t, <<e, f>>)
Uw(t, e, f) == Node("Uw", t, <<e, f>>)
Xs(e)       == Node("Xs", 1, <<e>>)

Always(e) == G(NoWindow, e)

(* make(nullptr) is false. *)
Made(c) == IF c \in Absent THEN False ELSE Rewritten(c)

(* RewriteImpl::visit of a pattern; one that has no visitor of its own is  *)
(* taken for a plain Spec, and that is true.                               *)
Body(p) ==
  LET P   == Rewritten(p.P)
      S   == Rewritten(p.S)
      T   == Rewritten(p.T)
      t1  == p.t[1]
      t2  == p.t[2]
      nZ1 == Not(Made(p.c[1]))
      nZ2 == Not(Made(p.c[2]))
      nST == Not(Made(CST(p)))
  IN CASE p.kind = "Universality"       -> G(t1, P)
       [] p.kind = "Absence"            -> G(t1, Not(P))
       [] p.kind = "Existence"          -> F(t1, P)
       [] p.kind = "MaximumDuration"    -> Always(Or(P, Uw(NoWindow, Not(P), And(P, F(t1, Not(P))))))
       [] p.kind = "MinimunDuration"    -> Always(Or(P, Uw(NoWindow, Not(P), G(t1, P))))
       [] p.kind = "Precedence"         -> Always(Imp(P, Once(t1, S)))
       [] p.kind = "Recurrence"         -> Always(F(t1, P))
       [] p.kind = "Response"           -> Always(Imp(P, Us(t1, nZ1, S)))
       [] p.kind = "ResponseInvariance" -> Always(Imp(P, G(t1, S)))
       [] p.kind = "Until"              -> Us(t1, P, S)
       [] p.kind = "ResponseChain12" ->
            Always(Imp(P, Us(t1, nZ1, And(And(S, nST), Xs(Us(t2, nST, T))))))
       [] p.kind = "ResponseChain21" ->
            Always(Imp(And(And(S, nST), Xs(Us(t2, nST, And(T, nZ2)))),
                       Xs(Us(t1, nST, And(T, Us(t2, nZ2, P))))))
       [] OTHER -> True

(* A slip to test the properties with: the pattern's formula as it is. *)
CodeNotCanonic(p) == IF p.kind = "Expression" THEN Rewritten(p.P) ELSE Body(p)

Code(p) == IF p.kind = "Expression" THEN Rewritten(p.P) ELSE Canonic[Body(p)]

----------------------------------------------------------------------------
Init ==
  /\ statement \in Statements
  /\ stage = "written"
  /\ compiled = None

(* Antlr2AST::visitStatement: build the tree and calculate its types. *)
Accept ==
  /\ stage = "written"
  /\ stage' = IF Sound(statement) THEN "accepted" ELSE "rejected"
  /\ UNCHANGED <<statement, compiled>>

(* Compile::make *)
Emit ==
  LET code == Code(statement)
  IN  /\ stage = "accepted"
      /\ stage' = IF \A e \in {code} \cup Conditions(statement) : Compiles(e)
                    THEN "emitted" ELSE "no visitor"
      /\ compiled' = code
      /\ UNCHANGED statement

Next == Accept \/ Emit

Spec == Init /\ [][Next]_vars

----------------------------------------------------------------------------
(* The rewriting changes nothing a trace can show: at every row of every   *)
(* segment the formula that is compiled holds where the one that was       *)
(* written does.                                                           *)
MeaningKept ==
  stage = "emitted" /\ statement.kind = "Expression" =>
    \A s \in Segments(statement) : Sat(compiled, s, 1) = Sat(statement.P, s, 1)

(* Whatever the three rewriters hand to each other, the code generator     *)
(* has a visitor for every operator of the result: if one is missing, then *)
(* for the condition of a scope, which was never rewritten.                *)
Compilable == stage = "no visitor" => \E e \in Conditions(statement) : ~Compiles(e)

(* Compile::make rewrites a formula once, but RewriteImpl rewrites again   *)
(* what parentheses enclose: a second pass must find nothing to do.        *)
Settled == stage = "emitted" => Rewritten(compiled) = compiled

----------------------------------------------------------------------------
(* What a sentence demands of a segment, in terms of its rows and not of   *)
(* the operators the pattern is translated to.                             *)

(* The rows where a leg that leaves row i with bound t can arrive at V     *)
(* without Z holding in between.                                           *)
Arrivals(t, Z, V, s, i) ==
  {j \in Ahead(t, s, i) \cap V : \A k \in Ahead(t, s, i) : k < j => k \notin Z}

(* A leg that has to start behind row i. *)
LaterArrivals(t, Z, V, s, i) ==
  IF i + 1 \in DataRow THEN Arrivals(t, Z, V, s, i + 1) ELSE {}

(* The rows at which V becomes satisfied. *)
Rises(V) == {j \in V : j - 1 \in DataRow \ V}

Demand(p, s) ==
  LET P  == Sat(p.P, s, 1)
      S  == Sat(p.S, s, 1)
      T  == Sat(p.T, s, 1)
      t1 == p.t[1]
      t2 == p.t[2]
      Z(k) == IF p.c[k] = None THEN {} ELSE Sat(p.c[k], s, 1)
  IN CASE p.kind = "Universality"       -> Ahead(t1, s, 1) \subseteq P
       [] p.kind = "Absence"            -> Ahead(t1, s, 1) \cap P = {}
       [] p.kind = "Existence"          -> Ahead(t1, s, 1) \cap P # {}
       [] p.kind = "SteadyState"        -> \E i \in DataRow : i..(N - 1) \subseteq P
       [] p.kind = "MinimunDuration"    -> \A j \in Rises(P) : Ahead(t1, s, j) \subseteq P
       [] p.kind = "MaximumDuration"    -> \A j \in Rises(P) : ~(Ahead(t1, s, j) \subseteq P)
       [] p.kind = "Recurrence"         -> \A i \in DataRow : Ahead(t1, s, i) \cap P # {}
       [] p.kind = "Precedence"         -> \A i \in P : Behind(t1, s, i) \cap S # {}
       [] p.kind = "PrecedenceChain12"  ->
            \A i \in S, j \in T : i < j => \E k \in P : k <= j
       [] p.kind = "PrecedenceChain21"  ->
            \A i \in P : \E j \in S, k \in T : j < k /\ k <= i
       [] p.kind = "Response"           -> \A i \in P : Arrivals(t1, Z(1), S, s, i) # {}
       [] p.kind = "ResponseInvariance" -> \A i \in P : Ahead(t1, s, i) \subseteq S
       [] p.kind = "Until"              -> Arrivals(t1, DataRow \ P, S, s, 1) # {}
       [] p.kind = "ResponseChain12"    ->
            \A i \in P : \E j \in Arrivals(t1, Z(1), S, s, i) : LaterArrivals(t2, Z(2), T, s, j) # {}
       [] p.kind = "ResponseChain21"    ->
            \A i \in S : LET ends == LaterArrivals(t1, Z(1), T, s, i)
                         IN  ends # {} => \E j \in ends : Arrivals(t2, Z(2), P, s, j) # {}

(* The formula a pattern is translated to holds of exactly the segments    *)
(* its sentence describes.                                                 *)
PatternMeaning ==
  stage = "emitted" /\ statement.kind # "Expression" =>
    \A s \in Segments(statement) : 1 \in Sat(compiled, s, 1) <=> Demand(statement, s)

(* assert_non_temporal names the one thing a sentence may not contain.     *)
(* Nothing else is rejected but a response chain with a time bound on its  *)
(* leg from S to T, which is taken for the constraint of that leg.         *)
OnlyTemporalRejected ==
  stage = "rejected" =>
    \/ \E e \in {statement.P, statement.S, statement.T} \cup Conditions(statement) : Temporal(e)
    \/ statement.kind = "ResponseChain12" /\ statement.t[2] # NoWindow
    \/ statement.kind = "ResponseChain21" /\ statement.t[1] # NoWindow
============================================================================
