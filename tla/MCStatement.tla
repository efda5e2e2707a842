---------------------------- MODULE MCStatement ----------------------------
(***************************************************************************)
(* Every operator over every operator, on either side, with a negation     *)
(* above, between, or both; every pattern with every form of time bound    *)
(* its grammar rule has; and up to two scopes with conditions of all       *)
(* sorts.  The segments have three data rows and every valuation of the    *)
(* items: the two of a formula, on rows two of which have one time stamp,  *)
(* or the three of a pattern, on those and on rows with distinct time      *)
(* stamps.                                                                 *)
(***************************************************************************)
EXTENDS Statement, TLC

LOCAL INSTANCE SequencesExt

MCData == {"a", "b", "c"}
MCTime == 0..4
MCOffset == 0..3
MCOperands == [0..4 -> BOOLEAN]
MCTrees == Any

A == Item("a")
B == Item("b")
C == Item("c")

----------------------------------------------------------------------------
Over(e, f) ==
  {Unary(op, e) : op \in {"Paren", "Not", "At"}}
  \cup {Binary(op, e, f) : op \in {"And", "Or", "Imp", "Equ", "Xor", "Eq", "Ne",
                                   "Lt", "Le", "Gt", "Ge"}}
  \cup {Node(op, 1, <<e>>) : op \in {"Xs", "Xw", "Ys", "Yw"}}
  \cup {Node(op, w, <<e>>) : op \in {"G", "F", "H", "O"}, w \in {NoWindow, Window(1, 2)}}
  \cup {Node(op, w, <<e, f>>) : op \in FutureOps \cup PastOps, w \in {NoWindow, Window(0, 2)}}
  \cup {Node("Choice", None, <<e, f, Bound("a")>>)}

MCFormulas ==
  LET plain == {True, False, Bound("a")} \cup Over(A, B)
      inner == plain \cup {Unary("Not", e) : e \in plain}
      outer == UNION {Over(g, B) \cup Over(A, g) : g \in inner}
  IN  {Expression(e) : e \in outer \cup {Unary("Not", f) : f \in outer}}

----------------------------------------------------------------------------
Upper    == {Window(None, n) : n \in 1..2}
Lower    == {Window(n, None) : n \in 1..2}
Interval == {Window(1, 2), Window(0, 3)}

IntervalBound  == Interval \cup {NoWindow}
TimeBound      == Upper \cup Lower \cup IntervalBound

Constraint == {None, A, C}

(* The sentence of a pattern with one leg. *)
Simple(kind, P, S, t, Z) == Sentence(kind, P, S, True, <<t, NoWindow>>, <<Z, None>>, <<>>)

Chain(kind, P, S, T, t1, t2, Z1, Z2) == Sentence(kind, P, S, T, <<t1, t2>>, <<Z1, Z2>>, <<>>)

Subjects == {A, Unary("Not", A), Binary("Imp", A, B), Node("Xs", 1, <<A>>)}

MCPatterns ==
  {Simple(kind, P, True, t, None) :
     kind \in {"Universality", "Absence", "Existence"}, P \in Subjects, t \in TimeBound}
  \cup {Simple(kind, P, True, t, None) :
     kind \in {"MinimunDuration", "MaximumDuration", "Recurrence"}, P \in Subjects, t \in Upper}
  \cup {Simple("Precedence", P, B, t, None) : P \in Subjects, t \in IntervalBound}
  \cup {Simple("Response", P, B, t, Z) : P \in Subjects, t \in TimeBound, Z \in Constraint}
  \cup {Simple(kind, P, B, t, None) :
     kind \in {"ResponseInvariance", "Until"}, P \in Subjects, t \in TimeBound}
  \cup {Chain("ResponseChain12", A, B, C, t, NoWindow, Z, None) : t \in TimeBound, Z \in Constraint}
  \cup {Chain("ResponseChain21", C, A, B, NoWindow, NoWindow, None, None)}
  \cup {Simple("Universality", Node("G", NoWindow, <<A>>), True, NoWindow, None)}

(* A chain with something on the leg between S and T. *)
MCConstrained ==
  {Chain("ResponseChain12", A, B, C, NoWindow, NoWindow, None, Z) : Z \in {A, Unary("Not", A)}}
  \cup {Chain("ResponseChain21", C, A, B, NoWindow, NoWindow, Z, None) : Z \in {C, Unary("Not", C)}}

(* A chain with a bound on the leg between S and T. *)
MCBounded ==
  {Chain("ResponseChain12", A, B, C, NoWindow, t, None, None) : t \in TimeBound}
  \cup {Chain("ResponseChain21", C, A, B, t, NoWindow, None, None) : t \in TimeBound}

(* A chain with a bound on the leg between T and P. *)
MCAnswered ==
  {Chain("ResponseChain21", C, A, B, NoWindow, t, None, None) : t \in TimeBound}

(* The patterns without a visitor of their own that name no duration. *)
MCUntranslated ==
  {Chain(kind, A, B, C, NoWindow, NoWindow, None, None) :
     kind \in {"PrecedenceChain12", "PrecedenceChain21"}}
  \cup {Simple("SteadyState", A, True, NoWindow, None)}

(* Up to two scopes around a pattern, with conditions of all sorts. *)
MCScoped ==
  {Sentence("Universality", A, True, True, <<NoWindow, NoWindow>>, <<None, None>>, scope) :
     scope \in BoundedSeq({B, Unary("Not", B), Binary("Imp", B, C), Node("O", NoWindow, <<B>>)}, 2)}

----------------------------------------------------------------------------
MCStatements == MCFormulas \cup MCPatterns \cup MCBounded \cup MCScoped

Spaced == [i \in 0..4 |-> i]
Shared == [i \in 0..4 |-> <<0, 1, 2, 2, 4>>[i + 1]]

MCSegments(p) ==
  IF p.kind = "Expression" THEN [time : {Shared}, data : [{"a", "b"} -> SUBSET (1..3)]]
  ELSE [time : {Spaced, Shared}, data : [MCData -> SUBSET (1..3)]]
============================================================================
