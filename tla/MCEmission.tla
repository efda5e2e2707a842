----------------------------- MODULE MCEmission ----------------------------
(***************************************************************************)
(* All nestings of at most four scopes: those with at most one "before",   *)
(* and those with two.  Every scope can then lie around, between and       *)
(* inside any two others.                                                  *)
(***************************************************************************)
EXTENDS Emission, FiniteSets

Nestings ==
  UNION {[1..n -> {"globally", "before", "after", "while", "between", "until"}] : n \in 0..4}

Befores(c) == {k \in DOMAIN c : c[k] = "before"}

MCChains == {c \in Nestings : Cardinality(Befores(c)) <= 1}

MCTwoBefores == {c \in Nestings : Cardinality(Befores(c)) = 2}
============================================================================
