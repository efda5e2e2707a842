------------------------------ MODULE Emission -----------------------------
(***************************************************************************)
(* How the code for nested scopes is emitted.  The code generator descends *)
(* through the chain of scopes of a specification to its pattern and back. *)
(* It keeps the rows that the code at hand runs between, and the row it    *)
(* runs at, in three stacks of values (m_frst, m_last, m_curr); the code   *)
(* of a scope and of the pattern refers to the values on their tops.  What *)
(* a value is, is known by the level that pushed it: 0 for the arguments   *)
(* of the function, k for the k-th scope.                                  *)
(*                                                                         *)
(* In the names of this module Emit tells its formulas from those of       *)
(* Scope, with which it is extended in the proofs, and rows is m_curr.     *)
(***************************************************************************)
EXTENDS Integers, Sequences, SequencesExt

CONSTANT Chains   \* the nestings of scopes, outermost first

ScopeKinds == {"globally", "before", "after", "while", "between", "until"}

ASSUME EmissionAssumption == Chains \subseteq Seq(ScopeKinds)

VARIABLES
  chain,              \* the specification, fixed
  level,              \* the scope at work
  way,                \* on the way down, at the pattern, on the way up
  frst, last, rows,   \* the stacks
  seen                \* the tops when each condition, and last the pattern, was emitted

emitvars == <<chain, level, way, frst, last, rows, seen>>

StacksOK ==
  /\ chain \in Chains
  /\ level \in 0..Len(chain)
  /\ way \in {"down", "up", "undefined"}
  /\ {frst, last, rows} \subseteq Seq(0..Len(chain))
  /\ seen \in Seq([frst : 0..Len(chain), last : 0..Len(chain), curr : 0..Len(chain)])
  /\ Len(seen) <= Len(chain) + 1

EmitInit ==
  /\ chain \in Chains
  /\ level = 0
  /\ way = "down"
  /\ frst = <<0>> /\ last = <<0>> /\ rows = <<0>>
  /\ seen = <<>>

----------------------------------------------------------------------------
Scope(k) == chain[k]

Push(stack, k) == Append(stack, k)

Pop(stack, n) == SubSeq(stack, 1, Len(stack) - n)

Tops(f, l, c) == [frst |-> Last(f), last |-> Last(l), curr |-> Last(c)]

(* A slip to test the properties with: the body of an until that runs to   *)
(* the end of the rows around it.                                          *)
UntilKeepsLast(s) == s \in {"before", "while", "between"}

(* Which stacks a scope pushes its rows on before it emits its body; while *)
(* and until push like between.                                            *)
PushesFrst(s) == s \in {"after", "while", "between", "until"}
PushesLast(s) == s \in {"before", "while", "between", "until"}
PushesCurr(s) == s # "globally"

(* The condition of a scope is emitted for the row of its loop, between    *)
(* the rows of the code around it; then its own rows are pushed.           *)
Descend ==
  LET k == level + 1
  IN  /\ way = "down"
      /\ level < Len(chain)
      /\ level' = k
      /\ seen' = Append(seen, Tops(frst, last, IF PushesCurr(Scope(k)) THEN Push(rows, k) ELSE rows))
      /\ frst' = IF PushesFrst(Scope(k)) THEN Push(frst, k) ELSE frst
      /\ last' = IF PushesLast(Scope(k)) THEN Push(last, k) ELSE last
      /\ rows' = IF PushesCurr(Scope(k)) THEN Push(rows, k) ELSE rows
      /\ UNCHANGED <<chain, way>>

Pattern ==
  /\ way = "down"
  /\ level = Len(chain)
  /\ seen' = Append(seen, Tops(frst, last, rows))
  /\ way' = "up"
  /\ UNCHANGED <<chain, level, frst, last, rows>>

(* What a scope pops when its body is emitted: before pops m_last twice    *)
(* and m_curr not at all.                                                  *)
PopsFrst(s) == IF PushesFrst(s) THEN 1 ELSE 0
PopsCurr(s) == IF PushesCurr(s) /\ s # "before" THEN 1 ELSE 0

(* A slip to test the properties with: every scope makes that mistake.     *)
PopsLastTwice(s) == IF PushesLast(s) THEN 2 ELSE 0

PopsLast(s) == IF s = "before" THEN 2 ELSE IF PushesLast(s) THEN 1 ELSE 0

Ascend ==
  LET s == Scope(level)
  IN  /\ way = "up"
      /\ level > 0
      /\ IF Len(last) >= PopsLast(s)
           THEN /\ level' = level - 1
                /\ frst' = Pop(frst, PopsFrst(s))
                /\ last' = Pop(last, PopsLast(s))
                /\ rows' = Pop(rows, PopsCurr(s))
                /\ way' = way
           ELSE way' = "undefined" /\ UNCHANGED <<level, frst, last, rows>>   \* pop_back on an empty vector
      /\ UNCHANGED <<chain, seen>>

EmitNext == Descend \/ Pattern \/ Ascend

EmitSpec == EmitInit /\ [][EmitNext]_emitvars

----------------------------------------------------------------------------
(* The scopes that say where their segments begin, and where they end.     *)
Beginning == {"after", "while", "between", "until"}
Ending    == {"before", "while", "between", "until"}

(* The innermost of the first k scopes that is in the set. *)
Innermost(k, scopes) == Max({0} \cup {j \in 1..k : Scope(j) \in scopes})

(* A condition is looked for in the segment of the scopes around it, at    *)
(* the rows of its own scope; the pattern is judged on the segment that    *)
(* all the scopes leave of the trace.                                      *)
InScope ==
  /\ StacksOK
  /\ \A k \in DOMAIN seen :
      seen[k] = [frst |-> Innermost(k - 1, Beginning), last |-> Innermost(k - 1, Ending),
                 curr |-> Innermost(IF k <= Len(chain) THEN k ELSE k - 1, ScopeKinds \ {"globally"})]

(* The grammar lets scopes nest in any way; whatever the nesting, emitting *)
(* the code never takes a value from an empty stack.                       *)
Defined == way # "undefined"
============================================================================
