------------------------------ MODULE Rewrite ------------------------------
(***************************************************************************)
(* From the formula the parser built to the formula that is compiled.      *)
(* RewriteImpl rebuilds the tree bottom up and passes every sub-formula    *)
(* through CanonicImpl, which replaces the operators the code generator    *)
(* does not know (G, F, H, O, =>) and removes parentheses, and negations   *)
(* through NegatedImpl, which pushes them down to the leaves.  The three   *)
(* rely on each other: NegatedImpl may produce operators that are not      *)
(* canonical, and CanonicImpl does not look below a comparison.            *)
(***************************************************************************)
EXTENDS Formula

----------------------------------------------------------------------------
Dual ==
  [true |-> "false", false |-> "true", Or |-> "And", And |-> "Or", At |-> "At",
   G |-> "F", F |-> "G", H |-> "O", O |-> "H",
   Xs |-> "Xw", Xw |-> "Xs", Ys |-> "Yw", Yw |-> "Ys",
   Us |-> "Rw", Uw |-> "Rs", Rs |-> "Uw", Rw |-> "Us",
   Ss |-> "Tw", Sw |-> "Ts", Ts |-> "Sw", Tw |-> "Ss"]

(* A slip to test the properties with: mirrored instead of negated. *)
OppositeMirrored ==
  [Eq |-> "Ne", Ne |-> "Eq", Lt |-> "Gt", Gt |-> "Lt", Le |-> "Ge", Ge |-> "Le",
   Xor |-> "Equ", Equ |-> "Xor"]

(* Negated by another operator on the same operands. *)
Opposite ==
  [Eq |-> "Ne", Ne |-> "Eq", Lt |-> "Ge", Ge |-> "Lt", Le |-> "Gt", Gt |-> "Le",
   Xor |-> "Equ", Equ |-> "Xor"]

Negated[e \in Trees] ==
  CASE e.op \in DOMAIN Dual ->
         Node(Dual[e.op], e.par, [k \in DOMAIN e.args |-> Negated[e.args[k]]])
    [] e.op \in DOMAIN Opposite -> Node(Opposite[e.op], e.par, e.args)
    [] e.op = "Imp"   -> Binary("And", e.args[1], Negated[e.args[2]])
    [] e.op = "Not"   -> e.args[1]
    [] e.op = "Paren" -> Negated[e.args[1]]
    [] OTHER -> Unary("Not", e)

(* The operators CanonicImpl keeps; it goes on below them. *)
Kept ==
  {"At", "Or", "And", "Xor", "Equ", "Xs", "Xw", "Ys", "Yw"} \cup FutureOps \cup PastOps

Canonic[e \in Trees] ==
  CASE e.op \in Kept -> Node(e.op, e.par, [k \in DOMAIN e.args |-> Canonic[e.args[k]]])
    [] e.op = "Imp" -> Binary("Or", Canonic[Negated[e.args[1]]], Canonic[e.args[2]])
    [] e.op = "G"   -> Node("Rw", e.par, <<False, Canonic[e.args[1]]>>)
    [] e.op = "F"   -> Node("Us", e.par, <<True, Canonic[e.args[1]]>>)
    [] e.op = "H"   -> Node("Tw", e.par, <<False, Canonic[e.args[1]]>>)
    [] e.op = "O"   -> Node("Ss", e.par, <<True, Canonic[e.args[1]]>>)
    [] e.op = "Not" -> Negated[e.args[1]]
    [] e.op = "Paren" -> Canonic[e.args[1]]
    [] OTHER -> e

(* The operands RewriteImpl drops the parentheses of, after one more pass. *)
Closed ==
  {"Paren", "true", "false", "At", "G", "F", "H", "O", "I"} \cup FutureOps \cup PastOps
  \cup Data \cup {"bound", "integer", "number", "string", "context", "data", "conf", "member"}

(* A slip to test the properties with: canonical at the root only. *)
CanonicAtRoot(e) == Canonic[e]

rewritten[e \in Trees] ==
  LET arg == rewritten[e.args[1]]
  IN  Canonic[
        CASE e.op = "Not" -> Negated[arg]
          [] e.op = "Paren" -> IF arg.op \in Closed THEN rewritten[arg] ELSE Unary("Paren", arg)
          [] OTHER -> Node(e.op, e.par, [k \in DOMAIN e.args |-> rewritten[e.args[k]]])]

Rewritten(e) == rewritten[e]

(* The operators CompileExprImpl has a visitor for; Visitable::accept      *)
(* throws at any other.                                                    *)
Compiled ==
  {"true", "false", "bound", "At", "Not", "And", "Or", "Xor", "Equ", "Choice", "Paren",
   "Eq", "Ne", "Lt", "Le", "Gt", "Ge", "Xs", "Xw", "Ys", "Yw"}
  \cup Data \cup FutureOps \cup PastOps

Compiles(e) == Operators[e] \subseteq Compiled
============================================================================
