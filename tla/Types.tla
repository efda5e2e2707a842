------------------------------- MODULE Types -------------------------------
(***************************************************************************)
(* The types of the language, what the type check makes of an expression,  *)
(* and what the code generator makes of the types it finds.                *)
(*                                                                         *)
(* To the nodes of Formula come literals, the row names of "x@" and the    *)
(* two implicit ones, reads of a column or of a configuration, members,    *)
(* elements, arithmetic and the integral.  A node is an object of the      *)
(* program: equal nodes are one object, and the type check leaves the type *)
(* it found in the object.  So both the check and the generator take the   *)
(* types found so far as an argument, a function from nodes to types.      *)
(***************************************************************************)
EXTENDS Rewrite

LOCAL INSTANCE SequencesExt
LOCAL INSTANCE FiniteSets
LOCAL INSTANCE TLC

----------------------------------------------------------------------------
(* Nodes.  The bound of a timed operator and the distance of a step are    *)
(* its parameter; a parsed operator without a bound has none, and in a     *)
(* rewritten one the bound is null: that is another object.                *)
Context(x)      == Node("context", x, <<>>)
Column(x, d)    == Node("data", d, <<Context(x)>>)
Conf(c)         == Node("conf", c, <<Context("__conf__")>>)
Member(e, name) == Node("member", name, <<e>>)

Null == NoWindow

Steps == {"Xs", "Xw", "Ys", "Yw"}

Reaching == Timed \cup Steps \cup {"I"}

BoundOf(e) == IF e.op \in Reaching => e.par \in {None, Null} THEN <<>> ELSE <<e.par>>

RECURSIVE Lowered(_)
Lowered(e) ==
  [e EXCEPT !.par = IF e.op \in Timed /\ @ = None THEN Null ELSE @,
            !.args = [k \in DOMAIN @ |-> Lowered(@[k])]]

(* Rewrite::make *)
Code(e) == Lowered(Rewritten(e))

----------------------------------------------------------------------------
(* Types.  A structure carries the name it was declared with: two of them  *)
(* are two types, while equal arrays and enumerations are one.             *)
Boolean == [kind |-> "boolean"]
Integer == [kind |-> "integer"]
Number  == [kind |-> "number"]
String  == [kind |-> "string"]
Void    == [kind |-> "void"]
Bad     == [kind |-> "bad"]   \* an exception instead of a type

Enum(items)           == [kind |-> "enum", items |-> items]
Array(type, size)     == [kind |-> "array", type |-> type, size |-> size]
Struct(name, members) == [kind |-> "struct", name |-> name, members |-> members]
RowOf(m)              == [kind |-> "context", module |-> m]

Named(name, type) == [name |-> name, type |-> type]

Numeric == {Integer, Number}

Primitive(t) == t \in {Boolean, Integer, Number, String, Void}
Composite(t) == t.kind \in {"enum", "struct", "context"}

LastNamed(members, name) == SelectLastInSeq(members, LAMBDA m : m.name = name)

----------------------------------------------------------------------------
(* Modules: the names in the order of their declaration, and their types.  *)
(* Every row has a time, which nobody declares.                            *)
NewModule ==
  [type  |-> "boolean" :> Boolean @@ "integer" :> Integer @@ "string" :> String @@ "number" :> Number,
   data  |-> "__time__" :> Integer,
   props |-> <<>>,
   conf  |-> <<>>,
   confs |-> <<>>,
   bound |-> <<>>,
   exprs |-> <<>>]

(* A name that is a configuration too is taken for one. *)
TypeOfName(m, name) ==
  IF name \in DOMAIN m.conf THEN m.conf[name]
  ELSE IF name \in DOMAIN m.data THEN m.data[name]
  ELSE Bad

NamesAround(m, name) == IF name \in DOMAIN m.conf THEN m.confs ELSE m.props

IndexOfName(m, name) == SelectInSeq(NamesAround(m, name), LAMBDA n : n = name) - 1

MemberType(t, name, ms) ==
  CASE t.kind = "context" -> TypeOfName(ms[t.module], name)
    [] t.kind = "enum"    -> IF name \in ToSet(t.items) THEN Boolean ELSE Bad
    [] t.kind = "struct"  -> LET k == LastNamed(t.members, name)
                             IN  IF k = 0 THEN Bad ELSE t.members[k].type
    [] OTHER -> Bad

(* The constructor numbers a name by how many different names it has seen. *)
MemberIndex(t, name, ms) ==
  CASE t.kind = "context" -> IndexOfName(ms[t.module], name)
    [] t.kind = "struct"  ->
         LET k == LastNamed(t.members, name)
         IN  Cardinality({t.members[j].name : j \in 1..(k - 1)})

----------------------------------------------------------------------------
(* The type check.                                                         *)

(* Rejected only when both operands are wrong. *)
Arithmetic(ts) ==
  CASE ts[1] \notin Numeric /\ ts[2] \notin Numeric -> Bad
    [] ts[1] = ts[2] -> ts[1]
    [] OTHER -> Number

Remainder(ts) == IF Integer \in {ts[1], ts[2]} THEN Integer ELSE Bad

Comparison(ts) ==
  IF {ts[1], ts[2]} \subseteq Numeric \/ ts \in {<<t, t>> : t \in {Boolean, String}}
    THEN Boolean ELSE Bad

(* A slip to test the properties with: operands of one type, whichever. *)
LogicalSame(ts) == IF Cardinality(ToSet(ts)) = 1 THEN Boolean ELSE Bad

Logical(ts) == IF ToSet(ts) = {Boolean} THEN Boolean ELSE Bad

Choice(ts) ==
  CASE ts[1] # Boolean -> Bad
    [] ts[2] = ts[3] -> ts[3]
    [] {ts[2], ts[3]} \subseteq Numeric -> Number
    [] OTHER -> Bad

IntegralType(ts) == IF ts[1] = Boolean /\ ts[2] \in Numeric THEN ts[2] ELSE Bad

Element(ts) == IF ts[1].kind = "array" /\ ts[2] = Integer THEN ts[1].type ELSE Bad

Negative(ts) == IF ts[1] \in Numeric THEN ts[1] ELSE Bad

Step(ts) == IF ts[1] = Integer /\ ts[2] = Boolean THEN Boolean ELSE Bad

TimeBound(ts) == IF ToSet(ts) = {Integer} THEN Void ELSE Bad

Times == {"time", "time min", "time max"}

Logic == {"And", "Or", "Imp", "Equ", "Xor", "Not"}

Comparisons == {"Eq", "Ne", "Lt", "Le", "Gt", "Ge"}

(* The operands the check visits: not the bound of an integral, and not    *)
(* the row of a configuration.                                             *)
Checked(e) ==
  CASE e.op = "I"    -> e.args
    [] e.op = "conf" -> <<>>
    [] OTHER -> BoundOf(e) \o e.args

(* The type of e in the module named here, if its operands have types ts. *)
TypeOver(e, ts, here, ms) ==
  CASE e.op \in {"true", "false"} -> Boolean
    [] e.op = "integer" -> Integer
    [] e.op = "number"  -> Number
    [] e.op = "string"  -> String
    [] e.op = "context" -> RowOf(here)
    [] e.op = "data"    -> MemberType(ts[1], e.par, ms)
    [] e.op = "conf"    -> TypeOfName(ms[here], e.par)
    [] e.op = "member"  -> MemberType(ts[1], e.par, ms)
    [] e.op = "element" -> Element(ts)
    [] e.op \in {"Add", "Sub", "Mul", "Div"} -> Arithmetic(ts)
    [] e.op = "Mod"     -> Remainder(ts)
    [] e.op = "Neg"     -> Negative(ts)
    [] e.op \in Comparisons -> Comparison(ts)
    [] e.op \in Logic  -> Logical(ts)
    [] e.op = "Choice"  -> Choice(ts)
    [] e.op \in {"At", "Paren"} -> ts[1]
    [] e.op \in Steps  -> Step(ts)
    [] e.op \in Times  -> TimeBound(ts)
    [] e.op = "I"       -> IntegralType(ts)
    [] e.op \in Timed  -> Logical(SelectSeq(ts, LAMBDA t : t # Void))

Stored(s, e, t) ==
  IF t = Bad THEN [s EXCEPT !.ok = FALSE] ELSE [s EXCEPT !.types = @ @@ (e :> t)]

(* TypeCalcImpl::make: a node that has a type is not visited; the types    *)
(* found before an exception stay.                                         *)
RECURSIVE Typed(_, _, _, _)
Typed(s, e, here, ms) ==
  IF ~s.ok \/ e \in DOMAIN s.types THEN s
  ELSE LET inner == FoldLeft(LAMBDA r, o : Typed(r, o, here, ms), s, Checked(e))
           ts    == [k \in DOMAIN Checked(e) |-> inner.types[Checked(e)[k]]]
       IN  IF inner.ok THEN Stored(inner, e, TypeOver(e, ts, here, ms)) ELSE inner
=============================================================================
