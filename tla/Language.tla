------------------------------ MODULE Language ------------------------------
(***************************************************************************)
(* The language as it is meant: which types an expression has, told by the *)
(* signatures of its operators and not by the order of the check, and what *)
(* of it the code generator can be relied on for.  The type check and the  *)
(* generator are judged by this.                                           *)
(***************************************************************************)
EXTENDS Types

LOCAL INSTANCE SequencesExt
LOCAL INSTANCE FiniteSets

Signatures(op) ==
  CASE op \in {"true", "false"} -> {<<Boolean>>}
    [] op = "integer" -> {<<Integer>>}
    [] op = "number"  -> {<<Number>>}
    [] op = "string"  -> {<<String>>}
    [] op \in {"Add", "Sub", "Mul", "Div"} ->
         {<<Integer, Integer, Integer>>, <<Number, Number, Number>>,
          <<Integer, Number, Number>>, <<Number, Integer, Number>>}
    [] op = "Mod" -> {<<Integer, Integer, Integer>>}
    [] op = "Neg" -> {<<Integer, Integer>>, <<Number, Number>>}
    [] op \in Comparisons ->
         {<<t, u, Boolean>> : t \in Numeric, u \in Numeric}
         \cup {<<t, t, Boolean>> : t \in {Boolean, String}}
    [] op = "Not" -> {<<Boolean, Boolean>>}
    [] op \in Logic \ {"Not"} -> {<<Boolean, Boolean, Boolean>>}
    [] op \in {"G", "F", "H", "O"} -> {<<Boolean, Boolean>>, <<Void, Boolean, Boolean>>}
    [] op \in FutureOps \cup PastOps ->
         {<<Boolean, Boolean, Boolean>>, <<Void, Boolean, Boolean, Boolean>>}
    [] op \in Steps -> {<<Integer, Boolean, Boolean>>}
    [] op = "I" -> {<<Boolean, t, t>> : t \in Numeric} \cup {<<Void, Boolean, t, t>> : t \in Numeric}
    [] op \in {"time min", "time max"} -> {<<Integer, Void>>}
    [] op = "time" -> {<<Integer, Integer, Void>>}
    [] OTHER -> {}

RECURSIVE Meant(_, _)
Meant(e, m) ==
  LET parts == BoundOf(e) \o e.args
      of(k) == Meant(parts[k], m)
  IN CASE e.op = "data" -> {TypeOfName(m, e.par)}
       [] e.op = "conf" -> {m.conf[e.par]}
       [] e.op \in {"At", "Paren"} -> of(1)
       [] e.op = "member" ->
            {Boolean : t \in {u \in of(1) : u.kind = "enum" /\ e.par \in ToSet(u.items)}}
            \cup {t.members[LastNamed(t.members, e.par)].type :
                    t \in {u \in of(1) : u.kind = "struct" /\ LastNamed(u.members, e.par) # 0}}
       [] e.op = "element" -> {t.type : t \in {u \in of(1) : u.kind = "array" /\ Integer \in of(2)}}
       [] e.op = "Choice" ->
            {t \in of(2) \cap of(3) : Boolean \in of(1)}
            \cup {Number : t \in {u \in of(1) : /\ u = Boolean
                                               /\ of(2) \cup of(3) = Numeric}}
       [] OTHER -> {s[Len(s)] : s \in {u \in Signatures(e.op) :
                      Len(u) = Len(parts) + 1 /\ \A k \in DOMAIN parts : u[k] \in of(k)}}

RECURSIVE Within(_)
Within(e) == {e} \cup UNION {Within(o) : o \in ToSet(BoundOf(e) \o e.args)}

Distinct(members) == Cardinality({m.name : m \in ToSet(members)}) = Len(members)

(* The code generator can be relied on for what a formula contains: no     *)
(* configuration of a primitive type, no name that is a column as well as  *)
(* a configuration, no choice of two types, no element of an array without *)
(* a size, no member of a structure that repeats names, no bound of one    *)
(* end on an operator of the past, and no computed bound on an integral,   *)
(* whose type nobody calculates.                                           *)
Supported(e, m) ==
  CASE e.op = "conf"    -> ~Primitive(m.conf[e.par])
    [] e.op = "data"    -> e.par \notin DOMAIN m.conf
    [] e.op = "Choice"  -> Meant(e.args[2], m) = Meant(e.args[3], m)
    [] e.op = "element" -> \A t \in Meant(e.args[1], m) : t.size # 0
    [] e.op = "member"  -> \A t \in Meant(e.args[1], m) : t.kind = "struct" => Distinct(t.members)
    [] e.op \in PastOps \cup {"H", "O"} -> \A b \in ToSet(BoundOf(e)) : b.op = "time"
    [] e.op = "I" -> \A b \in ToSet(BoundOf(e)) : \A o \in ToSet(b.args) :
                       o.op = "integer" \/ (o.op = "data" /\ o.args[1].par = "__curr__")
    [] OTHER -> TRUE

Fit(e, m) == Boolean \in Meant(e, m) /\ \A o \in Within(e) : Supported(o, m)
=============================================================================
