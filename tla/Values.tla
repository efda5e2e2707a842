------------------------------- MODULE Values -------------------------------
(***************************************************************************)
(* The code generator by the types of the values it makes.  It chooses an  *)
(* instruction by the types the check left in the nodes, and gives it the  *)
(* values its operands became; nothing makes sure the two agree.  An       *)
(* instruction that gets values it is not defined for is not refused: the  *)
(* result of the verifier is ignored.                                      *)
(***************************************************************************)
EXTENDS Types

LOCAL INSTANCE SequencesExt
LOCAL INSTANCE TLC

I1     == [ir |-> "i1"]
I8     == [ir |-> "i8"]
I64    == [ir |-> "i64"]
Double == [ir |-> "double"]

Pointer(v)   == [ir |-> "pointer", to |-> v]
Record(vs)   == [ir |-> "record", elements |-> vs]
ArrayOf(v)   == [ir |-> "array", of |-> v]
Text         == Pointer(I8)

Throws    == [ir |-> "throws"]      \* no code: an exception
Malformed == [ir |-> "malformed"]   \* no code that means anything

Whole == {I1, I8, I64}

(* CompileTypeImpl *)
RECURSIVE Layout(_)
Layout(t) ==
  CASE t = Boolean -> I1
    [] t = Integer -> I64
    [] t = Number  -> Double
    [] t = String  -> Text
    [] t.kind = "enum"   -> I8
    [] t.kind = "struct" -> Record([k \in DOMAIN t.members |-> Layout(t.members[k].type)])
    [] t.kind = "array"  -> IF t.size = 0 THEN Record(<<[ir |-> "i16"], Pointer(Layout(t.type))>>)
                            ELSE ArrayOf(Layout(t.type))

(* __prop_t, a row: its time and a pointer to each column; and __conf_t. *)
Columns(m) == Record(<<I64>> \o [k \in DOMAIN m.props |-> Pointer(Layout(m.data[m.props[k]]))])
Confs(m)   == Record([k \in DOMAIN m.confs |-> Layout(m.conf[m.confs[k]])])

(* What an address computation needs: a pointer to a record that has it.   *)
HasField(v, k) ==
  v.ir = "pointer" /\ v.to.ir = "record" /\ k + 1 \in DOMAIN v.to.elements

Field(v, k) == v.to.elements[k + 1]

Untyped == [kind |-> "untyped"]

TypeIn(types, e) == IF e \in DOMAIN types THEN types[e] ELSE Untyped

----------------------------------------------------------------------------
(* A slip to test the properties with: the time of the row is not counted. *)
ColumnIndexFromZero(e, types, ms) == IndexOfName(ms[types[e.args[1]].module], e.par)

(* __time__ comes first in a row. *)
ColumnIndex(e, types, ms) == IndexOfName(ms[types[e.args[1]].module], e.par) + 1

ColumnValue(e, row, types, ms) ==
  LET k == ColumnIndex(e, types, ms)
  IN  IF e.par = "__time__" THEN Field(row, 0)
      ELSE IF ~HasField(row, k) THEN Malformed
      ELSE IF Field(row, k).ir # "pointer" THEN Malformed
      ELSE IF Primitive(TypeIn(types, e)) THEN Field(row, k).to ELSE Field(row, k)

(* The address is computed, and the load then goes through m_value, which  *)
(* nothing has been assigned to.                                           *)
ConfValue(e, confs, types, ms) ==
  LET k == IndexOfName(ms[types[e.args[1]].module], e.par)
  IN  IF Primitive(TypeIn(types, e)) \/ ~HasField(confs, k) THEN Malformed
      ELSE Pointer(Field(confs, k))

(* A member of an enumeration asks whether that is the value. *)
MemberValue(e, base, types, ms) ==
  LET t    == TypeIn(types, e)
      over == TypeIn(types, e.args[1])
      k    == MemberIndex(over, e.par, ms)
  IN  CASE t = Untyped -> Throws
        [] t # Untyped /\ over.kind = "enum" -> IF base = Pointer(I8) THEN I1 ELSE Malformed
        [] t # Untyped /\ over.kind # "enum" ->
             IF ~Composite(over) THEN Malformed
             ELSE IF ~HasField(base, k) THEN Malformed
             ELSE IF Primitive(t) THEN Field(base, k) ELSE Pointer(Field(base, k))

ElementValue(e, vs, types) ==
  IF vs[1].ir # "pointer" \/ vs[2] # I64 THEN Malformed
  ELSE IF vs[1].to.ir # "array" THEN Malformed
  ELSE IF Primitive(TypeIn(types, e)) THEN vs[1].to.of ELSE Pointer(vs[1].to.of)

(* arithmetic: an integer beside a number is converted. *)
ArithmeticValue(ts, vs) ==
  CASE ~(ToSet(ts) \subseteq Numeric) -> Throws
    [] vs # [k \in DOMAIN ts |-> Layout(ts[k])] -> Malformed
    [] OTHER -> IF Number \in ToSet(ts) THEN Double ELSE I64

ComparisonValue(ts, vs) ==
  CASE Comparison(ts) # Boolean -> Throws
    [] vs # [k \in DOMAIN ts |-> Layout(ts[k])] -> Malformed
    [] OTHER -> I1

NegativeValue(t, v) ==
  CASE t \notin Numeric -> Throws
    [] t \in Numeric /\ v # Layout(t) -> Malformed
    [] OTHER -> v

(* The remainder is one of integers, whatever it gets. *)
RemainderValue(vs) == IF vs[1] = vs[2] /\ vs[1] \in Whole THEN vs[1] ELSE Malformed

(* A slip to test the properties with: no conversion. *)
ChoiceValueSame(vs) ==
  IF vs[1] = I1 /\ vs[2] = vs[3] /\ vs[2] = I1 THEN vs[2] ELSE Malformed

(* A choice of two types converts both from an integer. *)
ChoiceValue(vs) ==
  CASE vs[1] # I1 -> Malformed
    [] vs[2] = vs[3] -> vs[2]
    [] {vs[2], vs[3]} \subseteq Whole -> Double
    [] OTHER -> Malformed

All(vs, v) == \A k \in DOMAIN vs : vs[k] = v

(* XY, UR and ST: bounds and distances are integers, operands are bits.    *)
(* ST tests one end of a bound and compares with the other, which is null. *)
TemporalValue(e, vs) ==
  LET n == Len(BoundOf(e))
  IN  CASE ~All(SubSeq(vs, 1, n), I64) \/ ~All(SubSeq(vs, n + 1, Len(vs)), I1) -> Malformed
        [] e.op \in PastOps /\ n = 1 /\ e.par.op \in {"time min", "time max"} -> Malformed
        [] OTHER -> I1

(* The height decides whether the sum is an integer or a number. *)
IntegralValue(e, vs, types) ==
  LET n      == Len(BoundOf(e))
      height == IF TypeIn(types, e.args[2]) = Integer THEN I64 ELSE Double
  IN  IF All(SubSeq(vs, 1, n), I64) /\ vs[n + 1] = I1 /\ vs[n + 2] = height
        THEN height ELSE Malformed

(* The ends of a bound are values of their own; it is one value here if    *)
(* they are integers.                                                      *)
TimeValue(vs) == IF All(vs, I64) THEN I64 ELSE Malformed

(* What e becomes, when its operands have become vs; rows are the names of *)
(* the rows that are bound around it.                                      *)
ValueOver(e, vs, rows, types, here, ms) ==
  LET ts == [k \in DOMAIN e.args |-> TypeIn(types, e.args[k])]
  IN CASE e.op \in {"true", "false"} -> I1
       [] e.op = "integer" -> I64
       [] e.op = "number"  -> Double
       [] e.op = "string"  -> Text
       [] e.op = "context" -> CASE e.par = "__conf__" -> Pointer(Confs(ms[here]))
                                [] e.par \in rows -> Pointer(Columns(ms[here]))
                                [] OTHER -> Throws
       [] e.op = "data"    -> ColumnValue(e, vs[1], types, ms)
       [] e.op = "conf"    -> ConfValue(e, vs[1], types, ms)
       [] e.op = "member"  -> MemberValue(e, vs[1], types, ms)
       [] e.op = "element" -> ElementValue(e, vs, types)
       [] e.op \in {"Add", "Sub", "Mul", "Div"} -> ArithmeticValue(ts, vs)
       [] e.op = "Mod"     -> RemainderValue(vs)
       [] e.op = "Neg"     -> NegativeValue(ts[1], vs[1])
       [] e.op \in Comparisons -> ComparisonValue(ts, vs)
       [] e.op \in {"And", "Or"} -> IF All(vs, I1) THEN I1 ELSE Malformed
       [] e.op \in {"Equ", "Xor", "Not"} ->
            IF vs[1] \notin Whole \/ ~All(vs, vs[1]) THEN Malformed
            ELSE IF e.op = "Equ" THEN I1 ELSE vs[1]
       [] e.op = "Choice"  -> ChoiceValue(vs)
       [] e.op \in {"At", "Paren"} -> vs[1]
       [] e.op \in Times  -> TimeValue(vs)
       [] e.op \in Steps \cup FutureOps \cup PastOps -> TemporalValue(e, vs)
       [] e.op = "I"       -> IntegralValue(e, vs, types)
       [] OTHER -> Throws

(* CompileExprImpl::make *)
RECURSIVE Value(_, _, _, _, _)
Value(e, rows, types, here, ms) ==
  LET parts == BoundOf(e) \o e.args
      names == IF e.op = "At" THEN rows \cup {e.par} ELSE rows
      vs    == [k \in DOMAIN parts |-> Value(parts[k], names, types, here, ms)]
  IN  CASE Throws \in ToSet(vs) -> Throws
        [] Throws \notin ToSet(vs) /\ Malformed \in ToSet(vs) -> Malformed
        [] OTHER -> ValueOver(e, vs, rows, types, here, ms)

(* Which column, configuration or member the code of e reads where e names *)
(* one: pairs of the name asked for and the name that is there.            *)
NameAt(names, k) == IF k + 1 \in DOMAIN names THEN names[k + 1] ELSE "nothing"

RECURSIVE Reads(_, _, _, _)
Reads(e, types, here, ms) ==
  LET parts == BoundOf(e) \o e.args
      over  == TypeIn(types, e.args[1])
      own   == CASE e.op = "data" /\ e.par # "__time__" ->
                      {<<e.par, NameAt(ms[here].props, ColumnIndex(e, types, ms) - 1)>>}
                 [] e.op = "conf" ->
                      {<<e.par, NameAt(ms[here].confs, IndexOfName(ms[over.module], e.par))>>}
                 [] e.op = "member" /\ over.kind = "struct" ->
                      {<<e.par, NameAt([k \in DOMAIN over.members |-> over.members[k].name],
                                       MemberIndex(over, e.par, ms))>>}
                 [] e.op = "member" /\ over.kind = "context" ->
                      {<<e.par, NameAt(<<"__time__">> \o ms[here].props, MemberIndex(over, e.par, ms))>>}
                 [] OTHER -> {}
  IN  own \cup UNION {Reads(parts[k], types, here, ms) : k \in DOMAIN parts}
=============================================================================
