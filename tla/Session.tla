------------------------------ MODULE Session ------------------------------
(***************************************************************************)
(* One process that compiles several sources, one after the other: each is *)
(* parsed statement by statement into the tables of its module, and then   *)
(* the statements are rewritten, checked again and become functions, one   *)
(* each, named by the position of the statement.  A source is printed as a *)
(* whole or not at all.                                                    *)
(*                                                                         *)
(* What outlives a source is the factory: a node is made once and shared   *)
(* by every formula that contains it, with the type that was found first   *)
(* and the position it was made at last; and so is a module, by its name.  *)
(* Bounds and distances are without parentheses and negations.             *)
(***************************************************************************)
EXTENDS Values, Language

LOCAL INSTANCE SequencesExt
LOCAL INSTANCE FiniteSets
LOCAL INSTANCE TLC

CONSTANT Programs   \* the sequences of sources to be compiled

VARIABLES
  program,     \* the sources of this process
  source,      \* the one that is being compiled, or is next
  stage,       \* "idle", "parsing", "emitting"
  item,        \* its next item, or its next statement
  modules,     \* Factory<Module>: the module of each name
  where,       \* position of each node that was made with one
  types,       \* type of each node that has one
  functions,   \* of the source that is being compiled
  outcomes     \* of the sources that have been compiled

vars == <<program, source, stage, item, modules, where, types, functions, outcomes>>

(* A source, its declarations and statements. *)
Source(name, items)         == [name |-> name, items |-> items]
Declaration(kind, name, t)  == [kind |-> kind, name |-> name, type |-> t]
Alias(name)                 == [kind |-> "alias", name |-> name]
Formula(e)                  == [kind |-> "formula", expr |-> e]
Name(x)                     == Node("name", x, <<>>)

Items == program[source].items
Here  == program[source].name
Exprs == modules[Here].exprs

(* A position names the source, the statement and the text in it. *)
Position(e) == [source |-> source, item |-> item, text |-> e]
Nowhere     == [source |-> 0, item |-> 0, text |-> None]

PositionOf(w, e) == IF e \in DOMAIN w THEN w[e] ELSE Nowhere

(* Referee::compile gives up a source: nothing of it is printed. *)
Abandon(cause, e) ==
  /\ outcomes' = Append(outcomes, [printed |-> FALSE, functions |-> <<>>, cause |-> cause, expr |-> e])
  /\ source' = source + 1
  /\ stage' = "idle"
  /\ item' = 1
  /\ functions' = <<>>
  /\ UNCHANGED program

Go(n) ==
  /\ item' = n
  /\ UNCHANGED <<program, source, functions, outcomes>>

----------------------------------------------------------------------------
(* The parser's names.  A name is a row if an enclosing "x@" binds it, or  *)
(* else a column, or else a configuration; a member of a row is a column.  *)
(* The state is what has been made, the rows that are bound, and the node. *)
Made(s, e) == [s EXCEPT !.made = @ \cup {e} \cup ToSet(e.args), !.expr = e]

Unknown(s) == [s EXCEPT !.ok = FALSE]

ParsedName(s, x, m) ==
  CASE x \in ToSet(s.bound) -> Made(s, Context(x))
    [] x \notin ToSet(s.bound) /\ x \in DOMAIN m.data -> Made(s, Column("__curr__", x))
    [] x \notin ToSet(s.bound) /\ x \notin DOMAIN m.data /\ x \in DOMAIN m.conf -> Made(s, Conf(x))
    [] OTHER -> Unknown(s)

ParsedMember(s, base, name, m) ==
  IF base.op # "context" THEN Made(s, Member(base, name))
  ELSE IF name \in DOMAIN m.data THEN Made(s, Column(base.par, name))
  ELSE Unknown(s)

Enter(s, e) == IF e.op = "At" THEN [s EXCEPT !.bound = Append(@, e.par)] ELSE s
Leave(s, e) == IF e.op = "At" THEN [s EXCEPT !.bound = Front(@)] ELSE s

RECURSIVE Parsed(_, _, _)
Parsed(s, e, m) ==
  IF ~s.ok THEN s
  ELSE IF e.op = "name" THEN ParsedName(s, e.par, m)
  ELSE LET parts == e.args \o BoundOf(e)
           read  == FoldLeft(
                      LAMBDA r, o : LET t == Parsed(r.s, o, m)
                                    IN  [s |-> t, nodes |-> Append(r.nodes, t.expr)],
                      [s |-> Enter(s, e), nodes |-> <<>>], parts)
           args  == SubSeq(read.nodes, 1, Len(e.args))
           bound == IF BoundOf(e) = <<>> THEN e.par ELSE Last(read.nodes)
       IN  IF ~read.s.ok THEN read.s
           ELSE IF e.op = "member" THEN ParsedMember(read.s, args[1], e.par, m)
           ELSE Leave(Made(read.s, Node(e.op, bound, args)), e)

Parse(e, m) == Parsed([ok |-> TRUE, bound |-> m.bound, made |-> {}, expr |-> None], e, m)

(* The parser itself gives a type to what stands for a name. *)
TypedByParser(e, m) ==
  \/ e.op = "context"
  \/ e.op = "data" /\ e.args[1].par = "__curr__"
  \/ e.op = "conf"

ParserType(e, m) ==
  CASE e.op = "context" -> RowOf(Here)
    [] e.op = "data"    -> m.data[e.par]
    [] e.op = "conf"    -> m.conf[e.par]

----------------------------------------------------------------------------
(* RewriteImpl makes the nodes of the rewritten formula where those of the *)
(* original are, and moves them if they existed; CanonicImpl and           *)
(* NegatedImpl make nodes without a position.                              *)
Remade(e) ==
  Node(e.op,
       IF e.par = None /\ e.op \in Timed \ {"Rs", "Rw"} THEN Null ELSE e.par,
       [k \in DOMAIN e.args |-> Code(e.args[k])])

(* A slip to test the properties with: the position of the last operand. *)
PlaceOfOperand(w, e) == PositionOf(w, IF e.args = <<>> THEN e ELSE Last(e.args))

Place(w, e) == PositionOf(w, e)

RECURSIVE Moved(_, _)
Moved(w, e) ==
  LET opened == e.op = "Paren" /\ Code(e.args[1]).op \in Closed
      inner  == FoldLeft(LAMBDA v, o : Moved(v, o), w, e.args)
  IN  CASE e.op = "Not" -> inner
        [] opened -> Moved(inner, Code(e.args[1]))
        [] OTHER  -> Remade(e) :> Place(w, e) @@ inner

----------------------------------------------------------------------------
Init ==
  /\ program \in Programs
  /\ source = 1
  /\ stage = "idle"
  /\ item = 1
  /\ modules = <<>>
  /\ where = <<>>
  /\ types = <<>>
  /\ functions = <<>>
  /\ outcomes = <<>>

(* The constructor of Antlr2AST: a module that exists is used again. *)
Open ==
  /\ stage = "idle"
  /\ source \in DOMAIN program
  /\ modules' = modules @@ (Here :> NewModule)
  /\ stage' = "parsing"
  /\ UNCHANGED <<where, types>>
  /\ Go(1)

OrderOf == [data |-> "props", conf |-> "confs"]

(* addType, addProp, addConf *)
Added(m, d, t) ==
  LET known == [m EXCEPT ![d.kind] = @ @@ (d.name :> t)]
  IN  IF d.kind = "type" THEN known
      ELSE [known EXCEPT ![OrderOf[d.kind]] = Append(@, d.name)]

Declare ==
  LET d == Items[item]
      m == modules[Here]
      missing == d.type.kind = "alias" /\ d.type.name \notin DOMAIN m.type
      t == IF d.type.kind = "alias" THEN m.type[d.type.name] ELSE d.type
  IN  /\ stage = "parsing"
      /\ item \in DOMAIN Items
      /\ d.kind # "formula"
      /\ UNCHANGED <<where, types>>
      /\ IF missing \/ d.name \in DOMAIN m[d.kind]
           THEN UNCHANGED modules /\ Abandon("declaration", None)
           ELSE /\ modules' = [modules EXCEPT ![Here] = Added(m, d, t)]
                /\ UNCHANGED stage
                /\ Go(item + 1)

(* A slip to test the properties with: a statement is kept once. *)
WithStatementOnce(exprs, e) == IF e \in ToSet(exprs) THEN exprs ELSE Append(exprs, e)

(* addExpr *)
WithStatement(exprs, e) == Append(exprs, e)

(* visitStatement: the nodes are made and placed, those of names get their *)
(* types, and the check finds the rest.                                    *)
Read ==
  LET m == modules[Here]
      p == Parse(Items[item].expr, m)
      named == {e \in p.made : TypedByParser(e, m)}
      known == [e \in named |-> ParserType(e, m)] @@ types
      s == Typed([types |-> known, ok |-> TRUE], p.expr, Here, modules)
  IN  /\ stage = "parsing"
      /\ item \in DOMAIN Items
      /\ Items[item].kind = "formula"
      /\ where' = [e \in p.made |-> Position(e)] @@ where
      /\ types' = IF p.ok THEN s.types ELSE known
      /\ modules' = [modules EXCEPT ![Here].bound = p.bound,
                                    ![Here].exprs = IF p.ok /\ s.ok THEN WithStatement(@, p.expr) ELSE @]
      /\ IF p.ok /\ s.ok THEN UNCHANGED stage /\ Go(item + 1)
         ELSE Abandon(IF p.ok THEN "type" ELSE "name", IF p.ok THEN p.expr ELSE None)

Parsing ==
  /\ stage = "parsing"
  /\ item \notin DOMAIN Items
  /\ stage' = "emitting"
  /\ UNCHANGED <<modules, where, types>>
  /\ Go(1)

(* Compile::make of one statement.  The name is taken before the rewriting *)
(* moves anything; an exception leaves what has been moved and typed.      *)
Emit ==
  LET e == Exprs[item]
      code  == Code(e)
      s     == Typed([types |-> types, ok |-> TRUE], code, Here, modules)
      value == Value(code, {"__curr__"}, s.types, Here, modules)
  IN  /\ stage = "emitting"
      /\ item \in DOMAIN Exprs
      /\ where' = Moved(where, e)
      /\ types' = s.types
      /\ UNCHANGED modules
      /\ IF s.ok /\ value # Throws
           THEN /\ functions' = Append(functions,
                     [name |-> PositionOf(where, e), expr |-> e, value |-> value,
                      reads |-> Reads(code, s.types, Here, modules)])
                /\ item' = item + 1
                /\ UNCHANGED <<program, source, stage, outcomes>>
           ELSE Abandon("code", e)

(* Every statement has its function: the module is printed. *)
Output ==
  /\ stage = "emitting"
  /\ item \notin DOMAIN Exprs
  /\ outcomes' = Append(outcomes, [printed |-> TRUE, functions |-> functions,
                                   cause |-> "none", expr |-> None])
  /\ source' = source + 1
  /\ stage' = "idle"
  /\ item' = 1
  /\ functions' = <<>>
  /\ UNCHANGED <<program, modules, where, types>>

Next == Open \/ Declare \/ Read \/ Parsing \/ Emit \/ Output

Spec == Init /\ [][Next]_vars

----------------------------------------------------------------------------
(* The sources compiled so far give the names of a formula one type each.  *)
Agreed(e) ==
  \A name \in {o.par : o \in {o \in Within(e) : o.op \in {"data", "conf"}}}, n, k \in DOMAIN modules :
    Cardinality({TypeOfName(modules[n], name), TypeOfName(modules[k], name)} \ {Bad}) <= 1

(* The outcome of the source before, while nothing has happened since. *)
Ended(cause) == stage = "idle" /\ outcomes # <<>> /\ Last(outcomes).cause = cause

ItsModule == modules[program[source - 1].name]

New(n) == \A k \in 1..(n - 1) : program[k].name # program[n].name

----------------------------------------------------------------------------
TypeOK ==
  /\ source \in 1..(Len(program) + 1)
  /\ stage \in {"idle", "parsing", "emitting"}
  /\ Len(outcomes) = source - 1
  /\ DOMAIN modules \subseteq {program[k].name : k \in DOMAIN program}
  /\ \A e \in DOMAIN types : types[e] # Bad
  /\ stage # "emitting" => functions = <<>>

(* A statement that is meant to be a truth value, and that the generator   *)
(* can be relied on for, becomes a function that returns one.              *)
EmittedTyped ==
  /\ \A k \in DOMAIN functions :
       LET e == functions[k].expr
       IN  Agreed(e) /\ Fit(e, modules[Here]) => functions[k].value = I1
  /\ Ended("code") => LET e == Last(outcomes).expr IN Agreed(e) => ~Fit(e, ItsModule)

(* The type check is not too strict: a statement is rejected for its types *)
(* only if it has none.  And what it lets through does not turn into       *)
(* something else: a function that returns a truth value comes from a      *)
(* statement that is one, whatever types its nodes had before, unless it   *)
(* has a member of a structure that repeats names.                         *)
TypesDecide ==
  /\ Ended("type") => LET e == Last(outcomes).expr IN Agreed(e) => Meant(e, ItsModule) = {}
  /\ \A k \in DOMAIN functions :
       LET e == functions[k].expr
       IN  /\ functions[k].value = I1
           /\ \A o \in Within(e) : o.op = "member" => Supported(o, modules[Here])
           => Boolean \in Meant(e, modules[Here])

(* The code of a statement reads what the statement names. *)
ReadsOwn ==
  \A k \in DOMAIN functions :
    Fit(functions[k].expr, modules[Here]) => \A r \in functions[k].reads : r[1] = r[2]

(* The name of a function is a place in this source where there is a text  *)
(* of the same meaning; a node that only the rewriting made has no place.  *)
NamedByText ==
  \A k \in DOMAIN functions :
    LET at == functions[k].name
    IN  New(source) /\ at # Nowhere =>
          at.source = source /\ Code(at.text) = Code(functions[k].expr)

(* What is printed are the statements of the source, all of them and in    *)
(* their order, behind what a module that is used again held before: all   *)
(* that was printed of it, and nothing but statements of its sources.      *)
OnePerStatement ==
  /\ TypeOK
  /\ Ended("none") =>
       LET asked(n)    == SelectSeq(program[n].items, LAMBDA d : d.kind = "formula")
           own         == [k \in DOMAIN asked(source - 1) |-> Parse(asked(source - 1)[k].expr, ItsModule).expr]
           printed(n)  == [k \in DOMAIN outcomes[n].functions |-> outcomes[n].functions[k].expr]
           before      == {n \in 1..(source - 2) : program[n].name = program[source - 1].name}
           all         == printed(source - 1)
           former      == SubSeq(all, 1, Len(all) - Len(own))
       IN  /\ all = former \o own
           /\ \A n \in before : IsPrefix(printed(n), former)
           /\ \A e \in ToSet(former) :
                \E n \in before : \E d \in ToSet(asked(n)) : e = Parse(d.expr, ItsModule).expr
=============================================================================
