----------------------------- MODULE MCSession -----------------------------
(***************************************************************************)
(* Every operator over names of every type, alone in a source that         *)
(* declares them; operators over operators for what the types of inner     *)
(* ones decide; and pairs of sources that declare one name, alike or not,  *)
(* under one module name or two, with statements that share nodes.         *)
(***************************************************************************)
EXTENDS Session, TLC

MCNone == {}
MCTrees == Any

Literal(t)  == Node(t, "1", <<>>)
Between(l, h) == Node("time", None, <<l, h>>)
From(l)     == Node("time min", None, <<l>>)
UpTo(h)     == Node("time max", None, <<h>>)

Light == Enum(<<"on", "off">>)
Pair  == Struct("Pair", <<Named("flag", Boolean), Named("count", Integer), Named("light", Light)>>)
Twice == Struct("Twice", <<Named("flag", Boolean), Named("flag", Boolean), Named("count", Integer)>>)

Declarations ==
  <<Declaration("type", "Pair", Pair),
    Declaration("data", "i", Alias("integer")),
    Declaration("conf", "limit", Integer),
    Declaration("conf", "set", Alias("Pair")),
    Declaration("data", "b", Boolean),
    Declaration("data", "r", Number),
    Declaration("data", "s", String),
    Declaration("data", "light", Light),
    Declaration("data", "pair", Alias("Pair")),
    Declaration("data", "twice", Twice),
    Declaration("data", "fixed", Array(Integer, 2)),
    Declaration("data", "free", Array(Boolean, 0)),
    Declaration("conf", "s", String)>>

Plain == {Name(x) : x \in {"i", "b", "r", "limit", "light", "pair", "nobody"}} \cup {Literal("string")}
All3  == {Name(x) : x \in {"i", "b", "r"}}

TimeBounds ==
  {None, Between(Literal("integer"), Name("i")), From(Literal("integer")), UpTo(Name("r")),
   UpTo(Binary("Add", Name("i"), Literal("integer")))}

Unaries(e)   == {Unary(op, e) : op \in {"Not", "Neg", "Paren"}} \cup {Node("At", "x", <<e>>)}
Binaries(e, f) == {Binary(op, e, f) : op \in (Logic \ {"Not"}) \cup Comparisons
                                            \cup {"Add", "Div", "Mod", "element"}}

Members ==
  {Member(e, name) : e \in {Name("pair"), Name("set"), Name("light"), Name("twice"), Name("i")},
                     name \in {"flag", "count", "on", "nothing"}}
  \cup {Member(Member(Name("set"), "light"), "off")}

Rows ==
  {Node("At", "x", <<e>>) :
     e \in {Member(Name("x"), d) : d \in {"b", "i", "s", "limit", "pair", "__time__"}}
           \cup {Member(Unary("Paren", Name("x")), d) : d \in {"b", "i"}}
           \cup {Name("x")}}

Inner ==
  UNION {Unaries(e) : e \in Plain} \cup UNION {Binaries(e, f) : e, f \in Plain}
  \cup {Binary("element", Name(v), Name("i")) : v \in {"fixed", "free"}}
  \cup {Node("Choice", None, <<c, e, f>>) : c \in {Name("b"), Name("i")}, e, f \in All3}
  \cup Members \cup Rows \cup {Name("s"), Name("free")}

Temporals ==
  {Node(op, t, <<e>>) : op \in {"G", "O"}, t \in TimeBounds, e \in {Name("b"), Name("i")}}
  \cup {Node(op, t, <<e, f>>) : op \in {"Us", "Sw", "I"}, t \in TimeBounds,
                                e \in {Name("b"), Name("i")}, f \in All3}
  \cup {Node(op, d, <<e>>) : op \in {"Xs", "Yw"}, d \in {Literal("integer"), Name("r")},
                            e \in {Name("b"), Name("i")}}

Outer ==
  UNION {Binaries(e, Name("i")) \cup Binaries(e, Name("b")) : e \in {f \in Inner :
           f.op \in {"Add", "Mod", "Choice", "member", "element", "Neg"}}}
  \cup {Unary("Not", Unary("Paren", e)) : e \in Temporals \cup Rows \cup Members}
  \cup {Binary("Eq", e, Name("i")) : e \in {f \in Temporals : f.op = "I"}}

Single(e) == <<Source("p", Declarations \o <<Formula(e)>>)>>

----------------------------------------------------------------------------
(* Sources that meet. *)
A == Name("a")
B == Name("c")

Few(t) == <<Declaration("data", "a", t), Declaration("data", "c", Boolean)>>

Shared ==
  {<<A>>, <<Unary("Paren", A)>>, <<Node("At", "x", <<Member(Name("x"), "a")>>)>>,
   <<Binary("And", A, B), Binary("And", Unary("Paren", A), B)>>,
   <<Binary("And", Unary("Paren", A), B), Binary("And", A, B), B>>,
   <<Unary("Paren", Node("G", None, <<B>>)), Node("Rw", None, <<False, B>>)>>,
   <<Node("At", "a", <<Binary("Or", B, Name("nobody"))>>)>>,
   <<Unary("Paren", Binary("Add", A, B)), Binary("Imp", A, B)>>,
   <<B, A, B>>}

Sources ==
  {Source(n, Few(t) \o [k \in DOMAIN es |-> Formula(es[k])]) :
     n \in {"p", "q"}, t \in {Boolean, Integer}, es \in Shared}
  \cup {Source("p", [k \in DOMAIN es |-> Formula(es[k])]) : es \in Shared}
  \cup {Source("q", <<Declaration("conf", "a", Boolean)>> \o Few(Boolean) \o <<Formula(A)>>),
        Source("q", <<Declaration("data", "a", Alias("nothing"))>>)}

MCPrograms == {Single(e) : e \in Inner \cup Temporals \cup Outer} \cup (Sources \X Sources)
============================================================================
