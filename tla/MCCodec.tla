------------------------------ MODULE MCCodec ------------------------------
(***************************************************************************)
(* Types in which records and arrays stand in front of, behind and inside  *)
(* each other, of fixed and of free size, with records that are empty and  *)
(* records that start with a record.                                       *)
(***************************************************************************)
EXTENDS Csv

I == Scalar("integer")
S == Scalar("string")

MCTypes ==
  { I,
    Record(<<I, S>>),
    Record(<<Record(<<S, I>>), I>>),
    Record(<<Record(<<Record(<<I>>), S>>)>>),
    Record(<<Record(<<>>), I>>),
    Record(<<Array(I, 2), S>>),
    Array(S, 0),
    Record(<<Array(Record(<<I, S>>), 0), I>>),
    Array(Array(I, 1), 2),
    Array(Record(<<Record(<<I>>)>>), 1) }

RECURSIVE PartsOf(_)
PartsOf(t) ==
  {t} \cup CASE t.kind = "record" -> UNION {PartsOf(t.body[k]) : k \in DOMAIN t.body}
            [] t.kind = "array"  -> PartsOf(t.base)
            [] OTHER             -> {}

MCParts == UNION {PartsOf(t) : t \in MCTypes}

(* A document: the columns for arrays of any size, or all but one of them. *)
RECURSIVE Columns(_, _)
Columns(t, path) ==
  CASE t.kind = "record" -> UNION {Columns(t.body[k], Append(path, k)) : k \in DOMAIN t.body}
    [] t.kind = "array"  -> {Append(path, SIZE)}
                            \cup UNION {Columns(t.base, Append(path, i)) : i \in 0..(MaxSize - 1)}
    [] OTHER -> {path}

MCDocuments ==
  [t \in MCTypes |-> LET all == Columns(t, <<>>)
                     IN  {all} \cup {all \ {column} : column \in all}]
============================================================================
