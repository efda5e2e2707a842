-------------------------------- MODULE Csv --------------------------------
(***************************************************************************)
(* Reading a row of a CSV document by a type: readCsv walks through the    *)
(* type with two stacks, of the types still due and of the names of their  *)
(* columns, gives each cell to a writer that has no type, and hands the    *)
(* bytes to readData, which walks through the type again.  The rows of a   *)
(* document do not know of each other; this is one of them.                *)
(*                                                                         *)
(* A name is a path: the numbers of the members and the indices that lead  *)
(* to it, with -1 for "#size" at the end.  The suffix by which a listing   *)
(* of names tells the kind of a cell, and which readCsv does not expect,   *)
(* is left out.  The types still due are wstack of Codec.                  *)
(***************************************************************************)
EXTENDS Codec, Integers

CONSTANT
  Documents    \* the sets of columns that a document for a type may have

VARIABLES
  header,    \* the columns of the document
  names,     \* names: the columns of the types in wstack
  cells      \* the columns that were read, in order

csvvars  == <<header, names, cells>>
allvars  == <<vars, csvvars>>

SIZE == -1

(* The names that nameHelper lists for a type, each with the kind of its   *)
(* cell: an array without a size is listed with one element.               *)
Elements(t) == IF t.size = 0 THEN 1 ELSE t.size

(* The columns of a part that has the name path. *)
Under(path, list) ==
  [i \in DOMAIN list |-> [path |-> path \o list[i].path, kind |-> list[i].kind]]

listing[t \in Parts] ==
  CASE t.kind = "record" ->
         FlattenSeq([k \in DOMAIN t.body |-> Under(<<k>>, listing[t.body[k]])])
    [] t.kind = "array"  ->
         <<[path |-> <<SIZE>>, kind |-> "array"]>>
         \o FlattenSeq([i \in 1..Elements(t) |-> Under(<<i - 1>>, listing[t.base])])
    [] OTHER -> <<[path |-> <<>>, kind |-> t.kind]>>

(* A row of a document, or none: then the writer of Codec has a caller of  *)
(* another kind.                                                           *)
RowInit ==
  /\ type \in Types
  /\ mode = "csv"
  /\ wstack = <<type>> /\ rstack = <<type>>
  /\ out = <<>> /\ pos = 0
  /\ lost = FALSE /\ spoilt = FALSE
  /\ header \in Documents[type]
  /\ names = <<<<>>>>
  /\ cells = <<>>

CsvInit == RowInit \/ (Init /\ header = {} /\ names = <<>> /\ cells = <<>>)

----------------------------------------------------------------------------
(* One turn of the loop takes the front of both stacks. *)
Turn == Head(wstack)

Column == IF Turn.kind = "array" THEN Append(Head(names), SIZE) ELSE Head(names)

(* doc.GetCell and the call of the writer that follows. *)
GetCell(item) ==
  /\ Column \in header /\ Len(out) < MaxCalls
  /\ out' = Append(out, item)
  /\ cells' = Append(cells, Column)
  /\ UNCHANGED <<type, mode, rvars, spoilt, header>>

Cell ==
  /\ mode = "csv" /\ wstack # <<>> /\ Turn.kind \in Scalars
  /\ wstack' = Tail(wstack)
  /\ names' = Tail(names)
  /\ GetCell(Item(Turn.kind))

OpenRecord ==
  /\ mode = "csv" /\ wstack # <<>> /\ Turn.kind = "record"
  /\ wstack' = Opened(wstack)
  /\ names' = [k \in DOMAIN Turn.body |-> Append(Head(names), k)] \o Tail(names)
  /\ UNCHANGED <<type, mode, out, rvars, spoilt, header, cells>>

(* A slip to test the properties with: the names are pushed in the order   *)
(* of the indices.                                                         *)
CellSizeBackwards(n) ==
  /\ mode = "csv" /\ wstack # <<>> /\ Turn.kind = "array"
  /\ wstack' = [i \in 1..n |-> Turn.base] \o Tail(wstack)
  /\ names' = [i \in 1..n |-> Append(Head(names), n - i)] \o Tail(names)
  /\ GetCell(SizeItem(n))

(* The size that the type declares is not asked for. *)
CellSize(n) ==
  /\ mode = "csv" /\ wstack # <<>> /\ Turn.kind = "array"
  /\ wstack' = [i \in 1..n |-> Turn.base] \o Tail(wstack)
  /\ names' = [i \in 1..n |-> Append(Head(names), i - 1)] \o Tail(names)
  /\ GetCell(SizeItem(n))

(* A column that is missing, or a cell that is no number, is an exception: *)
(* nothing of the row is printed.                                          *)
NoCell ==
  /\ mode = "csv" /\ wstack # <<>> /\ Turn.kind # "record"
  /\ (Column \notin header \/ Turn.kind \notin {"string", "boolean"})
  /\ mode' = "failed"
  /\ UNCHANGED <<type, wvars, rvars, spoilt, csvvars>>

EndRow ==
  /\ mode = "csv" /\ wstack = <<>>
  /\ mode' = "dump"
  /\ UNCHANGED <<type, wvars, rvars, spoilt, csvvars>>

readCsv == Cell \/ OpenRecord \/ (\E n \in 0..MaxSize : CellSize(n)) \/ NoCell \/ EndRow

CsvNext == readCsv \/ (Next /\ UNCHANGED csvvars)

(* readData is one loop that runs until its stack is empty; nobody has to  *)
(* call the writer or the reader.                                          *)
CsvSpec == CsvInit /\ [][CsvNext]_allvars /\ WF_allvars(readData /\ UNCHANGED csvvars)

----------------------------------------------------------------------------
(* What a typed writer took is the beginning of an encoding of its type,   *)
(* and all of one exactly when nothing is due any more: an encoding whose  *)
(* writer was built too early is recognised by its stack alone.            *)
Conforms ==
  type # Untyped /\ ~spoilt /\ cells = <<>> =>
    /\ \E e \in encodings[type] : IsPrefix(out, e)
    /\ Due(wstack) = <<>> <=> out \in encodings[type]

(* The type a path leads to. *)
Within(t, k) ==
  CASE k = SIZE           -> t
    [] k # SIZE /\ t.kind = "record" -> t.body[k]
    [] k # SIZE /\ t.kind # "record" -> t.base

TypeAt(t, path) ==
  LET at[n \in 0..Len(path)] == IF n = 0 THEN t ELSE Within(at[n - 1], path[n])
  IN  at[Len(path)]

Precedes(p, q) ==
  \E k \in DOMAIN p \cap DOMAIN q :
    SubSeq(p, 1, k - 1) = SubSeq(q, 1, k - 1) /\ p[k] < q[k]

AsListed(k) == out[k].kind = "array" => out[k].size = Elements(TypeAt(type, cells[k]))

(* The bytes are the cells of the row in the order of the value: members   *)
(* and elements one after the other, the size of an array before them, and *)
(* each written as what the type has at its place, whatever sizes the      *)
(* document gives.  If these are the listed ones, the columns that were    *)
(* read are those of the listing.                                          *)
RowInOrder ==
  cells # <<>> =>
    /\ Len(cells) = Len(out)
    /\ \A k \in DOMAIN cells : TypeAt(type, cells[k]).kind = out[k].kind
    /\ \A k \in 2..Len(cells) : Precedes(cells[k - 1], cells[k])
    /\ mode = "dump" /\ (\A k \in DOMAIN out : AsListed(k)) =>
         [k \in DOMAIN cells |-> [path |-> cells[k], kind |-> out[k].kind]] = listing[type]
============================================================================
