------------------------------- MODULE Codec -------------------------------
(***************************************************************************)
(* The encoding of a value of the database: DataWriter turns a sequence of *)
(* calls into bytes, and DataReader or readData turn them back.  A writer  *)
(* or reader that was given a type keeps a stack of the types still due,   *)
(* and a call that does not fit the front of the stack throws.  Without a  *)
(* type (Untyped) every call is taken.  The bytes say nothing of their     *)
(* kind: whoever reads an item as another kind, or reads past the end,     *)
(* gets arbitrary values from there on, and is not told.  Of the values    *)
(* only the sizes of arrays steer anything; the others are left out.       *)
(***************************************************************************)
EXTENDS Naturals, Sequences, SequencesExt

CONSTANTS
  Types,       \* the types of the values
  Parts,       \* these, and the types of their members and elements
  Scalars,     \* the kinds of the types that have no parts
  MaxSize,     \* arrays have at most so many elements
  MaxCalls,    \* a writer is called successfully at most so many times
  Depth,       \* records and arrays stand in each other at most so deep
  Untyped      \* the writer and the reader have no type

VARIABLES
  type,      \* what the writer and the reader were made with
  mode,      \* who is at work; csv and failed are states of Csv
  wstack,    \* m_type of the writer
  out,       \* m_os: the items written
  rstack,    \* m_type of the reader, or the stack of readData
  pos,       \* m_is: the number of items read
  lost,      \* an item was asked for that was not there or is of another kind
  spoilt     \* an array was dropped from a stack since its size was wrong

vars == <<type, mode, wstack, out, rstack, pos, lost, spoilt>>
wvars == <<wstack, out>>
rvars == <<rstack, pos, lost>>

Scalar(kind)    == [kind |-> kind]
Record(body)    == [kind |-> "record", body |-> body]
Array(base, n)  == [kind |-> "array", base |-> base, size |-> n]

Item(kind)  == [kind |-> kind]
SizeItem(n) == [kind |-> "array", size |-> n]

(* What a stack stands for: the scalars and arrays still due, whatever     *)
(* records they are wrapped in.                                            *)
Unwrapped(stack) ==
  FlattenSeq([i \in DOMAIN stack |->
                IF stack[i].kind = "record" THEN stack[i].body ELSE <<stack[i]>>])

Due(stack) ==
  LET u[n \in 0..Depth] == IF n = 0 THEN stack ELSE Unwrapped(u[n - 1])
  IN  u[Depth]

(* The types in which records and arrays stand in each other at most n deep. *)
shallow[n \in 0..Depth] ==
  {t \in Parts :
     \/ t.kind \in Scalars
     \/ n > 0 /\ t.kind = "record" /\ \A k \in DOMAIN t.body : t.body[k] \in shallow[n - 1]
     \/ n > 0 /\ t.kind = "array" /\ t.base \in shallow[n - 1]}

ASSUME CodecAssumption ==
  /\ MaxSize \in Nat /\ MaxCalls \in Nat /\ Depth \in Nat
  /\ "array" \notin Scalars /\ "record" \notin Scalars
  /\ Types \subseteq Parts /\ Untyped \notin Types
  /\ \A t \in Parts :
       /\ t.kind \in Scalars \cup {"record", "array"}
       /\ t.kind = "record" => t.body \in Seq(Parts)
       /\ t.kind = "array"  => t.base \in Parts /\ t.size \in Nat
       /\ \A i \in DOMAIN Due(<<t>>) : Due(<<t>>)[i].kind # "record"
  /\ shallow[Depth] = Parts

Items == {Item(kind) : kind \in Scalars} \cup {SizeItem(n) : n \in 0..MaxSize}

TypeOK ==
  /\ type \in Types \cup {Untyped}
  /\ mode \in {"write", "read", "dump", "csv", "failed"}
  /\ out \in Seq(Items) /\ Len(out) <= MaxCalls
  /\ pos \in 0..Len(out)
  /\ lost \in BOOLEAN /\ spoilt \in BOOLEAN
  /\ type = Untyped => wstack = <<>> /\ rstack = <<>>

----------------------------------------------------------------------------
(* pop_type: one record in front is replaced by its members, once, even if *)
(* the call is refused afterwards; then the front must be of the kind.     *)

(* Slips to test the properties with: the members the wrong way round, and *)
(* records left closed.                                                    *)
OpenedBackwards(stack) ==
  IF stack # <<>> /\ Head(stack).kind = "record"
  THEN Reverse(Head(stack).body) \o Tail(stack)
  ELSE stack

OpenedNever(stack) == stack

Opened(stack) ==
  IF stack # <<>> /\ Head(stack).kind = "record"
  THEN Head(stack).body \o Tail(stack)
  ELSE stack

Fits(stack, kind) ==
  type # Untyped => Opened(stack) # <<>> /\ Head(Opened(stack)).kind = kind

Popped(stack) == IF type = Untyped THEN stack ELSE Tail(Opened(stack))

(* size(): an array of declared size 0 may have any number of elements. *)
SizeFits(stack, n) == type # Untyped => Head(Opened(stack)).size \in {0, n}

Grown(stack, n) ==
  IF type = Untyped THEN stack
  ELSE [i \in 1..n |-> Head(Opened(stack)).base] \o Tail(Opened(stack))

Init ==
  /\ type \in Types \cup {Untyped}
  /\ mode = "write"
  /\ wstack = IF type = Untyped THEN <<>> ELSE <<type>>
  /\ rstack = wstack
  /\ out = <<>> /\ pos = 0
  /\ lost = FALSE /\ spoilt = FALSE

----------------------------------------------------------------------------
(* The writer.  Its caller may call anything at any time, and go on after  *)
(* an exception.                                                           *)

Write(kind) ==
  /\ mode = "write" /\ Len(out) < MaxCalls
  /\ Fits(wstack, kind)
  /\ wstack' = Popped(wstack)
  /\ out' = Append(out, Item(kind))
  /\ UNCHANGED <<type, mode, rvars, spoilt>>

(* A slip to test the properties with: the type is popped before it is     *)
(* looked at.                                                              *)
RefuseWritePops(kind) ==
  /\ mode = "write"
  /\ ~Fits(wstack, kind)
  /\ wstack' = IF Opened(wstack) = <<>> THEN <<>> ELSE Popped(wstack)
  /\ UNCHANGED <<type, mode, out, rvars, spoilt>>

RefuseWrite(kind) ==
  /\ mode = "write"
  /\ ~Fits(wstack, kind)
  /\ wstack' = Opened(wstack)
  /\ UNCHANGED <<type, mode, out, rvars, spoilt>>

WriteSize(n) ==
  /\ mode = "write" /\ Len(out) < MaxCalls
  /\ Fits(wstack, "array") /\ SizeFits(wstack, n)
  /\ wstack' = Grown(wstack, n)
  /\ out' = Append(out, SizeItem(n))
  /\ UNCHANGED <<type, mode, rvars, spoilt>>

(* The type is popped when the size is found to be wrong. *)
RefuseSize(n) ==
  /\ mode = "write"
  /\ Fits(wstack, "array") /\ ~SizeFits(wstack, n)
  /\ wstack' = Popped(wstack)
  /\ spoilt' = TRUE
  /\ UNCHANGED <<type, mode, out, rvars>>

(* build() does not ask whether any type is left. *)
Build ==
  /\ mode = "write"
  /\ mode' \in IF type = Untyped THEN {"read"} ELSE {"read", "dump"}
  /\ UNCHANGED <<type, wvars, rvars, spoilt>>

----------------------------------------------------------------------------
(* The reader finds what was written if an item is there and is of the     *)
(* kind it asks for.                                                       *)
Present(kind) == ~lost /\ pos < Len(out) /\ out[pos + 1].kind = kind

Take(kind) ==
  IF Present(kind) THEN pos' = pos + 1 /\ UNCHANGED lost
                   ELSE lost' = TRUE /\ UNCHANGED pos

TakeSize(n) ==
  /\ Take("array")
  /\ Present("array") => n = out[pos + 1].size

Read(kind) ==
  /\ mode = "read"
  /\ Fits(rstack, kind)
  /\ Take(kind)
  /\ rstack' = Popped(rstack)
  /\ UNCHANGED <<type, mode, wvars, spoilt>>

RefuseRead(kind) ==
  /\ mode = "read"
  /\ ~Fits(rstack, kind)
  /\ rstack' = Opened(rstack)
  /\ UNCHANGED <<type, mode, wvars, pos, lost, spoilt>>

(* A slip to test the properties with: one element for any number of them. *)
ReadSizeOne(n) ==
  /\ mode = "read"
  /\ Fits(rstack, "array")
  /\ TakeSize(n)
  /\ \/ SizeFits(rstack, n) /\ rstack' = Grown(rstack, 1) /\ UNCHANGED spoilt
     \/ ~SizeFits(rstack, n) /\ rstack' = Popped(rstack) /\ spoilt' = TRUE
  /\ UNCHANGED <<type, mode, wvars>>

(* The size is read, and handed to the caller, before it is compared. *)
ReadSize(n) ==
  /\ mode = "read"
  /\ Fits(rstack, "array")
  /\ TakeSize(n)
  /\ \/ SizeFits(rstack, n) /\ rstack' = Grown(rstack, n) /\ UNCHANGED spoilt
     \/ ~SizeFits(rstack, n) /\ rstack' = Popped(rstack) /\ spoilt' = TRUE
  /\ UNCHANGED <<type, mode, wvars>>

----------------------------------------------------------------------------
(* readData goes through the type by itself.  It opens every record it     *)
(* meets, and takes the size of an array from the data alone.              *)
Open ==
  /\ mode = "dump" /\ rstack # <<>> /\ Head(rstack).kind = "record"
  /\ rstack' = Opened(rstack)
  /\ UNCHANGED <<type, mode, wvars, pos, lost, spoilt>>

(* Slips to test the properties with: the type stays on the stack, and the *)
(* size is taken from the type.                                            *)
DumpKeeps ==
  /\ mode = "dump" /\ rstack # <<>> /\ Head(rstack).kind \in Scalars
  /\ Take(Head(rstack).kind)
  /\ UNCHANGED <<type, mode, wvars, rstack, spoilt>>

DumpSizeDeclared(n) ==
  /\ mode = "dump" /\ rstack # <<>> /\ Head(rstack).kind = "array"
  /\ TakeSize(n)
  /\ rstack' = Grown(rstack, Head(rstack).size)
  /\ UNCHANGED <<type, mode, wvars, spoilt>>

Dump ==
  /\ mode = "dump" /\ rstack # <<>> /\ Head(rstack).kind \in Scalars
  /\ Take(Head(rstack).kind)
  /\ rstack' = Tail(rstack)
  /\ UNCHANGED <<type, mode, wvars, spoilt>>

DumpSize(n) ==
  /\ mode = "dump" /\ rstack # <<>> /\ Head(rstack).kind = "array"
  /\ TakeSize(n)
  /\ rstack' = Grown(rstack, n)
  /\ UNCHANGED <<type, mode, wvars, spoilt>>

readData == Open \/ Dump \/ (\E n \in 0..MaxSize : DumpSize(n))

Writes ==
  \/ \E kind \in Scalars : Write(kind) \/ RefuseWrite(kind)
  \/ \E n \in 0..MaxSize : WriteSize(n) \/ RefuseSize(n)
  \/ RefuseWrite("array")

Reads ==
  \/ \E kind \in Scalars : Read(kind) \/ RefuseRead(kind)
  \/ \E n \in 0..MaxSize : ReadSize(n)
  \/ RefuseRead("array")

Next == Writes \/ Build \/ Reads \/ readData

----------------------------------------------------------------------------
(* What the encodings of a type look like, said without a stack: the kinds *)
(* and sizes the value may consist of, one part behind the other.          *)
Strung(sets) ==
  {FlattenSeq(c) : c \in {c \in [DOMAIN sets -> UNION {sets[i] : i \in DOMAIN sets}] :
                            \A i \in DOMAIN sets : c[i] \in sets[i]}}

encodings[t \in Parts] ==
  CASE t.kind = "record" -> Strung([k \in DOMAIN t.body |-> encodings[t.body[k]]])
    [] t.kind = "array"  ->
         UNION {{<<SizeItem(n)>> \o e : e \in Strung([i \in 1..n |-> encodings[t.base]])} :
                n \in IF t.size = 0 THEN 0..MaxSize ELSE {t.size}}
    [] OTHER -> {<<Item(t.kind)>>}

(* A call that is refused changes nothing for the calls that fit: the      *)
(* caller may catch the exception and go on.  The exception to this is a   *)
(* size that is wrong, which takes the array from the stack.               *)
RefusalHarmless ==
  [][out' = out /\ pos' = pos /\ ~spoilt' /\ ~lost'
       => Due(wstack') = Due(wstack) /\ Due(rstack') = Due(rstack)]_vars

(* A call that fits what is due is refused only while the front of the     *)
(* stack is a record that starts with a record or has no members.          *)
Awkward(stack) ==
  /\ Head(stack).kind = "record"
  /\ LET body == Head(stack).body
     IN  IF body # <<>> THEN Head(body).kind = "record"
         ELSE Len(stack) > 1 /\ stack[2].kind = "record"

RefusedOnlyWrong ==
  /\ TypeOK
  /\ \A stack \in {wstack, rstack} :
       type # Untyped /\ Due(stack) # <<>> /\ ~Fits(stack, Head(Due(stack)).kind) => Awkward(stack)

(* A reader that has made the calls the writer made, and no others,        *)
(* accepts the next of them, at once or when it is repeated, and when      *)
(* there is none has left to read what the writer had left to write.       *)
Followed ==
  mode = "read" /\ type # Untyped /\ ~spoilt /\ ~lost =>
    IF pos < Len(out)
    THEN Due(rstack) # <<>> /\ Head(Due(rstack)).kind = out[pos + 1].kind
    ELSE Due(rstack) = Due(wstack)

(* readData finds every item of a value that was written to its end, and   *)
(* nothing is left over, unless a size was refused on the way.             *)
DumpedWhole ==
  mode = "dump" /\ ~spoilt /\ Due(wstack) = <<>> =>
    ~lost /\ (rstack = <<>> => pos = Len(out))

(* readData always comes to its end, whatever it reads as sizes. *)
DumpEnds == mode = "dump" ~> rstack = <<>>
============================================================================
