------------------------------- MODULE Scope -------------------------------
(***************************************************************************)
(* The loops CompileExprImpl emits for the scopes of a specification:      *)
(* before, after, while, between-and and after-until.  Each walks over the *)
(* segment 0..N (rows 0 and N bracket the data rows), finds sub-segments   *)
(* and runs the body on them, with the sub-segment's own brackets as frst  *)
(* and last and the row behind frst as the current one.                    *)
(*                                                                         *)
(* The conditions of a scope are functions of the row; the body is any     *)
(* sub-specification and is known by the set of segments it holds on.      *)
(***************************************************************************)
EXTENDS Integers

CONSTANTS
  N,         \* the row *last; row 0 is *frst
  Operands,  \* the valuations a condition may have
  Bodies,    \* the sets of segments a body may hold on
  None       \* no answer yet

Row == 0..N

Segment == {s \in Row \X Row : s[1] < s[2]}

ASSUME ScopeAssumption ==
  /\ N \in Nat \ {0}
  /\ Operands \subseteq [Row -> BOOLEAN]
  /\ Bodies \subseteq SUBSET Segment
  /\ None \notin BOOLEAN

Scopes == {"before", "after", "while", "between", "until"}

VARIABLES
  call,       \* the scope, its conditions lhs and rhs, its body
  pc,         \* the block to run
  curr,       \* the PHI nodes of the block "while"
  inside,
  innerFrst,
  result      \* None before the loop is left

vars == <<call, pc, curr, inside, innerFrst, result>>

Calls == [scope : Scopes, lhs : Operands, rhs : Operands, body : Bodies]

Blocks == {"while", "test", "cond", "body", "next", "tail", "done"}

TypeOK ==
  /\ call \in Calls
  /\ pc \in Blocks
  /\ curr \in 1..(N + 1)
  /\ inside \in BOOLEAN
  /\ innerFrst \in Row
  /\ result \in BOOLEAN \cup {None}

Init ==
  /\ call \in Calls
  /\ pc = "while"
  /\ curr = 1
  /\ inside = FALSE
  /\ innerFrst = 0
  /\ result = None

----------------------------------------------------------------------------
Goto(block) == pc' = block /\ UNCHANGED <<call, curr, inside, innerFrst, result>>

Leave(value) == pc' = "done" /\ result' = value /\ UNCHANGED <<call, curr, inside, innerFrst>>

(* before and after look for one row; the others open and close segments. *)
Searches == call.scope \in {"before", "after"}

(* while P is between P and !P; between is the only loop with a block "tail" *)
Opens(i)  == call.lhs[i]
Closes(i) == IF call.scope = "while" THEN ~call.lhs[i] ELSE call.rhs[i]
HasTail   == call.scope \in {"while", "between"}

(* Slips to test the properties with: the loop bound off by one, the end   *)
(* of a segment not remembered, the opening row left out of its segment,   *)
(* rows never left.                                                        *)
WhileOneMore ==
  /\ pc = "while"
  /\ \/ curr <= N /\ Searches /\ Goto("test")
     \/ curr <= N /\ ~Searches /\ Goto("cond")
     \/ curr > N /\ HasTail /\ Goto("tail")
     \/ curr > N /\ ~HasTail /\ Leave(TRUE)

CondStaysInside ==
  LET enter == ~inside /\ Opens(curr) /\ ~Closes(curr)
      leave == inside /\ Closes(curr)
  IN  /\ pc = "cond"
      /\ inside' = (inside \/ enter)
      /\ innerFrst' = IF enter THEN curr - 1 ELSE innerFrst
      /\ pc' = IF leave THEN "body" ELSE "next"
      /\ UNCHANGED <<call, curr, result>>

AdvanceNowhere == pc = "next" /\ Goto("while")

CondLateFrst ==
  LET enter == ~inside /\ Opens(curr) /\ ~Closes(curr)
      leave == inside /\ Closes(curr)
  IN  /\ pc = "cond"
      /\ inside' = ((inside \/ enter) /\ ~leave)
      /\ innerFrst' = IF enter THEN curr ELSE innerFrst
      /\ pc' = IF leave THEN "body" ELSE "next"
      /\ UNCHANGED <<call, curr, result>>

While ==
  /\ pc = "while"
  /\ \/ curr < N /\ Searches /\ Goto("test")
     \/ curr < N /\ ~Searches /\ Goto("cond")
     \/ curr >= N /\ HasTail /\ Goto("tail")
     \/ curr >= N /\ ~HasTail /\ Leave(TRUE)

Test ==
  /\ pc = "test"
  /\ Goto(IF Opens(curr) THEN "body" ELSE "next")

Cond ==
  LET enter == ~inside /\ Opens(curr) /\ ~Closes(curr)
      leave == inside /\ Closes(curr)
  IN  /\ pc = "cond"
      /\ inside' = ((inside \/ enter) /\ ~leave)
      /\ innerFrst' = IF enter THEN curr - 1 ELSE innerFrst
      /\ pc' = IF leave THEN "body" ELSE "next"
      /\ UNCHANGED <<call, curr, result>>

(* frst and last of the segment the body runs on *)
BodySegment ==
  CASE call.scope = "before" -> <<0, curr>>
    [] call.scope = "after"  -> <<curr - 1, N>>
    [] OTHER                 -> <<innerFrst, curr>>

Body ==
  /\ pc = "body"
  /\ \/ Searches /\ Leave(BodySegment \in call.body)
     \/ ~Searches /\ BodySegment \in call.body /\ Goto("next")
     \/ ~Searches /\ BodySegment \notin call.body /\ Leave(FALSE)

Advance ==
  /\ pc = "next"
  /\ pc' = "while"
  /\ curr' = curr + 1
  /\ UNCHANGED <<call, inside, innerFrst, result>>

(* The segment that is still open at the end; the loop comes back here     *)
(* with curr behind last.                                                  *)
RunTail ==
  /\ pc = "tail"
  /\ \/ curr = N /\ inside /\ Goto("body")
     \/ ~(curr = N /\ inside) /\ Leave(TRUE)

Next == While \/ Test \/ Cond \/ Body \/ Advance \/ RunTail

Spec == Init /\ [][Next]_vars

FairSpec == Spec /\ WF_vars(Next)

----------------------------------------------------------------------------
(***************************************************************************)
(* The segments of a scope, without a loop.                                *)
(***************************************************************************)
Data == 1..(N - 1)

FirstIn(S) == {i \in S : \A j \in S : i <= j}

Starts(c, i) == c.lhs[i] /\ (c.scope = "while" \/ ~c.rhs[i])
Ends(c, i)   == IF c.scope = "while" THEN ~c.lhs[i] ELSE c.rhs[i]

(* A row opens a segment unless an earlier one is still open there. *)
Opening(c) ==
  {i \in Data : Starts(c, i) /\ \A j \in 1..(i - 1) : Starts(c, j) => \E k \in j..i : Ends(c, k)}

(* The row that closes the segment opened at i. *)
Closing(c, i) == FirstIn({k \in Data : k > i /\ Ends(c, k)})

Segments(c) ==
  CASE c.scope = "before" -> {<<0, i>> : i \in FirstIn({k \in Data : c.lhs[k]})}
    [] c.scope = "after"  -> {<<i - 1, N>> : i \in FirstIn({k \in Data : c.lhs[k]})}
    [] c.scope = "until"  ->
         {<<s[1] - 1, s[2]>> : s \in {p \in Opening(c) \X Data : p[2] \in Closing(c, p[1])}}
    [] OTHER ->
         {<<s[1] - 1, s[2]>> :
            s \in {p \in Opening(c) \X (Data \cup {N}) :
                     IF Closing(c, p[1]) = {} THEN p[2] = N ELSE p[2] \in Closing(c, p[1])}}

Meaning(c) == Segments(c) \subseteq c.body

----------------------------------------------------------------------------
(* The conditions are evaluated on data rows only, and the body on a       *)
(* segment within this one; it has no data rows only in front of a first   *)
(* row that ends it (before).                                              *)
InsideSegment ==
  /\ TypeOK
  /\ pc \in {"test", "cond"} => curr \in Data
  /\ pc = "body" =>
       /\ BodySegment \in Segment
       /\ BodySegment[1] + 1 = BodySegment[2] => call.scope = "before"

(* The body of "while P" runs on the maximal runs of rows with P. *)
WhileRuns ==
  pc = "body" /\ call.scope = "while" =>
    /\ \A i \in (innerFrst + 1)..(curr - 1) : call.lhs[i]
    /\ innerFrst # 0 => ~call.lhs[innerFrst]
    /\ curr # N => ~call.lhs[curr]

(* A scope holds iff its body holds on each of its segments: the rows in   *)
(* front of the first match, from the first match on, or from every        *)
(* opening row up to the row that closes it; a segment the trace does not  *)
(* close counts for between and while, and not for after-until.  The loop  *)
(* answers once, and only with that.                                       *)
Promise == INSTANCE Answer WITH Meant <- Meaning, Pending <- None, answer <- result

Implements == Promise!Spec

(* Every scope is decided in the end. *)
Terminates == <>(pc = "done")
============================================================================
