---------------------------- MODULE ScopeProofs ----------------------------
(***************************************************************************)
(* Proofs about Scope and Emission: the loops of the scopes run the body   *)
(* on the segments the scope means, for traces of any length and for any   *)
(* conditions and bodies; and the code emitted for nested scopes refers to *)
(* the rows it should, for nestings of any depth and order.                *)
(***************************************************************************)
EXTENDS Scope, Emission, WellFoundedInduction, FiniteSetTheorems, SequenceTheorems, TLAPS

(* The last data row the loop has dealt with. *)
Passed == IF pc \in {"body", "next"} THEN curr ELSE curr - 1

(* Where each block finds the rows. *)
AtBlock ==
  /\ pc = "while" => curr <= N \/ HasTail
  /\ pc = "test" => Searches /\ curr < N
  /\ pc = "cond" => ~Searches /\ curr < N
  /\ pc = "tail" => HasTail /\ curr >= N
  /\ pc \in {"body", "next"} => curr < N \/ (HasTail /\ curr = N)
  /\ pc # "done" => result = None

(* before and after: no row passed matches, and the body runs at one that  *)
(* does.                                                                   *)
Searching ==
  Searches /\ pc # "done" =>
    /\ \A k \in Data : k < curr \/ (pc = "next" /\ k = curr) => ~call.lhs[k]
    /\ pc = "body" => call.lhs[curr]

(* The others: whether a segment is open behind the rows passed, and which.*)
Following ==
  ~Searches /\ pc # "done" =>
    /\ inside =>
         /\ innerFrst + 1 \in Opening(call) /\ innerFrst < Passed
         /\ \A k \in Data : innerFrst < k /\ k <= Passed => ~Ends(call, k)
    /\ ~inside =>
         \A j \in Data : j <= Passed /\ Starts(call, j) => \E k \in Data : j <= k /\ k <= Passed /\ Ends(call, k)

(* The body held on every segment that was closed so far; at the block     *)
(* "body" the one at hand is still to be looked at.                        *)
Held ==
  ~Searches /\ pc # "done" =>
    /\ \A i \in Opening(call) : \A k \in Closing(call, i) :
         k < curr \/ (pc = "next" /\ k = curr) => <<i - 1, k>> \in call.body
    /\ pc = "body" /\ curr < N =>
         /\ ~inside /\ innerFrst + 1 \in Opening(call) /\ innerFrst + 1 < curr
         /\ curr \in Closing(call, innerFrst + 1)
    /\ pc = "body" /\ curr = N => inside
    /\ curr > N \/ (pc = "next" /\ curr = N) => inside /\ <<innerFrst, N>> \in call.body

Answers == pc = "done" => result = Meaning(call)

IInv == TypeOK /\ AtBlock /\ Searching /\ Following /\ Held /\ Answers

----------------------------------------------------------------------------
(* A set of naturals that is not empty has a least element. *)
LEMMA LeastElement ==
  ASSUME NEW S \in SUBSET Nat, S # {}
  PROVE  \E i \in S : \A j \in S : i <= j
<1> DEFINE R == OpToRel(<, Nat)
<1>1. IsWellFoundedOn(R, Nat)
  BY NatLessThanWellFounded
<1>2. \A i, j \in Nat : i < j => <<i, j>> \in R
  BY DEF OpToRel
<1> HIDE DEF R
<1>3. PICK x \in S : \A y \in S : ~(<<y, x>> \in R)
  BY <1>1, WFMin
<1>4. ASSUME NEW y \in S PROVE x <= y
  <2>1. x \in Nat /\ y \in Nat
    OBVIOUS
  <2>2. ~(y < x)
    BY <1>2, <1>3, <2>1, Zenon
  <2> QED BY <2>1, <2>2
<1> QED BY <1>4

(* The fields of a call, as the provers need them. *)
LEMMA CallFields ==
  ASSUME NEW c \in Calls
  PROVE  /\ c.scope \in Scopes
         /\ \A i \in Row : c.lhs[i] \in BOOLEAN /\ c.rhs[i] \in BOOLEAN
         /\ \A i \in Row : Starts(c, i) \in BOOLEAN /\ Ends(c, i) \in BOOLEAN
         /\ \A i \in Row : Starts(c, i) => ~Ends(c, i)
<1>1. c.scope \in Scopes /\ c.lhs \in Operands /\ c.rhs \in Operands
  BY DEF Calls
<1>2. c.lhs \in [Row -> BOOLEAN] /\ c.rhs \in [Row -> BOOLEAN]
  BY <1>1, ScopeAssumption
<1> QED BY <1>1, <1>2 DEF Starts, Ends

(* The rows that carry data are rows of the segment. *)
LEMMA DataRows == /\ N \in Nat /\ N >= 1
                  /\ Data \subseteq Row /\ Data \subseteq Nat
                  /\ \A k \in Int : k \in Data <=> 1 <= k /\ k < N
                  /\ \A k \in Int : k \in Row <=> 0 <= k /\ k <= N
BY ScopeAssumption DEF Data, Row

(* A row that ends the segment opened at i, with none before it that does, *)
(* is the one that closes it.                                              *)
LEMMA ClosingRow ==
  ASSUME NEW c \in Calls, NEW i \in Data, NEW k
  PROVE  k \in Closing(c, i) <=> /\ k \in Data /\ i < k /\ Ends(c, k)
                                /\ \A j \in Data : i < j /\ Ends(c, j) => k <= j
BY DEF Closing, FirstIn

(* A segment that some later row ends is closed by one of them. *)
LEMMA ClosedInTime ==
  ASSUME NEW c \in Calls, NEW i \in Data, NEW k \in Data, i < k, Ends(c, k)
  PROVE  \E j \in Closing(c, i) : j <= k
<1> DEFINE S == {j \in Data : i < j /\ Ends(c, j)}
<1>1. S \in SUBSET Nat /\ S # {}
  BY DataRows
<1>2. PICK j \in S : \A n \in S : j <= n
  <2> HIDE DEF S
  <2> QED BY <1>1, LeastElement
<1>3. j \in Closing(c, i)
  BY <1>2, ClosingRow
<1> QED BY <1>2, <1>3

(* A row opens a segment iff it starts one and every segment that could    *)
(* still be open there has ended.                                          *)
LEMMA OpeningRow ==
  ASSUME NEW c \in Calls, NEW i
  PROVE  i \in Opening(c) <=>
           /\ i \in Data /\ Starts(c, i)
           /\ \A j \in Data : j < i /\ Starts(c, j) => \E k \in Data : j < k /\ k < i /\ Ends(c, k)
<1>1. CASE i \in Data /\ Starts(c, i)
  <2>1. i \in Int /\ ~Ends(c, i)
    BY <1>1, DataRows, CallFields
  <2>2. \A j \in 1..(i - 1) : j \in Data /\ j < i
    BY <1>1, DataRows
  <2>3. \A j \in Data : j < i => j \in 1..(i - 1)
    BY <1>1, DataRows
  <2>4. \A j \in Data : j < i /\ Starts(c, j) =>
          ((\E k \in j..i : Ends(c, k)) <=> \E k \in Data : j < k /\ k < i /\ Ends(c, k))
    <3> SUFFICES ASSUME NEW j \in Data, j < i, Starts(c, j)
                 PROVE  (\E k \in j..i : Ends(c, k)) <=> \E k \in Data : j < k /\ k < i /\ Ends(c, k)
      OBVIOUS
    <3>1. ~Ends(c, j)
      BY DataRows, CallFields
    <3>2. ASSUME NEW k \in j..i, Ends(c, k) PROVE k \in Data /\ j < k /\ k < i
      <4>1. k # i /\ k # j
        BY <2>1, <3>1, <3>2
      <4> QED BY <1>1, <4>1, DataRows
    <3>3. ASSUME NEW k \in Data, j < k, k < i PROVE k \in j..i
      BY <1>1, <3>3, DataRows
    <3> QED BY <3>2, <3>3
  <2> QED BY <1>1, <2>2, <2>3, <2>4 DEF Opening
<1>2. CASE ~(i \in Data /\ Starts(c, i))
  BY <1>2 DEF Opening
<1> QED BY <1>1, <1>2

(* What a call of before or after means, once the first match is known. *)
LEMMA SearchMeaning ==
  ASSUME NEW c \in Calls, c.scope \in {"before", "after"}
  PROVE  /\ (\A k \in Data : ~c.lhs[k]) => Meaning(c) = TRUE
         /\ \A i \in Data : c.lhs[i] /\ (\A k \in Data : k < i => ~c.lhs[k]) =>
              Meaning(c) = ((IF c.scope = "before" THEN <<0, i>> ELSE <<i - 1, N>>) \in c.body)
<1> DEFINE M == {k \in Data : c.lhs[k]}
<1>1. Segments(c) = IF c.scope = "before" THEN {<<0, i>> : i \in FirstIn(M)}
                                          ELSE {<<i - 1, N>> : i \in FirstIn(M)}
  BY DEF Segments
<1>2. ASSUME \A k \in Data : ~c.lhs[k] PROVE Meaning(c) = TRUE
  <2>1. FirstIn(M) = {}
    BY <1>2 DEF FirstIn
  <2> QED BY <1>1, <2>1 DEF Meaning
<1>3. ASSUME NEW i \in Data, c.lhs[i], \A k \in Data : k < i => ~c.lhs[k]
      PROVE  Meaning(c) = ((IF c.scope = "before" THEN <<0, i>> ELSE <<i - 1, N>>) \in c.body)
  <2>1. i \in M /\ \A k \in M : i <= k
    BY <1>3, DataRows
  <2>2. \A k \in M : k \in Nat
    BY DataRows
  <2>3. FirstIn(M) = {i}
    BY <2>1, <2>2 DEF FirstIn
  <2>4. Segments(c) = {IF c.scope = "before" THEN <<0, i>> ELSE <<i - 1, N>>}
    BY <1>1, <2>3
  <2> QED BY <2>4 DEF Meaning
<1> QED BY <1>2, <1>3

(* What the others mean: the body holds on every segment that is closed,   *)
(* and for while and between on the one that is not.                       *)
LEMMA FollowMeaning ==
  ASSUME NEW c \in Calls, c.scope \in {"while", "between", "until"}
  PROVE  Meaning(c) <=>
           \A i \in Opening(c) :
             /\ \A k \in Closing(c, i) : <<i - 1, k>> \in c.body
             /\ c.scope # "until" /\ Closing(c, i) = {} => <<i - 1, N>> \in c.body
<1>1. \A i \in Opening(c) : \A k \in Closing(c, i) : k \in Data
  BY DEF Closing, FirstIn
<1>2. CASE c.scope = "until"
  <2>1. Segments(c) = {<<s[1] - 1, s[2]>> : s \in {p \in Opening(c) \X Data : p[2] \in Closing(c, p[1])}}
    BY <1>2 DEF Segments
  <2>2. \A i \in Opening(c) : \A k \in Closing(c, i) : <<i - 1, k>> \in Segments(c)
    <3> SUFFICES ASSUME NEW i \in Opening(c), NEW k \in Closing(c, i)
                 PROVE  <<i - 1, k>> \in Segments(c)
      OBVIOUS
    <3>1. <<i, k>> \in {p \in Opening(c) \X Data : p[2] \in Closing(c, p[1])}
      BY <1>1
    <3> QED BY <2>1, <3>1
  <2>3. \A s \in Segments(c) : \E i \in Opening(c) : \E k \in Closing(c, i) : s = <<i - 1, k>>
    BY <2>1
  <2>4. \A i \in Opening(c) : \A k \in Closing(c, i) : Meaning(c) => <<i - 1, k>> \in c.body
    BY <2>2 DEF Meaning
  <2>5. (\A i \in Opening(c) : \A k \in Closing(c, i) : <<i - 1, k>> \in c.body) => Meaning(c)
    BY <2>3 DEF Meaning
  <2> QED BY <1>2, <2>4, <2>5, Zenon
<1>3. CASE c.scope # "until"
  <2> DEFINE P == {p \in Opening(c) \X (Data \cup {N}) :
                     IF Closing(c, p[1]) = {} THEN p[2] = N ELSE p[2] \in Closing(c, p[1])}
  <2>1. Segments(c) = {<<s[1] - 1, s[2]>> : s \in P}
    BY <1>3 DEF Segments
  <2>2. \A i \in Opening(c) : \A k \in Closing(c, i) : <<i - 1, k>> \in Segments(c)
    <3> SUFFICES ASSUME NEW i \in Opening(c), NEW k \in Closing(c, i)
                 PROVE  <<i - 1, k>> \in Segments(c)
      OBVIOUS
    <3>1. <<i, k>> \in P
      BY <1>1
    <3> QED BY <2>1, <3>1
  <2>3. \A i \in Opening(c) : Closing(c, i) = {} => <<i - 1, N>> \in Segments(c)
    <3> SUFFICES ASSUME NEW i \in Opening(c), Closing(c, i) = {}
                 PROVE  <<i - 1, N>> \in Segments(c)
      OBVIOUS
    <3>1. <<i, N>> \in P
      OBVIOUS
    <3> QED BY <2>1, <3>1
  <2>4. \A s \in Segments(c) : \E i \in Opening(c) :
          \/ \E k \in Closing(c, i) : s = <<i - 1, k>>
          \/ Closing(c, i) = {} /\ s = <<i - 1, N>>
    BY <2>1
  <2> HIDE DEF P
  <2>5. \A i \in Opening(c) : \A k \in Closing(c, i) : Meaning(c) => <<i - 1, k>> \in c.body
    BY <2>2 DEF Meaning
  <2>6. \A i \in Opening(c) : Closing(c, i) = {} /\ Meaning(c) => <<i - 1, N>> \in c.body
    BY <2>3 DEF Meaning
  <2>7. ASSUME \A i \in Opening(c) :
                  /\ \A k \in Closing(c, i) : <<i - 1, k>> \in c.body
                  /\ Closing(c, i) = {} => <<i - 1, N>> \in c.body
        PROVE  Meaning(c)
    <3>1. ASSUME NEW s \in Segments(c) PROVE s \in c.body
      <4>1. PICK i \in Opening(c) :
              \/ \E k \in Closing(c, i) : s = <<i - 1, k>>
              \/ Closing(c, i) = {} /\ s = <<i - 1, N>>
        BY <2>4, Zenon
      <4> QED BY <2>7, <4>1
    <3> QED BY <3>1 DEF Meaning
  <2> QED BY <1>3, <2>5, <2>6, <2>7, Zenon
<1> QED BY <1>2, <1>3

(* A row closes one segment at most. *)
LEMMA ClosesOne ==
  ASSUME NEW c \in Calls, NEW i \in Opening(c), NEW j \in Opening(c),
         NEW k \in Closing(c, i), k \in Closing(c, j)
  PROVE  i = j
<1>1. /\ i \in Data /\ Starts(c, i)
      /\ \A h \in Data : h < i /\ Starts(c, h) => \E m \in Data : h < m /\ m < i /\ Ends(c, m)
  BY OpeningRow
<1>2. /\ j \in Data /\ Starts(c, j)
      /\ \A h \in Data : h < j /\ Starts(c, h) => \E m \in Data : h < m /\ m < j /\ Ends(c, m)
  BY OpeningRow
<1>3. /\ k \in Data /\ i < k /\ \A m \in Data : i < m /\ Ends(c, m) => k <= m
  BY <1>1, ClosingRow
<1>4. /\ j < k /\ \A m \in Data : j < m /\ Ends(c, m) => k <= m
  BY <1>2, ClosingRow
<1>5. i \in Nat /\ j \in Nat /\ k \in Nat /\ \A m \in Data : m \in Nat
  BY <1>1, <1>2, <1>3, DataRows
<1>6. ~(i < j)
  BY <1>1, <1>2, <1>3, <1>4, <1>5
<1>7. ~(j < i)
  BY <1>1, <1>2, <1>3, <1>4, <1>5
<1> QED BY <1>5, <1>6, <1>7

----------------------------------------------------------------------------
(* The kinds of scopes, and what a scope's conditions are on a row. *)
LEMMA Kinds ==
  ASSUME TypeOK
  PROVE  /\ call \in Calls
         /\ Searches <=> call.scope \in {"before", "after"}
         /\ ~Searches <=> call.scope \in {"while", "between", "until"}
         /\ HasTail <=> call.scope \in {"while", "between"}
         /\ \A i \in Row : Closes(i) = Ends(call, i)
         /\ ~Searches => \A i \in Row : Opens(i) /\ ~Closes(i) <=> Starts(call, i)
<1>1. call \in Calls /\ call.scope \in Scopes
  BY CallFields DEF TypeOK
<1>2. \A i \in Row : call.lhs[i] \in BOOLEAN /\ call.rhs[i] \in BOOLEAN
  BY <1>1, CallFields
<1> QED BY <1>1, <1>2 DEF Searches, HasTail, Scopes, Closes, Opens, Starts, Ends

LEMMA InitIInv == Init => IInv
<1> SUFFICES ASSUME Init PROVE IInv
  OBVIOUS
<1>1. TypeOK
  <2>1. 1 \in 1..(N + 1) /\ 0 \in Row
    BY DataRows
  <2> QED BY <2>1 DEF Init, TypeOK, Blocks
<1>2. ~inside /\ curr = 1 /\ Passed = 0 /\ pc = "while" /\ result = None
  BY DEF Init, Passed
<1>3. AtBlock
  BY <1>2, DataRows DEF AtBlock
<1>4. Searching /\ Following
  BY <1>2, DataRows DEF Searching, Following
<1>5. Held
  <2>1. \A i \in Opening(call) : \A k \in Closing(call, i) : k >= 1
    BY DataRows DEF Closing, FirstIn
  <2>2. \A i \in Opening(call) : \A k \in Closing(call, i) : k \in Nat
    BY DataRows DEF Closing, FirstIn
  <2> QED BY <1>2, <2>1, <2>2, DataRows DEF Held
<1> QED BY <1>1, <1>2, <1>3, <1>4, <1>5 DEF IInv, Answers

(* Leaving a loop that is at the end of its rows. *)
LEMMA Exhausted ==
  ASSUME IInv, pc \in {"while", "tail"}, curr >= N,
         pc = "while" => ~HasTail,
         pc = "tail" => ~(curr = N /\ inside)
  PROVE  Meaning(call) = TRUE
<1>1. /\ TypeOK /\ call \in Calls /\ curr \in Nat /\ innerFrst \in Nat
      /\ pc # "done" /\ pc # "next" /\ pc # "body" /\ Passed = curr - 1
  BY Kinds, DataRows DEF IInv, TypeOK, Passed
<1>2. CASE Searches
  <2>1. call.scope \in {"before", "after"}
    BY <1>1, <1>2, Kinds
  <2>2. \A k \in Data : ~call.lhs[k]
    BY <1>1, <1>2, DataRows DEF IInv, Searching
  <2> QED BY <1>1, <2>1, <2>2, SearchMeaning
<1>3. CASE ~Searches
  <2>1. /\ call.scope \in {"while", "between", "until"}
        /\ HasTail <=> call.scope # "until"
    BY <1>1, <1>3, Kinds
  <2>2. ASSUME NEW i \in Opening(call), NEW k \in Closing(call, i)
        PROVE  <<i - 1, k>> \in call.body
    <3>1. k \in Data /\ k < curr
      BY <1>1, DataRows DEF Closing, FirstIn
    <3> QED BY <1>1, <1>3, <3>1 DEF IInv, Held
  <2>3. ASSUME NEW i \in Opening(call), HasTail, Closing(call, i) = {}
        PROVE  <<i - 1, N>> \in call.body
    <3>1. pc = "tail"
      BY <2>3
    <3>2. /\ i \in Data /\ i \in Nat /\ Starts(call, i) /\ ~Ends(call, i)
          /\ \A j \in Data : j < i /\ Starts(call, j) => \E k \in Data : j < k /\ k < i /\ Ends(call, k)
      BY <1>1, OpeningRow, CallFields, DataRows
    <3>3. \A k \in Data : k \in Nat /\ k < N /\ k <= curr - 1
      BY <1>1, DataRows
    <3>4. \A k \in Data : i < k => ~Ends(call, k)
      BY <1>1, <2>3, <3>2, ClosedInTime
    <3>5. inside
      <4> SUFFICES ASSUME ~inside PROVE FALSE
        OBVIOUS
      <4>1. PICK k \in Data : i <= k /\ Ends(call, k)
        BY <1>1, <1>3, <3>2, <3>3 DEF IInv, Following
      <4> QED BY <3>2, <3>3, <3>4, <4>1
    <3>6. curr > N /\ <<innerFrst, N>> \in call.body
      BY <1>1, <1>3, <3>1, <3>5, DataRows DEF IInv, Held
    <3>7. /\ innerFrst + 1 \in Opening(call)
          /\ \A k \in Data : innerFrst < k => ~Ends(call, k)
      BY <1>1, <1>3, <3>3, <3>5 DEF IInv, Following
    <3>8. /\ innerFrst + 1 \in Data /\ Starts(call, innerFrst + 1)
          /\ \A j \in Data : j < innerFrst + 1 /\ Starts(call, j) =>
               \E k \in Data : j < k /\ k < innerFrst + 1 /\ Ends(call, k)
      BY <1>1, <3>7, OpeningRow
    <3>9. ~(i < innerFrst + 1)
      BY <3>2, <3>4, <3>8
    <3>10. ~(innerFrst + 1 < i)
      BY <1>1, <3>2, <3>3, <3>7, <3>8
    <3> QED BY <1>1, <3>2, <3>6, <3>9, <3>10
  <2> HIDE DEF HasTail
  <2>4. Meaning(call)
    BY <1>1, <2>1, <2>2, <2>3, FollowMeaning
  <2> QED BY <2>4 DEF Meaning
<1> QED BY <1>2, <1>3

(* A condition that is evaluated on the row at hand keeps the invariant.   *)
LEMMA CondStep == IInv /\ Cond => IInv'
<1> SUFFICES ASSUME IInv, Cond PROVE IInv'
  OBVIOUS
<1> DEFINE enter == ~inside /\ Starts(call, curr)
           leave == inside /\ Ends(call, curr)
<1>1. /\ TypeOK /\ call \in Calls /\ pc = "cond" /\ result = None
      /\ ~Searches /\ call.scope \in {"while", "between", "until"}
      /\ curr < N /\ curr \in Data /\ curr \in Row /\ curr \in Nat /\ innerFrst \in Nat
      /\ inside \in BOOLEAN
      /\ Passed = curr - 1
  BY Kinds, DataRows DEF IInv, AtBlock, TypeOK, Passed, Cond
<1>2. /\ inside' = ((inside \/ enter) /\ ~leave)
      /\ innerFrst' = IF enter THEN curr - 1 ELSE innerFrst
      /\ pc' = IF leave THEN "body" ELSE "next"
      /\ call' = call /\ curr' = curr /\ result' = result
  BY <1>1, Kinds DEF Cond
<1>3. Passed' = curr /\ Searches' = Searches /\ HasTail' = HasTail
  BY <1>2 DEF Passed, Searches, HasTail
<1>4. Starts(call, curr) => ~Ends(call, curr)
  BY <1>1, CallFields
<1>5. \A k \in Data : k \in Nat /\ (k <= curr <=> k <= curr - 1 \/ k = curr)
  BY <1>1, DataRows
<1>6. inside => /\ innerFrst + 1 \in Opening(call) /\ innerFrst + 1 < curr /\ innerFrst + 1 \in Data
                /\ \A k \in Data : innerFrst < k /\ k <= curr - 1 => ~Ends(call, k)
  <2>1. inside => /\ innerFrst + 1 \in Opening(call) /\ innerFrst < curr - 1
                  /\ \A k \in Data : innerFrst < k /\ k <= curr - 1 => ~Ends(call, k)
    BY <1>1 DEF IInv, Following
  <2>2. inside => innerFrst + 1 \in Data
    BY <1>1, <2>1, OpeningRow
  <2> QED BY <1>1, <2>1, <2>2
<1>7. ~inside => \A j \in Data : j <= curr - 1 /\ Starts(call, j) =>
                   \E k \in Data : j <= k /\ k <= curr - 1 /\ Ends(call, k)
  BY <1>1 DEF IInv, Following
<1>8. TypeOK' /\ AtBlock'
  <2>1. innerFrst' \in Row
    BY <1>1, <1>2, DataRows DEF TypeOK
  <2>2. pc' \in Blocks /\ inside' \in BOOLEAN
    BY <1>2 DEF Blocks
  <2>3. TypeOK'
    BY <1>1, <1>2, <2>1, <2>2 DEF TypeOK
  <2> QED BY <1>1, <1>2, <2>3 DEF AtBlock
<1>9. Following'
  <2>1. CASE enter
    <3>1. curr \in Opening(call)
      <4>1. ASSUME NEW j \in Data, j < curr, Starts(call, j)
            PROVE  \E k \in Data : j < k /\ k < curr /\ Ends(call, k)
        <5>1. PICK k \in Data : j <= k /\ k <= curr - 1 /\ Ends(call, k)
          BY <1>1, <1>5, <1>7, <2>1, <4>1
        <5>2. k # j
          BY <1>1, <4>1, <5>1, CallFields, DataRows
        <5> QED BY <1>1, <1>5, <5>1, <5>2
      <4> QED BY <1>1, <2>1, <4>1, OpeningRow
    <3>2. /\ innerFrst' + 1 = curr /\ innerFrst' = curr - 1 /\ inside'
      <4>1. enter /\ ~leave
        BY <2>1
      <4>2. inside'
        BY <1>2, <4>1, Zenon
      <4>3. innerFrst' = curr - 1
        BY <1>2, <4>1, Zenon
      <4> QED BY <1>1, <4>2, <4>3
    <3>3. \A k \in Data : innerFrst' < k /\ k <= Passed' => k = curr
      BY <1>1, <1>3, <1>5, <3>2
    <3> QED BY <1>1, <1>2, <1>3, <1>4, <2>1, <3>1, <3>2, <3>3 DEF Following
  <2>2. CASE leave
    <3>1. ~inside' /\ inside
      BY <1>1, <1>2, <2>2
    <3>2. ASSUME NEW j \in Data, j <= curr, Starts(call, j)
          PROVE  \E k \in Data : j <= k /\ k <= curr /\ Ends(call, k)
      BY <1>1, <1>5, <2>2, <3>2
    <3> QED BY <1>1, <1>2, <1>3, <3>1, <3>2 DEF Following
  <2>3. CASE inside /\ ~leave
    <3>1. inside' /\ innerFrst' = innerFrst
      BY <1>1, <1>2, <2>3
    <3>2. \A k \in Data : innerFrst < k /\ k <= curr => ~Ends(call, k)
      BY <1>5, <1>6, <2>3
    <3> QED BY <1>1, <1>2, <1>3, <1>6, <2>3, <3>1, <3>2 DEF Following
  <2>4. CASE ~inside /\ ~enter
    <3>1. ~inside'
      BY <1>1, <1>2, <2>4
    <3>2. ASSUME NEW j \in Data, j <= curr, Starts(call, j)
          PROVE  \E k \in Data : j <= k /\ k <= curr /\ Ends(call, k)
      <4>1. j <= curr - 1
        BY <1>5, <2>4, <3>2
      <4> QED BY <1>1, <1>5, <1>7, <2>4, <3>2, <4>1
    <3> QED BY <1>1, <1>2, <1>3, <3>1, <3>2 DEF Following
  <2> QED BY <2>1, <2>2, <2>3, <2>4
<1>10. Held'
  <2>1. ASSUME NEW i \in Opening(call), NEW k \in Closing(call, i), k < curr
        PROVE  <<i - 1, k>> \in call.body
    BY <1>1, <2>1 DEF IInv, Held
  <2>2. CASE leave
    <3>1. innerFrst' = innerFrst /\ pc' = "body" /\ ~inside' /\ inside
      BY <1>1, <1>2, <1>4, <2>2
    <3>2. curr \in Closing(call, innerFrst + 1)
      <4>1. \A j \in Data : innerFrst + 1 < j /\ Ends(call, j) => curr <= j
        BY <1>1, <1>5, <1>6, <3>1
      <4> QED BY <1>1, <1>6, <2>2, <3>1, <4>1, ClosingRow
    <3>3. \A i \in Opening(call') : \A k \in Closing(call', i) : k < curr' => <<i - 1, k>> \in call'.body
      BY <1>2, <2>1
    <3>4. innerFrst' + 1 \in Opening(call') /\ innerFrst' + 1 < curr' /\ curr' \in Closing(call', innerFrst' + 1)
      BY <1>2, <1>6, <3>1, <3>2
    <3> QED BY <1>1, <1>2, <3>1, <3>3, <3>4, DataRows DEF Held
  <2>3. CASE ~leave
    <3>1. ASSUME NEW i \in Opening(call), curr \in Closing(call, i)
          PROVE  FALSE
      <4>1. /\ i \in Data /\ Starts(call, i)
            /\ \A j \in Data : j < i /\ Starts(call, j) => \E k \in Data : j < k /\ k < i /\ Ends(call, k)
        BY <1>1, OpeningRow
      <4>2. /\ i < curr /\ Ends(call, curr)
            /\ \A j \in Data : i < j /\ Ends(call, j) => curr <= j
        BY <1>1, <3>1, <4>1, ClosingRow
      <4>3. ~inside
        BY <2>3, <4>2
      <4>4. PICK k \in Data : i <= k /\ k <= curr - 1 /\ Ends(call, k)
        BY <1>1, <1>5, <1>7, <4>1, <4>2, <4>3
      <4>5. k # i
        BY <1>1, <4>1, <4>4, CallFields, DataRows
      <4> QED BY <1>1, <1>5, <4>1, <4>2, <4>4, <4>5
    <3>2. pc' = "next"
      BY <1>2, <2>3
    <3>3. \A i \in Opening(call') : \A k \in Closing(call', i) :
            k < curr' \/ k = curr' => <<i - 1, k>> \in call'.body
      BY <1>2, <2>1, <3>1
    <3> QED BY <1>1, <1>2, <3>2, <3>3, DataRows DEF Held
  <2> QED BY <2>2, <2>3
<1>11. Searching' /\ Answers'
  BY <1>1, <1>2, <1>3 DEF Searching, Answers
<1> QED BY <1>8, <1>9, <1>10, <1>11 DEF IInv

(* Running the body keeps the invariant: if it fails the scope fails, and  *)
(* if it holds the segment joins those it held on.                         *)
LEMMA BodyStep == IInv /\ Body => IInv'
<1> SUFFICES ASSUME IInv, Body PROVE IInv'
  OBVIOUS
<1>1. /\ TypeOK /\ call \in Calls /\ pc = "body" /\ result = None
      /\ curr \in Nat /\ 1 <= curr /\ innerFrst \in Nat /\ Passed = curr
      /\ curr < N \/ (HasTail /\ curr = N)
  BY Kinds, DataRows DEF IInv, AtBlock, TypeOK, Passed, Body
<1>2. CASE Searches
  <2>1. call.scope \in {"before", "after"} /\ ~HasTail
    BY <1>1, <1>2, Kinds DEF HasTail
  <2>2. /\ curr \in Data /\ call.lhs[curr]
        /\ \A k \in Data : k < curr => ~call.lhs[k]
    BY <1>1, <1>2, <2>1, DataRows DEF IInv, Searching
  <2>3. Meaning(call) = (BodySegment \in call.body)
    <3>1. BodySegment = IF call.scope = "before" THEN <<0, curr>> ELSE <<curr - 1, N>>
      BY <2>1 DEF BodySegment
    <3> QED BY <1>1, <2>1, <2>2, <3>1, SearchMeaning
  <2>4. /\ pc' = "done" /\ result' = (BodySegment \in call.body)
        /\ call' = call /\ curr' = curr /\ inside' = inside /\ innerFrst' = innerFrst
    BY <1>2 DEF Body, Leave
  <2>5. TypeOK'
    BY <1>1, <2>4 DEF TypeOK, Blocks
  <2> QED
    BY <2>3, <2>4, <2>5 DEF IInv, AtBlock, Searching, Following, Held, Answers
<1>3. CASE ~Searches
  <2>1. call.scope \in {"while", "between", "until"} /\ BodySegment = <<innerFrst, curr>>
    BY <1>1, <1>3, Kinds DEF BodySegment
  <2>2. /\ curr < N => /\ ~inside /\ innerFrst + 1 \in Opening(call)
                       /\ curr \in Closing(call, innerFrst + 1)
        /\ curr = N => inside
        /\ \A i \in Opening(call) : \A k \in Closing(call, i) : k < curr => <<i - 1, k>> \in call.body
    BY <1>1, <1>3 DEF IInv, Held
  <2>3. CASE BodySegment \in call.body
    <3>1. /\ pc' = "next" /\ call' = call /\ curr' = curr /\ inside' = inside
          /\ innerFrst' = innerFrst /\ result' = result
      BY <1>3, <2>3 DEF Body, Goto
    <3>2. Passed' = Passed /\ Searches' = Searches /\ HasTail' = HasTail
      BY <1>1, <3>1 DEF Passed, Searches, HasTail
    <3>3. TypeOK'
      BY <1>1, <3>1 DEF TypeOK, Blocks
    <3>4. AtBlock' /\ Searching' /\ Answers'
      BY <1>1, <1>3, <3>1, <3>2 DEF IInv, AtBlock, Searching, Answers
    <3>5. Following'
      BY <1>1, <1>3, <3>1, <3>2 DEF IInv, Following
    <3>6. ASSUME NEW i \in Opening(call), NEW k \in Closing(call, i), k = curr
          PROVE  <<i - 1, k>> \in call.body
      <4>1. k \in Data /\ k < N /\ i \in Data
        BY DataRows DEF Closing, FirstIn, Opening
      <4>2. i = innerFrst + 1
        BY <1>1, <2>2, <3>6, <4>1, ClosesOne
      <4> QED BY <1>1, <2>1, <2>3, <3>6, <4>2
    <3>7. \A i \in Opening(call') : \A k \in Closing(call', i) :
            k < curr' \/ k = curr' => <<i - 1, k>> \in call'.body
      BY <2>2, <3>1, <3>6
    <3>8. Held'
      BY <1>1, <2>1, <2>2, <2>3, <3>1, <3>7, DataRows DEF Held
    <3> QED BY <3>3, <3>4, <3>5, <3>8 DEF IInv
  <2>4. CASE BodySegment \notin call.body
    <3>1. /\ pc' = "done" /\ result' = FALSE
          /\ call' = call /\ curr' = curr /\ inside' = inside /\ innerFrst' = innerFrst
      BY <1>3, <2>4 DEF Body, Leave
    <3>2. ~Meaning(call)
      <4>0. ASSUME NEW i \in Opening(call), i = innerFrst + 1
            PROVE  <<i - 1, curr>> \notin call.body
        <5>1. i - 1 = innerFrst
          BY <1>1, <4>0
        <5> QED BY <2>1, <2>4, <5>1
      <4>1. CASE curr < N
        <5>0. PICK i \in Opening(call) : i = innerFrst + 1
          BY <2>2, <4>1
        <5>1. curr \in Closing(call, i) /\ <<i - 1, curr>> \notin call.body
          BY <2>2, <4>0, <4>1, <5>0
        <5> QED BY <1>1, <2>1, <5>1, FollowMeaning
      <4>2. CASE curr = N
        <5>1. /\ innerFrst + 1 \in Opening(call) /\ HasTail
              /\ \A k \in Data : innerFrst < k /\ k <= curr => ~Ends(call, k)
          BY <1>1, <1>3, <2>2, <4>2 DEF IInv, Following
        <5>2. innerFrst + 1 \in Data
          BY <5>1 DEF Opening
        <5>3. Closing(call, innerFrst + 1) = {}
          <6>1. ASSUME NEW k \in Closing(call, innerFrst + 1) PROVE FALSE
            <7>1. k \in Data /\ innerFrst + 1 < k /\ Ends(call, k)
              BY <1>1, <5>2, ClosingRow
            <7> QED BY <1>1, <4>2, <5>1, <7>1, DataRows
          <6> QED BY <6>1
        <5>4. call.scope # "until"
          BY <5>1 DEF HasTail
        <5>5. PICK i \in Opening(call) : i = innerFrst + 1
          BY <5>1
        <5>6. Closing(call, i) = {} /\ <<i - 1, N>> \notin call.body
          BY <4>0, <4>2, <5>3, <5>5
        <5> QED BY <1>1, <2>1, <5>4, <5>6, FollowMeaning
      <4> QED BY <1>1, <4>1, <4>2
    <3>3. Meaning(call') = FALSE
      BY <3>1, <3>2 DEF Meaning
    <3>4. TypeOK'
      BY <1>1, <3>1 DEF TypeOK, Blocks
    <3> QED BY <3>1, <3>3, <3>4 DEF IInv, AtBlock, Searching, Following, Held, Answers
  <2> QED BY <2>3, <2>4
<1> QED BY <1>2, <1>3

LEMMA StepIInv == IInv /\ [Next]_vars => IInv'
<1> SUFFICES ASSUME IInv, [Next]_vars PROVE IInv'
  OBVIOUS
<1> USE DEF Goto, Leave
<1>0. TypeOK /\ call \in Calls /\ curr \in Nat /\ 1 <= curr /\ N \in Nat
  BY DataRows DEF IInv, TypeOK
<1>1. CASE While
  <2>1. ASSUME pc = "while", pc' \in {"test", "cond", "tail"},
               UNCHANGED <<call, curr, inside, innerFrst, result>>
        PROVE  TypeOK' /\ Searching' /\ Following' /\ Held' /\ Answers'
    <3>1. Passed' = Passed /\ Searches' = Searches /\ HasTail' = HasTail
      BY <2>1 DEF Passed, Searches, HasTail
    <3>2. TypeOK' /\ Searching' /\ Answers'
      BY <1>0, <2>1, <3>1 DEF IInv, TypeOK, Blocks, Searching, Answers
    <3>3. Following'
      BY <2>1, <3>1 DEF IInv, Following
    <3>4. Held'
      BY <2>1, <3>1 DEF IInv, Held
    <3> QED BY <3>2, <3>3, <3>4
  <2>2. CASE curr < N /\ Searches /\ Goto("test")
    BY <1>0, <1>1, <2>1, <2>2 DEF While, IInv, AtBlock, Searches
  <2>3. CASE curr < N /\ ~Searches /\ Goto("cond")
    BY <1>0, <1>1, <2>1, <2>3 DEF While, IInv, AtBlock, Searches
  <2>4. CASE curr >= N /\ HasTail /\ Goto("tail")
    BY <1>0, <1>1, <2>1, <2>4 DEF While, IInv, AtBlock, HasTail
  <2>5. CASE curr >= N /\ ~HasTail /\ Leave(TRUE)
    <3>1. result' = Meaning(call) /\ call' = call /\ pc' = "done"
      BY <1>1, <2>5, Exhausted DEF While
    <3> QED
      BY <1>0, <2>5, <3>1 DEF IInv, TypeOK, Blocks, AtBlock, Searching, Following, Held, Answers
  <2> QED BY <1>1, <2>2, <2>3, <2>4, <2>5 DEF While
<1>2. CASE Test
  <2>1. /\ Searches /\ pc = "test" /\ curr < N /\ curr \in Data /\ result = None
    BY <1>0, <1>2, DataRows DEF Test, IInv, AtBlock
  <2>2. /\ pc' = IF call.lhs[curr] THEN "body" ELSE "next"
        /\ UNCHANGED <<call, curr, inside, innerFrst, result>>
    BY <1>2 DEF Test, Opens
  <2>3. TypeOK' /\ AtBlock' /\ Answers'
    BY <1>0, <2>1, <2>2 DEF TypeOK, Blocks, AtBlock, Answers
  <2>4. Searching' /\ Following' /\ Held'
    BY <1>0, <2>1, <2>2 DEF IInv, Searching, Searches, Following, Held
  <2> QED BY <2>3, <2>4 DEF IInv
<1>3. CASE Cond
  BY <1>3, CondStep
<1>4. CASE Body
  BY <1>4, BodyStep
<1>5. CASE Advance
  <2>1. /\ pc = "next" /\ pc' = "while" /\ curr' = curr + 1 /\ result = None
        /\ UNCHANGED <<call, inside, innerFrst, result>>
        /\ curr < N \/ (HasTail /\ curr = N)
    BY <1>5 DEF Advance, IInv, AtBlock
  <2>2. Passed' = Passed /\ Searches' = Searches /\ HasTail' = HasTail
    BY <1>0, <2>1 DEF Passed, Searches, HasTail
  <2>3. TypeOK' /\ AtBlock' /\ Answers'
    BY <1>0, <2>1, <2>2 DEF TypeOK, Blocks, AtBlock, Answers
  <2>4. \A k \in Data : k < curr' <=> k < curr \/ k = curr
    BY <1>0, <2>1, DataRows
  <2>5. Searching' /\ Following'
    BY <2>1, <2>2, <2>4 DEF IInv, Searching, Following
  <2>6. \A i \in Opening(call') : \A k \in Closing(call', i) : k < curr' => <<i - 1, k>> \in call'.body
        \/ Searches
    <3>1. \A i \in Opening(call) : \A k \in Closing(call, i) : k \in Data
      BY DEF Closing, FirstIn
    <3> QED BY <2>1, <2>4, <3>1 DEF IInv, Held
  <2>7. Held'
    BY <1>0, <2>1, <2>2, <2>6 DEF IInv, Held
  <2> QED BY <2>3, <2>5, <2>7 DEF IInv
<1>6. CASE RunTail
  <2>1. pc = "tail" /\ HasTail /\ ~Searches /\ result = None /\ curr >= N
    BY <1>6 DEF RunTail, IInv, AtBlock, HasTail, Searches
  <2>2. CASE curr = N /\ inside /\ Goto("body")
    <3>1. Searches' = Searches /\ HasTail' = HasTail /\ Passed = N - 1 /\ Passed' = N
      BY <2>1, <2>2 DEF Passed, Searches, HasTail
    <3>2. TypeOK' /\ AtBlock' /\ Answers' /\ Searching'
      BY <1>0, <2>1, <2>2, <3>1 DEF TypeOK, Blocks, AtBlock, Answers, Searching
    <3>3. \A k \in Data : k <= N => k <= N - 1
      BY DataRows
    <3>4. Following'
      <4>1. innerFrst \in Nat
        BY <1>0, DataRows DEF TypeOK
      <4> QED BY <1>0, <2>1, <2>2, <3>1, <3>3, <4>1 DEF IInv, Following
    <3>5. Held'
      BY <1>0, <2>1, <2>2, <3>1 DEF IInv, Held
    <3> QED BY <3>2, <3>4, <3>5 DEF IInv
  <2>3. CASE ~(curr = N /\ inside) /\ Leave(TRUE)
    <3>1. result' = Meaning(call) /\ call' = call /\ pc' = "done"
      BY <2>1, <2>3, Exhausted
    <3> QED
      BY <1>0, <2>3, <3>1 DEF IInv, TypeOK, Blocks, AtBlock, Searching, Following, Held, Answers
  <2> QED BY <1>6, <2>2, <2>3 DEF RunTail
<1>7. CASE UNCHANGED vars
  BY <1>7 DEF vars, IInv, TypeOK, AtBlock, Searching, Following, Held, Answers,
              Searches, HasTail, Passed
<1> QED BY <1>1, <1>2, <1>3, <1>4, <1>5, <1>6, <1>7 DEF Next

LEMMA Invariance == Spec => []IInv
BY InitIInv, StepIInv, PTL DEF Spec

----------------------------------------------------------------------------
(* The conditions of a scope and its body are evaluated inside the segment *)
(* that the scope itself runs on: the conditions on data rows, the body on *)
(* a proper segment, which has rows unless "before" matches the first one. *)
THEOREM StaysInside == Spec => []InsideSegment
<1>1. IInv => InsideSegment
  <2> SUFFICES ASSUME IInv PROVE InsideSegment
    OBVIOUS
  <2>1. TypeOK /\ call \in Calls /\ curr \in Nat /\ 1 <= curr /\ innerFrst \in Nat
    BY Kinds, DataRows DEF IInv, TypeOK
  <2>2. pc \in {"test", "cond"} => curr \in Data
    BY <2>1, DataRows DEF IInv, AtBlock
  <2>3. ASSUME pc = "body"
        PROVE  /\ BodySegment \in Segment
               /\ BodySegment[1] + 1 = BodySegment[2] => call.scope = "before"
    <3>1. CASE call.scope = "before"
      <4>1. curr < N
        BY <2>3, <3>1 DEF IInv, AtBlock, HasTail
      <4>2. BodySegment = <<0, curr>>
        BY <3>1 DEF BodySegment
      <4> QED BY <4>2, <2>1, <3>1, <4>1, DataRows DEF Segment
    <3>2. CASE call.scope = "after"
      <4>1. curr < N
        BY <2>3, <3>2 DEF IInv, AtBlock, HasTail
      <4>2. BodySegment = <<curr - 1, N>>
        BY <3>2 DEF BodySegment
      <4> QED BY <4>2, <2>1, <4>1, DataRows DEF Segment
    <3>3. CASE ~Searches
      <4>0. BodySegment = <<innerFrst, curr>>
        BY <3>3 DEF BodySegment, Searches
      <4>1. curr <= N /\ Passed = curr
        BY <2>1, <2>3, DataRows DEF IInv, AtBlock, Passed
      <4>2. innerFrst + 1 < curr
        <5>1. CASE curr < N
          BY <2>3, <3>3, <5>1 DEF IInv, Held
        <5>2. CASE curr = N
          <6>1. inside
            BY <2>3, <3>3, <5>2 DEF IInv, Held
          <6>2. innerFrst + 1 \in Data
            BY <2>3, <3>3, <6>1 DEF IInv, Following, Opening
          <6> QED BY <2>1, <5>2, <6>2, DataRows
        <5> QED BY <2>1, <4>1, <5>1, <5>2, DataRows
      <4> QED BY <2>1, <4>0, <4>1, <4>2, DataRows DEF Segment
    <3> QED BY <3>1, <3>2, <3>3 DEF Searches
  <2> QED BY <2>1, <2>2, <2>3 DEF InsideSegment
<1> QED BY <1>1, Invariance, PTL

(* A while scope runs its body on runs of rows that match, each as long as *)
(* it can be: bounded by rows that do not match or by the segment.         *)
THEOREM MaximalRuns == Spec => []WhileRuns
<1>1. IInv => WhileRuns
  <2> SUFFICES ASSUME IInv, pc = "body", call.scope = "while"
               PROVE  /\ \A i \in (innerFrst + 1)..(curr - 1) : call.lhs[i]
                      /\ innerFrst # 0 => ~call.lhs[innerFrst]
                      /\ curr # N => ~call.lhs[curr]
    BY DEF WhileRuns
  <2>1. /\ TypeOK /\ call \in Calls /\ curr \in Nat /\ 1 <= curr /\ innerFrst \in Nat
        /\ curr <= N /\ ~Searches /\ Passed = curr
    BY Kinds, DataRows DEF IInv, TypeOK, AtBlock, Searches, Passed
  <2>2. \A i \in Data : (Ends(call, i) <=> ~call.lhs[i]) /\ (Starts(call, i) <=> call.lhs[i])
    BY DEF Ends, Starts
  <2>3. innerFrst + 1 \in Opening(call) /\ innerFrst + 1 \in Data
    BY <2>1, DataRows DEF IInv, Following, Held, Opening
  <2>4. \A i \in Data : innerFrst < i /\ i < curr => ~Ends(call, i)
    <3>1. CASE curr < N
      <4>1. \A j \in Data : innerFrst + 1 < j /\ Ends(call, j) => curr <= j
        BY <2>1, <2>3, <3>1, ClosingRow DEF IInv, Held
      <4>2. ~Ends(call, innerFrst + 1)
        BY <2>1, <2>3, OpeningRow, CallFields, DataRows
      <4> QED BY <2>1, <4>1, <4>2, DataRows
    <3>2. CASE curr = N
      BY <2>1, <3>2, DataRows DEF IInv, Following, Held
    <3> QED BY <2>1, <3>1, <3>2, DataRows
  <2>5. \A i \in (innerFrst + 1)..(curr - 1) : i \in Data /\ innerFrst < i /\ i < curr
    BY <2>1, DataRows
  <2>6. ASSUME innerFrst # 0 PROVE ~call.lhs[innerFrst]
    <3>1. innerFrst \in Data
      BY <2>1, <2>3, <2>6, DataRows
    <3>2. \A j \in Data : j < innerFrst + 1 /\ Starts(call, j) =>
            \E k \in Data : j < k /\ k < innerFrst + 1 /\ Ends(call, k)
      BY <2>1, <2>3, OpeningRow
    <3> QED BY <2>1, <2>2, <3>1, <3>2, DataRows
  <2>7. ASSUME curr # N PROVE ~call.lhs[curr]
    <3>1. curr \in Closing(call, innerFrst + 1) /\ curr \in Data
      BY <2>1, <2>7, DataRows DEF IInv, Held
    <3> QED BY <2>1, <2>2, <2>3, <3>1, ClosingRow
  <2> QED BY <2>2, <2>4, <2>5, <2>6, <2>7
<1> QED BY <1>1, Invariance, PTL

(* Scope implements Answer: one answer, never revised, that is true iff    *)
(* the body holds on every segment the scope means.                        *)
THEOREM Refinement == Spec => Implements
<1>1. Init => Promise!Init
  BY DEF Init, Promise!Init
<1>2. IInv /\ IInv' /\ [Next]_vars => [Promise!Return]_(Promise!avars)
  <2> SUFFICES ASSUME IInv, IInv', [Next]_vars,
                      result' # result \/ call' # call
               PROVE  Promise!Return
    BY DEF Promise!avars
  <2>1. call' = call /\ pc' = "done" /\ pc # "done"
    BY DEF Next, vars, While, Test, Cond, Body, Advance, RunTail, Goto, Leave
  <2>2. result = None /\ result' = Meaning(call')
    BY <2>1 DEF IInv, AtBlock, Answers
  <2> QED BY <2>1, <2>2 DEF Promise!Return
<1> QED BY <1>1, <1>2, Invariance, PTL DEF Spec, Implements, Promise!Spec

----------------------------------------------------------------------------
(* The blocks of one turn, from the last to the first. *)
BlocksLeft ==
  CASE pc = "while" -> 4 [] pc \in {"test", "cond", "tail"} -> 3 [] pc = "body" -> 2 [] pc = "next" -> 1

StepsLeft == IF pc = "done" THEN 0 ELSE 4 * (N + 1 - curr) + BlocksLeft

(* No loop of a scope runs for ever, the one that comes back behind the    *)
(* last row included: every block brings it closer to its end, and it runs *)
(* through 4 * (N + 1) blocks at most.                                     *)
THEOREM EndsSoon == Spec => [](StepsLeft \in 0..(4 * (N + 1))) /\ [][StepsLeft' < StepsLeft]_vars
<1>1. IInv => StepsLeft \in 0..(4 * (N + 1))
  <2> SUFFICES ASSUME IInv PROVE StepsLeft \in 0..(4 * (N + 1))
    OBVIOUS
  <2>1. N \in Nat /\ curr \in 1..(N + 1) /\ pc \in Blocks
    BY ScopeAssumption DEF IInv, TypeOK
  <2> QED BY <2>1 DEF StepsLeft, BlocksLeft, Blocks
<1>2. IInv /\ IInv' /\ [Next]_vars => [StepsLeft' < StepsLeft]_vars
  <2> SUFFICES ASSUME IInv, IInv', Next PROVE StepsLeft' < StepsLeft
    OBVIOUS
  <2>1. N \in Nat /\ curr \in 1..(N + 1) /\ curr' \in 1..(N + 1)
    BY ScopeAssumption DEF IInv, TypeOK
  <2> QED BY <2>1 DEF Next, While, Test, Cond, Body, Advance, RunTail, Goto, Leave, StepsLeft, BlocksLeft
<1> QED BY <1>1, <1>2, Invariance, PTL DEF Spec

----------------------------------------------------------------------------
(* How the code of nested scopes is emitted, for nestings of any depth:    *)
(* what code the conditions and the pattern refer to, and when the stacks  *)
(* suffice.                                                                *)
PushesLastAt(n) == {j \in 1..n : PushesLast(Scope(j))}

BeforesBehind(n) == {j \in (n + 1)..Len(chain) : Scope(j) = "before"}

(* The height of m_last when the code of the first n scopes is around. *)
Height(n) == 1 + Cardinality(PushesLastAt(n))

(* On the way down the tops are those of the innermost scopes. *)
TopsDown ==
  way = "down" =>
    /\ Len(seen) = level
    /\ frst # <<>> /\ Last(frst) = Innermost(level, Beginning)
    /\ last # <<>> /\ Last(last) = Innermost(level, Ending)
    /\ rows # <<>> /\ Last(rows) = Innermost(level, ScopeKinds \ {"globally"})

(* On the way up every "before" that was left took one row too many. *)
Heights ==
  /\ way = "down" => Len(last) = Height(level)
  /\ way = "up" => Len(last) = Height(level) - Cardinality(BeforesBehind(level))

Emitting == InScope /\ TopsDown /\ Heights

----------------------------------------------------------------------------
LEMMA ChainFields ==
  ASSUME StacksOK
  PROVE  /\ chain \in Seq(ScopeKinds) /\ Len(chain) \in Nat
         /\ \A k \in 1..Len(chain) : Scope(k) \in ScopeKinds
         /\ level \in Nat /\ level <= Len(chain)
BY EmissionAssumption DEF StacksOK, Scope

(* One scope further in, the innermost scope of a kind is that scope or    *)
(* the one it was.                                                         *)
LEMMA InnermostStep ==
  ASSUME NEW k \in Nat, NEW scopes
  PROVE  /\ Innermost(0, scopes) = 0
         /\ Innermost(k + 1, scopes) = IF Scope(k + 1) \in scopes THEN k + 1 ELSE Innermost(k, scopes)
<1>1. Innermost(0, scopes) = 0
  <2>1. {0} \cup {j \in 1..0 : Scope(j) \in scopes} = {0}
    OBVIOUS
  <2> QED BY <2>1 DEF Innermost, Max
<1>2. ASSUME Scope(k + 1) \in scopes PROVE Innermost(k + 1, scopes) = k + 1
  <2> DEFINE S == {0} \cup {j \in 1..(k + 1) : Scope(j) \in scopes}
  <2>1. k + 1 \in S /\ \A y \in S : y \in Int /\ k + 1 >= y
    BY <1>2
  <2> HIDE DEF S
  <2>2. \A x \in S : (\A y \in S : x >= y) => x = k + 1
    BY <2>1
  <2>3. Max(S) = k + 1
    BY <2>1, <2>2 DEF Max
  <2> QED BY <2>3 DEF Innermost, S
<1>3. ASSUME Scope(k + 1) \notin scopes PROVE Innermost(k + 1, scopes) = Innermost(k, scopes)
  <2>1. {j \in 1..(k + 1) : Scope(j) \in scopes} = {j \in 1..k : Scope(j) \in scopes}
    BY <1>3
  <2> QED BY <2>1 DEF Innermost
<1> QED BY <1>1, <1>2, <1>3

LEMMA HeightStep ==
  ASSUME NEW k \in Nat
  PROVE  /\ Height(0) = 1 /\ Height(k) \in Nat /\ Height(k) >= 1
         /\ Height(k + 1) = IF PushesLast(Scope(k + 1)) THEN Height(k) + 1 ELSE Height(k)
<1>1. Height(0) = 1
  <2>1. PushesLastAt(0) = {}
    BY DEF PushesLastAt
  <2> QED BY <2>1, FS_EmptySet DEF Height
<1>2. IsFiniteSet(PushesLastAt(k)) /\ Cardinality(PushesLastAt(k)) \in Nat
  <2>1. IsFiniteSet(1..k)
    BY FS_Interval
  <2>2. PushesLastAt(k) \subseteq 1..k
    BY DEF PushesLastAt
  <2> QED BY <2>1, <2>2, FS_Subset, FS_CardinalityType
<1>3. CASE PushesLast(Scope(k + 1))
  <2>1. PushesLastAt(k + 1) = PushesLastAt(k) \cup {k + 1} /\ k + 1 \notin PushesLastAt(k)
    BY <1>3 DEF PushesLastAt
  <2>2. Cardinality(PushesLastAt(k + 1)) = Cardinality(PushesLastAt(k)) + 1
    BY <1>2, <2>1, FS_AddElement
  <2>3. Height(k + 1) = Height(k) + 1 /\ Height(k) \in Nat /\ Height(k) >= 1
    BY <1>2, <2>2 DEF Height
  <2> QED BY <1>1, <1>3, <2>3
<1>4. CASE ~PushesLast(Scope(k + 1))
  <2>1. PushesLastAt(k + 1) = PushesLastAt(k)
    BY <1>4 DEF PushesLastAt
  <2> QED BY <1>1, <1>2, <1>4, <2>1 DEF Height
<1> QED BY <1>3, <1>4

LEMMA BeforesStep ==
  ASSUME StacksOK, NEW k \in 1..Len(chain)
  PROVE  /\ BeforesBehind(Len(chain)) = {}
         /\ IsFiniteSet(BeforesBehind(k)) /\ Cardinality(BeforesBehind(k)) \in Nat
         /\ Cardinality(BeforesBehind(k - 1)) =
              Cardinality(BeforesBehind(k)) + (IF Scope(k) = "before" THEN 1 ELSE 0)
<1>0. Len(chain) \in Nat
  BY ChainFields
<1>1. BeforesBehind(Len(chain)) = {}
  BY <1>0 DEF BeforesBehind
<1>2. IsFiniteSet(BeforesBehind(k)) /\ Cardinality(BeforesBehind(k)) \in Nat
  <2>1. IsFiniteSet((k + 1)..Len(chain))
    BY <1>0, FS_Interval
  <2>2. BeforesBehind(k) \subseteq (k + 1)..Len(chain)
    BY DEF BeforesBehind
  <2> QED BY <2>1, <2>2, FS_Subset, FS_CardinalityType
<1>3. CASE Scope(k) = "before"
  <2>1. BeforesBehind(k - 1) = BeforesBehind(k) \cup {k} /\ k \notin BeforesBehind(k)
    BY <1>0, <1>3 DEF BeforesBehind
  <2> QED BY <1>1, <1>2, <1>3, <2>1, FS_AddElement, ZenonT(60)
<1>4. CASE Scope(k) # "before"
  <2>1. BeforesBehind(k - 1) = BeforesBehind(k)
    BY <1>0, <1>4 DEF BeforesBehind
  <2> QED BY <1>1, <1>2, <1>4, <2>1
<1> QED BY <1>3, <1>4

LEMMA InitEmitting == EmitInit => Emitting
<1> SUFFICES ASSUME EmitInit PROVE Emitting
  OBVIOUS
<1>1. chain \in Seq(ScopeKinds) /\ chain \in Chains /\ Len(chain) \in Nat
  BY EmissionAssumption DEF EmitInit
<1>2. StacksOK
  BY <1>1 DEF EmitInit, StacksOK
<1>3. InScope
  BY <1>2 DEF EmitInit, InScope
<1>4. TopsDown
  BY <1>1, InnermostStep DEF EmitInit, TopsDown, Last
<1>5. Heights
  BY HeightStep DEF EmitInit, Heights
<1> QED BY <1>3, <1>4, <1>5 DEF Emitting

(* Pushing a level on a stack. *)
LEMMA PushTop ==
  ASSUME NEW n \in Nat, NEW stack \in Seq(0..n), NEW k \in 0..n
  PROVE  /\ Push(stack, k) \in Seq(0..n) /\ Push(stack, k) # <<>>
         /\ Last(Push(stack, k)) = k /\ Len(Push(stack, k)) = Len(stack) + 1
         /\ stack # <<>> => Last(stack) \in 0..n
<1>1. /\ Push(stack, k) \in Seq(0..n) /\ Push(stack, k) # <<>>
      /\ Last(Push(stack, k)) = k /\ Len(Push(stack, k)) = Len(stack) + 1
  BY AppendProperties DEF Push, Last
<1>2. ASSUME stack # <<>> PROVE Last(stack) \in 0..n
  <2>1. Len(stack) \in 1..Len(stack)
    BY <1>2, EmptySeq
  <2> QED BY <2>1, ElementOfSeq DEF Last
<1> QED BY <1>1, <1>2

(* A stack that a scope pushes its own level on, or leaves alone. *)
LEMMA PushInnermost ==
  ASSUME NEW n \in Nat, NEW level0 \in 0..(n - 1), NEW scopes, NEW pushes \in BOOLEAN,
         NEW stack \in Seq(0..n), stack # <<>>, Last(stack) = Innermost(level0, scopes),
         Scope(level0 + 1) \in scopes <=> pushes
  PROVE  LET pushed == IF pushes THEN Push(stack, level0 + 1) ELSE stack
         IN  pushed \in Seq(0..n) /\ pushed # <<>> /\ Last(pushed) = Innermost(level0 + 1, scopes)
<1>1. CASE pushes
  <2>1. level0 + 1 \in 0..n
    OBVIOUS
  <2> QED BY <1>1, <2>1, PushTop, InnermostStep
<1>2. CASE ~pushes
  BY <1>2, InnermostStep
<1> QED BY <1>1, <1>2

LEMMA DescendStep == Emitting /\ Descend => Emitting'
<1> SUFFICES ASSUME Emitting, Descend PROVE Emitting'
  OBVIOUS
<1> DEFINE n == Len(chain)
           k == level + 1
           s == Scope(k)
           nf == IF PushesFrst(s) THEN Push(frst, k) ELSE frst
           nl == IF PushesLast(s) THEN Push(last, k) ELSE last
           nc == IF PushesCurr(s) THEN Push(rows, k) ELSE rows
<1>1. /\ StacksOK /\ way = "down" /\ level < n /\ n \in Nat /\ level \in Nat
      /\ s \in ScopeKinds /\ k \in 1..n /\ k \in 0..n
      /\ frst \in Seq(0..n) /\ last \in Seq(0..n) /\ rows \in Seq(0..n)
  BY ChainFields DEF Emitting, InScope, StacksOK, Descend
<1>2. /\ level' = k /\ chain' = chain /\ way' = way
      /\ frst' = nf /\ last' = nl /\ rows' = nc
      /\ seen' = Append(seen, Tops(frst, last, nc))
  BY DEF Descend
<1>3. /\ s \in Beginning <=> PushesFrst(s)
      /\ s \in Ending <=> PushesLast(s)
      /\ s \in ScopeKinds \ {"globally"} <=> PushesCurr(s)
  BY <1>1 DEF Beginning, Ending, ScopeKinds, PushesFrst, PushesLast, PushesCurr
<1>4. /\ frst # <<>> /\ Last(frst) = Innermost(level, Beginning)
      /\ last # <<>> /\ Last(last) = Innermost(level, Ending)
      /\ rows # <<>> /\ Last(rows) = Innermost(level, ScopeKinds \ {"globally"})
      /\ Len(seen) = level
  BY <1>1 DEF Emitting, TopsDown
<1>5. /\ nf \in Seq(0..n) /\ nf # <<>> /\ Last(nf) = Innermost(k, Beginning)
      /\ nl \in Seq(0..n) /\ nl # <<>> /\ Last(nl) = Innermost(k, Ending)
      /\ nc \in Seq(0..n) /\ nc # <<>> /\ Last(nc) = Innermost(k, ScopeKinds \ {"globally"})
  <2>1. level \in 0..(n - 1)
    BY <1>1
  <2>2. PushesFrst(s) \in BOOLEAN /\ PushesLast(s) \in BOOLEAN /\ PushesCurr(s) \in BOOLEAN
    BY DEF PushesFrst, PushesLast, PushesCurr
  <2>3. nf \in Seq(0..n) /\ nf # <<>> /\ Last(nf) = Innermost(k, Beginning)
    BY <1>1, <1>3, <1>4, <2>1, <2>2, PushInnermost, SMTT(60)
  <2>4. nl \in Seq(0..n) /\ nl # <<>> /\ Last(nl) = Innermost(k, Ending)
    BY <1>1, <1>3, <1>4, <2>1, <2>2, PushInnermost, SMTT(60)
  <2>5. nc \in Seq(0..n) /\ nc # <<>> /\ Last(nc) = Innermost(k, ScopeKinds \ {"globally"})
    BY <1>1, <1>3, <1>4, <2>1, <2>2, PushInnermost
  <2> QED BY <2>3, <2>4, <2>5
<1>6. Len(nl) = Height(k)
  <2>1. Len(last) = Height(level)
    BY <1>1 DEF Emitting, Heights
  <2>2. Len(Push(last, k)) = Len(last) + 1
    BY <1>1, PushTop
  <2> QED BY <1>1, <2>1, <2>2, HeightStep
<1> DEFINE top == Tops(frst, last, nc)
<1>7. top = [frst |-> Innermost(k - 1, Beginning), last |-> Innermost(k - 1, Ending),
             curr |-> Innermost(k, ScopeKinds \ {"globally"})]
  BY <1>1, <1>4, <1>5 DEF Tops
<1>8. top \in [frst : 0..n, last : 0..n, curr : 0..n]
  <2>1. Last(frst) \in 0..n /\ Last(last) \in 0..n /\ Last(nc) \in 0..n
    BY <1>1, <1>4, <1>5, PushTop
  <2> QED BY <2>1 DEF Tops
<1>9. InScope' /\ TopsDown' /\ Heights'
  <2> HIDE DEF top, nf, nl, nc
  <2> DEFINE R == [frst : 0..n, last : 0..n, curr : 0..n]
  <2>1. seen \in Seq(R)
    BY DEF Emitting, InScope, StacksOK
  <2>2. seen' = Append(seen, top)
    BY <1>2 DEF top, nc
  <2>3. /\ seen' \in Seq(R) /\ Len(seen') = k /\ seen'[k] = top
        /\ \A j \in 1..level : seen'[j] = seen[j]
    <3>1. top \in R /\ Len(seen) = level /\ k = Len(seen) + 1
      BY <1>4, <1>8
    <3> HIDE DEF R, k
    <3> QED BY <2>1, <2>2, <3>1, AppendProperties
  <2>4. DOMAIN seen = 1..level /\ DOMAIN seen' = 1..k
    BY <1>4, <2>1, <2>3, LenProperties
  <2>5. StacksOK'
    BY <1>1, <1>2, <1>5, <2>3 DEF StacksOK
  <2>6. ASSUME NEW j \in 1..k
        PROVE  seen'[j] = [frst |-> Innermost(j - 1, Beginning), last |-> Innermost(j - 1, Ending),
                           curr |-> Innermost(IF j <= n THEN j ELSE j - 1, ScopeKinds \ {"globally"})]
    <3>1. CASE j \in 1..level
      BY <2>3, <2>4, <3>1 DEF Emitting, InScope
    <3>2. CASE j = k
      BY <1>1, <1>7, <2>3, <3>2
    <3> QED BY <1>1, <3>1, <3>2
  <2>7. \A m, scopes : Innermost(m, scopes)' = Innermost(m, scopes)
    BY <1>2 DEF Innermost, Scope
  <2>8. InScope'
    BY <1>2, <2>4, <2>5, <2>6, <2>7 DEF InScope
  <2>9. TopsDown'
    BY <1>1, <1>2, <1>5, <2>3, <2>7 DEF TopsDown
  <2>10. \A m : Height(m)' = Height(m)
    BY <1>2 DEF Height, PushesLastAt, Scope
  <2>11. Heights'
    BY <1>1, <1>2, <1>6, <2>10 DEF Heights
  <2> QED BY <2>8, <2>9, <2>11
<1> QED BY <1>9 DEF Emitting

LEMMA PatternStep == Emitting /\ Pattern => Emitting'
<1> SUFFICES ASSUME Emitting, Pattern PROVE Emitting'
  OBVIOUS
<1> DEFINE n == Len(chain)
           R == [frst : 0..n, last : 0..n, curr : 0..n]
           top == Tops(frst, last, rows)
<1>1. /\ StacksOK /\ way = "down" /\ level = n /\ n \in Nat
      /\ frst \in Seq(0..n) /\ last \in Seq(0..n) /\ rows \in Seq(0..n) /\ seen \in Seq(R)
  BY ChainFields DEF Emitting, InScope, StacksOK, Pattern
<1>2. /\ seen' = Append(seen, top) /\ way' = "up"
      /\ level' = level /\ chain' = chain /\ frst' = frst /\ last' = last /\ rows' = rows
  BY DEF Pattern
<1>3. /\ frst # <<>> /\ Last(frst) = Innermost(n, Beginning)
      /\ last # <<>> /\ Last(last) = Innermost(n, Ending)
      /\ rows # <<>> /\ Last(rows) = Innermost(n, ScopeKinds \ {"globally"})
      /\ Len(seen) = n
  BY <1>1 DEF Emitting, TopsDown
<1>4. /\ top = [frst |-> Innermost(n, Beginning), last |-> Innermost(n, Ending),
                curr |-> Innermost(n, ScopeKinds \ {"globally"})]
      /\ top \in R
  <2>1. Last(frst) \in 0..n /\ Last(last) \in 0..n /\ Last(rows) \in 0..n
    <3>1. 0 \in 0..n
      BY <1>1
    <3> HIDE DEF n
    <3> QED BY <1>1, <1>3, <3>1, PushTop
  <2> QED BY <1>3, <2>1 DEF Tops
<1>5. /\ seen' \in Seq(R) /\ Len(seen') = n + 1 /\ seen'[n + 1] = top
      /\ \A j \in 1..n : seen'[j] = seen[j]
  <2> HIDE DEF R, n, top
  <2> QED BY <1>1, <1>2, <1>3, <1>4, AppendProperties
<1>6. DOMAIN seen = 1..n /\ DOMAIN seen' = 1..(n + 1)
  BY <1>1, <1>3, <1>5, LenProperties
<1>7. StacksOK'
  BY <1>1, <1>2, <1>5 DEF StacksOK
<1>8. ASSUME NEW j \in 1..(n + 1)
      PROVE  seen'[j] = [frst |-> Innermost(j - 1, Beginning), last |-> Innermost(j - 1, Ending),
                         curr |-> Innermost(IF j <= n THEN j ELSE j - 1, ScopeKinds \ {"globally"})]
  <2>1. CASE j \in 1..n
    BY <1>5, <1>6, <2>1 DEF Emitting, InScope
  <2>2. CASE j = n + 1
    <3>1. j - 1 = n /\ ~(j <= n)
      BY <1>1, <2>2
    <3> HIDE DEF n, top
    <3> QED BY <1>4, <1>5, <2>2, <3>1
  <2> QED BY <1>1, <2>1, <2>2
<1>9. \A m, scopes : Innermost(m, scopes)' = Innermost(m, scopes)
  BY <1>2 DEF Innermost, Scope
<1>10. InScope' /\ TopsDown'
  BY <1>2, <1>6, <1>7, <1>8, <1>9 DEF InScope, TopsDown
<1>11. Heights'
  <2>1. Len(last) = Height(level) /\ BeforesBehind(level) = {} /\ Height(level) \in Nat
    BY <1>1, HeightStep DEF Emitting, Heights, BeforesBehind
  <2>2. \A m : Height(m)' = Height(m) /\ BeforesBehind(m)' = BeforesBehind(m)
    BY <1>2 DEF Height, PushesLastAt, BeforesBehind, Scope
  <2>3. Len(last) = Height(level) - Cardinality(BeforesBehind(level))
    BY <2>1, FS_EmptySet
  <2> QED BY <1>2, <2>2, <2>3 DEF Heights
<1> QED BY <1>10, <1>11 DEF Emitting

LEMMA AscendStep == Emitting /\ Ascend => Emitting'
<1> SUFFICES ASSUME Emitting, Ascend PROVE Emitting'
  OBVIOUS
<1> DEFINE n == Len(chain)
           s == Scope(level)
<1>1. /\ StacksOK /\ way = "up" /\ level \in 1..n /\ n \in Nat /\ s \in ScopeKinds /\ level - 1 \in Nat
      /\ frst \in Seq(0..n) /\ last \in Seq(0..n) /\ rows \in Seq(0..n)
      /\ chain' = chain /\ seen' = seen
  BY ChainFields DEF Emitting, InScope, StacksOK, Ascend
<1>2. \A m, scopes : Innermost(m, scopes)' = Innermost(m, scopes)
  BY <1>1 DEF Innermost, Scope
<1>3. CASE Len(last) >= PopsLast(s)
  <2>1. /\ level' = level - 1 /\ way' = "up"
        /\ frst' = Pop(frst, PopsFrst(s)) /\ last' = Pop(last, PopsLast(s)) /\ rows' = Pop(rows, PopsCurr(s))
    BY <1>1, <1>3 DEF Ascend
  <2>2. PopsFrst(s) \in Nat /\ PopsLast(s) \in Nat /\ PopsCurr(s) \in Nat
    BY DEF PopsFrst, PopsLast, PopsCurr
  <2>3. ASSUME NEW stack \in Seq(0..n), NEW m \in Nat
        PROVE  /\ Pop(stack, m) \in Seq(0..n)
               /\ Len(stack) >= m => Len(Pop(stack, m)) = Len(stack) - m
    <3>1. Len(stack) \in Nat /\ \A i \in 1..(Len(stack) - m) : stack[i] \in 0..n
      BY <2>3, ElementOfSeq, LenProperties
    <3> QED BY <3>1, SubSeqProperties DEF Pop
  <2>4. StacksOK'
    <3> HIDE DEF s
    <3>1. frst' \in Seq(0..n) /\ last' \in Seq(0..n) /\ rows' \in Seq(0..n)
      BY <1>1, <2>1, <2>2, <2>3
    <3> QED BY <1>1, <2>1, <3>1 DEF StacksOK
  <2>5. InScope'
    BY <1>1, <1>2, <2>4 DEF Emitting, InScope
  <2>6. Len(last') = Height(level - 1) - Cardinality(BeforesBehind(level - 1))
    <3>1. Len(last) = Height(level) - Cardinality(BeforesBehind(level)) /\ Len(last) \in Nat
      BY <1>1, LenProperties DEF Emitting, Heights
    <3>2. Len(last') = Len(last) - PopsLast(s)
      BY <1>1, <1>3, <2>1, <2>2, <2>3
    <3>3. Height(level) = IF PushesLast(s) THEN Height(level - 1) + 1 ELSE Height(level - 1)
      <4>1. PICK m \in Nat : m = level - 1 /\ m + 1 = level
        BY <1>1
      <4>2. Height(m + 1) = IF PushesLast(Scope(m + 1)) THEN Height(m) + 1 ELSE Height(m)
        BY HeightStep
      <4> QED BY <4>1, <4>2
    <3>4. PopsLast(s) = (IF PushesLast(s) THEN 1 ELSE 0) + (IF s = "before" THEN 1 ELSE 0)
      BY DEF PopsLast, PushesLast
    <3>5. /\ Cardinality(BeforesBehind(level - 1)) =
               Cardinality(BeforesBehind(level)) + (IF s = "before" THEN 1 ELSE 0)
          /\ Cardinality(BeforesBehind(level)) \in Nat /\ Height(level - 1) \in Nat
      BY <1>1, BeforesStep, HeightStep
    <3> HIDE DEF s
    <3> QED BY <3>1, <3>2, <3>3, <3>4, <3>5
  <2>7. \A m : Height(m)' = Height(m) /\ BeforesBehind(m)' = BeforesBehind(m)
    BY <1>1 DEF Height, PushesLastAt, BeforesBehind, Scope
  <2>8. Heights'
    BY <2>1, <2>6, <2>7 DEF Heights
  <2> QED BY <2>1, <2>5, <2>8 DEF Emitting, TopsDown
<1>4. CASE ~(Len(last) >= PopsLast(s))
  <2>1. way' = "undefined" /\ UNCHANGED <<level, frst, last, rows>>
    BY <1>4 DEF Ascend
  <2>2. StacksOK'
    BY <1>1, <2>1 DEF StacksOK
  <2> QED BY <1>1, <1>2, <2>1, <2>2 DEF Emitting, InScope, TopsDown, Heights
<1> QED BY <1>3, <1>4

LEMMA EmittingInvariance == EmitSpec => []Emitting
<1>1. Emitting /\ [EmitNext]_emitvars => Emitting'
  <2> SUFFICES ASSUME Emitting, [EmitNext]_emitvars PROVE Emitting'
    OBVIOUS
  <2>1. CASE UNCHANGED emitvars
    <3>1. \A m, scopes : Innermost(m, scopes)' = Innermost(m, scopes)
      BY <2>1 DEF emitvars, Innermost, Scope
    <3>2. \A m : Height(m)' = Height(m) /\ BeforesBehind(m)' = BeforesBehind(m)
      BY <2>1 DEF emitvars, Height, PushesLastAt, BeforesBehind, Scope
    <3> QED BY <2>1, <3>1, <3>2 DEF emitvars, Emitting, InScope, StacksOK, TopsDown, Heights
  <2> QED BY <2>1, DescendStep, PatternStep, AscendStep DEF EmitNext
<1> QED BY <1>1, InitEmitting, PTL DEF EmitSpec

----------------------------------------------------------------------------
(* However deep scopes are nested, and in whatever order: the condition of *)
(* a scope is emitted for the rows of the scopes around it, and the        *)
(* pattern for the rows that all of them leave.                            *)
THEOREM RightRows == EmitSpec => []InScope
<1>1. Emitting => InScope
  BY DEF Emitting
<1> QED BY <1>1, EmittingInvariance, PTL

(* A specification with at most one "before", nested in any way, never     *)
(* makes the code generator take a value from an empty stack.              *)
THEOREM NeverUndefined ==
  ASSUME \A c \in Chains : \A i, j \in DOMAIN c : c[i] = "before" /\ c[j] = "before" => i = j
  PROVE  EmitSpec => []Defined
<1>1. Emitting /\ Defined /\ [EmitNext]_emitvars => Defined'
  <2> SUFFICES ASSUME Emitting, Defined, [EmitNext]_emitvars, way' = "undefined" PROVE FALSE
    BY DEF Defined
  <2> DEFINE s == Scope(level)
             n == Len(chain)
  <2>1. StacksOK /\ chain \in Chains /\ level \in 1..n /\ n \in Nat /\ level - 1 \in Nat /\ way = "up" /\ Len(last) < PopsLast(s)
    <3>1. Ascend
      BY DEF EmitNext, emitvars, Descend, Pattern, Defined
    <3>2. StacksOK /\ chain \in Chains
      BY DEF Emitting, InScope, StacksOK
    <3>3. PopsLast(s) \in Nat /\ Len(last) \in Nat
      BY <3>2, LenProperties DEF PopsLast, StacksOK
    <3>4. ~(Len(last) >= PopsLast(s))
      BY <3>1 DEF Ascend, Defined
    <3> QED BY <3>1, <3>2, <3>3, <3>4, ChainFields DEF Ascend
  <2>2. Len(last) = Height(level) - Cardinality(BeforesBehind(level))
    BY <2>1 DEF Emitting, Heights
  <2>3. /\ Height(level) = IF PushesLast(s) THEN Height(level - 1) + 1 ELSE Height(level - 1)
        /\ Height(level - 1) \in Nat /\ Height(level - 1) >= 1
    <3>1. PICK m \in Nat : m = level - 1 /\ m + 1 = level
      BY <2>1
    <3>2. /\ Height(m + 1) = IF PushesLast(Scope(m + 1)) THEN Height(m) + 1 ELSE Height(m)
          /\ Height(m) \in Nat /\ Height(m) >= 1
      BY HeightStep
    <3> QED BY <3>1, <3>2
  <2>4. DOMAIN chain = 1..n
    BY <2>1, ChainFields, LenProperties
  <2>5. Cardinality(BeforesBehind(level)) <= IF s = "before" THEN 0 ELSE 1
    <3>1. \A i, j \in 1..n : Scope(i) = "before" /\ Scope(j) = "before" => i = j
      BY <2>1, <2>4 DEF Scope
    <3>2. CASE BeforesBehind(level) = {}
      BY <3>2, FS_EmptySet
    <3>3. CASE BeforesBehind(level) # {}
      <4>1. PICK k \in BeforesBehind(level) : TRUE
        BY <3>3
      <4>2. k \in 1..n /\ k > level /\ Scope(k) = "before"
        BY <2>1, <4>1 DEF BeforesBehind
      <4>3. s # "before"
        BY <2>1, <3>1, <4>2
      <4>4. BeforesBehind(level) = {k}
        BY <2>1, <3>1, <4>1, <4>2 DEF BeforesBehind
      <4> QED BY <4>3, <4>4, FS_Singleton
    <3> QED BY <3>2, <3>3
  <2>6. Cardinality(BeforesBehind(level)) \in Nat
    BY <2>1, BeforesStep
  <2>7. /\ s = "before" => PopsLast(s) = 2 /\ PushesLast(s)
        /\ s # "before" => PopsLast(s) = IF PushesLast(s) THEN 1 ELSE 0
    BY DEF PopsLast, PushesLast
  <2> HIDE DEF s, n
  <2>8. CASE s = "before"
    BY <2>1, <2>2, <2>3, <2>5, <2>6, <2>7, <2>8
  <2>9. CASE s # "before"
    BY <2>1, <2>2, <2>3, <2>5, <2>6, <2>7, <2>9
  <2> QED BY <2>8, <2>9
<1>2. EmitInit => Defined
  BY DEF EmitInit, Defined
<1> QED BY <1>1, <1>2, EmittingInvariance, PTL DEF EmitSpec

(* And one "before" is all that can be had: the emission of a              *)
(* specification with two of them, whatever lies around and between, never *)
(* gets back to the outermost scope.                                       *)
THEOREM TwoAreTooMany ==
  ASSUME \A c \in Chains : \E i, j \in DOMAIN c : c[i] = "before" /\ c[j] = "before" /\ i # j
  PROVE  EmitSpec => [](way = "up" => level > 0)
<1>1. Emitting => (way = "up" => level > 0)
  <2> SUFFICES ASSUME Emitting, way = "up", ~(level > 0) PROVE FALSE
    OBVIOUS
  <2>0. level = 0
    BY ChainFields DEF Emitting, InScope
  <2>1. StacksOK /\ chain \in Chains /\ chain \in Seq(ScopeKinds) /\ Len(chain) \in Nat /\ Len(last) \in Nat
    BY ChainFields, LenProperties DEF Emitting, InScope, StacksOK
  <2>2. Len(last) = 1 - Cardinality(BeforesBehind(0))
    BY <2>0, HeightStep DEF Emitting, Heights
  <2>3. PICK i, j \in 1..Len(chain) : Scope(i) = "before" /\ Scope(j) = "before" /\ i # j
    BY <2>1, LenProperties DEF Scope
  <2>4. {i} \cup {j} \subseteq BeforesBehind(0)
    BY <2>3 DEF BeforesBehind
  <2>5. IsFiniteSet(BeforesBehind(0))
    <3>1. IsFiniteSet((0 + 1)..Len(chain))
      BY <2>1, FS_Interval
    <3>2. BeforesBehind(0) \subseteq (0 + 1)..Len(chain)
      BY DEF BeforesBehind
    <3> QED BY <3>1, <3>2, FS_Subset
  <2>6. Cardinality({i} \cup {j}) = 2
    <3>1. IsFiniteSet({i}) /\ Cardinality({i}) = 1 /\ j \notin {i}
      BY <2>3, FS_Singleton
    <3>2. Cardinality({i} \cup {j}) = Cardinality({i}) + 1
      BY <3>1, FS_AddElement
    <3> QED BY <3>1, <3>2, SMTT(60)
  <2>7. 2 <= Cardinality(BeforesBehind(0)) /\ Cardinality(BeforesBehind(0)) \in Nat
    BY <2>4, <2>5, <2>6, FS_Subset, FS_CardinalityType
  <2> QED BY <2>1, <2>2, <2>7
<1> QED BY <1>1, EmittingInvariance, PTL
============================================================================
