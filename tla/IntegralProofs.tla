--------------------------- MODULE IntegralProofs ---------------------------
(***************************************************************************)
(* Proofs about Integral: the sum is the integral over the instants of the *)
(* window, for traces of any length, any heights and any width of the      *)
(* integers.                                                               *)
(***************************************************************************)
EXTENDS Integral, FiniteSetTheorems, WellFoundedInduction, TLAPS

(* The part of row i's interval that is in the window: [From, To). *)
From(c, i) == IF c.lo = None THEN c.time[i] ELSE Later(c.time[i], Now(c) + c.lo)
To(c, i) == IF c.hi = None THEN c.time[i + 1] ELSE Earlier(Now(c) + c.hi, c.time[i + 1])

(* Where each block finds the rows, and what was found out about them.     *)
AtBlock ==
  /\ next = curr + 1 /\ call.start <= curr /\ curr <= N
  /\ pc \notin {"head", "tail"} => next <= N
  /\ pc \in {"cond", "body"} => lo < hi
  /\ pc = "body" => call.lhs[curr]

(* At the end the rows that were not passed have no share. *)
Answers == pc = "tail" => sum = Whole(call)

IInv == TypeOK /\ AtBlock /\ SumOfPassed /\ Answers

----------------------------------------------------------------------------
(* What holds of 0 and is passed on to the next number holds up to n.      *)
LEMMA Stepwise ==
  ASSUME NEW n \in Nat, NEW S, 0 \in S, \A i \in 0..(n - 1) : i \in S => i + 1 \in S
  PROVE  0..n \subseteq S
<1> DEFINE R == OpToRel(<, Nat)
           T == (0..n) \ S
<1>1. IsWellFoundedOn(R, Nat)
  BY NatLessThanWellFounded
<1>2. \A i, j \in Nat : i < j => <<i, j>> \in R
  BY DEF OpToRel
<1>3. T \subseteq Nat
  OBVIOUS
<1> SUFFICES ASSUME T # {} PROVE FALSE
  OBVIOUS
<1> HIDE DEF R
<1>4. PICK x \in T : \A y \in T : ~(<<y, x>> \in R)
  BY <1>1, <1>3, WFMin
<1>5. x \in 1..n /\ x - 1 \in 0..(n - 1) /\ x - 1 \in Nat /\ x \in Nat /\ x - 1 < x
  BY <1>4
<1>6. x - 1 \notin T
  BY <1>2, <1>4, <1>5, Zenon
<1>7. x - 1 \in S /\ (x - 1) + 1 = x
  BY <1>5, <1>6
<1> QED BY <1>4, <1>5, <1>7

(* The fields of a call, as the provers need them. *)
LEMMA CallFields ==
  ASSUME NEW c \in Calls
  PROVE  /\ c.op = "I"
         /\ c.start \in 1..N /\ c.start \in Row
         /\ \A i \in Row : c.lhs[i] \in BOOLEAN /\ c.rhs[i] \in Int /\ c.time[i] \in Int
         /\ \A i, j \in Row : i <= j => c.time[i] <= c.time[j]
         /\ Now(c) \in Int
         /\ c.lo # None => c.lo \in Int
         /\ c.hi # None => c.hi \in Int
         /\ Reach(c) = c.start..(N - 1)
<1>1. c.op = "I" /\ c.lhs \in Operands /\ c.rhs \in Heights /\ c.lo \in Bounds
      /\ c.hi \in Bounds /\ c.time \in Traces /\ c.start \in 1..N
  BY DEF Calls
<1>2. c.time \in [Row -> Time] /\ \A i, j \in Row : i <= j => c.time[i] <= c.time[j]
  BY <1>1 DEF Traces
<1>3. c.time \in [Row -> Int] /\ c.rhs \in [Row -> Int] /\ c.lhs \in [Row -> BOOLEAN]
  BY <1>1, <1>2, TraceAssumption, IntegralAssumption
<1>4. c.start \in Row /\ Now(c) \in Int
  BY <1>1, <1>3, TraceAssumption DEF Row, Now
<1>5. /\ c.lo # None => c.lo \in Int
      /\ c.hi # None => c.hi \in Int
  BY <1>1, TraceAssumption DEF Bounds
<1>6. Reach(c) = c.start..(N - 1)
  BY <1>1 DEF Reach, PastOps
<1> QED BY <1>1, <1>2, <1>3, <1>4, <1>5, <1>6

(* The instants of a row are those of one interval, so they are counted by *)
(* a subtraction.                                                          *)
LEMMA Counted ==
  ASSUME NEW c \in Calls, NEW i \in Reach(c)
  PROVE  /\ From(c, i) \in Int /\ To(c, i) \in Int
         /\ From(c, i) < To(c, i) => Cardinality(Instants(c, i)) = To(c, i) - From(c, i)
         /\ ~(From(c, i) < To(c, i)) => Cardinality(Instants(c, i)) = 0
<1>1. i \in Row /\ i + 1 \in Row
  BY CallFields, TraceAssumption DEF Row
<1>2. c.time[i] \in Int /\ c.time[i + 1] \in Int /\ Now(c) \in Int
      /\ (c.lo # None => c.lo \in Int) /\ (c.hi # None => c.hi \in Int)
  BY <1>1, CallFields
<1>3. From(c, i) \in Int /\ To(c, i) \in Int
  BY <1>2 DEF From, To, Later, Earlier
<1>4. c.op \notin PastOps
  BY CallFields DEF PastOps
<1>5. Instants(c, i) = {t \in c.time[i] .. (c.time[i + 1] - 1) :
                          /\ c.lo # None => Now(c) + c.lo <= t
                          /\ c.hi # None => t < Now(c) + c.hi}
  BY <1>4 DEF Instants, Covered, InWindow
<1>6. Instants(c, i) = From(c, i) .. (To(c, i) - 1)
  BY <1>2, <1>5 DEF From, To, Later, Earlier
<1>7. Cardinality(Instants(c, i)) =
        IF From(c, i) > To(c, i) - 1 THEN 0 ELSE (To(c, i) - 1) - From(c, i) + 1
  BY <1>3, <1>6, FS_Interval
<1> QED BY <1>3, <1>7

(* A row adds its height once for every instant. *)
LEMMA ShareOfRow ==
  ASSUME NEW c \in Calls, NEW i \in Row
  PROVE  /\ Share(c, i) \in Int
         /\ i \in Reach(c) /\ c.lhs[i] /\ From(c, i) < To(c, i)
              => Share(c, i) = c.rhs[i] * (To(c, i) - From(c, i))
         /\ ~(i \in Reach(c) /\ c.lhs[i] /\ From(c, i) < To(c, i)) => Share(c, i) = 0
<1>1. c.rhs[i] \in Int /\ c.lhs[i] \in BOOLEAN
  BY CallFields
<1>2. CASE ~(i \in Reach(c) /\ c.lhs[i])
  BY <1>2 DEF Share
<1>3. CASE i \in Reach(c) /\ c.lhs[i]
  <2> DEFINE count == Cardinality(Instants(c, i))
  <2>1. Share(c, i) = c.rhs[i] * count
    BY <1>3 DEF Share
  <2>2. /\ From(c, i) \in Int /\ To(c, i) \in Int
        /\ From(c, i) < To(c, i) => count = To(c, i) - From(c, i)
        /\ ~(From(c, i) < To(c, i)) => count = 0
    BY <1>3, Counted
  <2> HIDE DEF count
  <2>3. count \in Int
    BY <2>2
  <2>4. Share(c, i) \in Int
    BY <1>1, <2>1, <2>3
  <2>5. ~(From(c, i) < To(c, i)) => Share(c, i) = 0
    BY <1>1, <2>1, <2>2
  <2> QED BY <1>3, <2>1, <2>2, <2>4, <2>5
<1> QED BY <1>2, <1>3

(* The running total exists, and is what its definition says. *)
LEMMA RunningTotal ==
  ASSUME NEW c \in Calls
  PROVE  /\ Total(c)[0] = 0
         /\ \A i \in Row : Total(c)[i] \in Int
         /\ \A i \in 1..N : Total(c)[i] = Total(c)[i - 1] + Share(c, i)
<1> DEFINE s == [i \in Row |-> Share(c, i)]
           Sums(n, f) == /\ f \in [0..n -> Int]
                         /\ f[0] = 0
                         /\ \A i \in 1..n : f[i] = f[i - 1] + s[i]
           S == {n \in 0..N : \E f : Sums(n, f)}
<1>1. s \in [Row -> Int]
  BY ShareOfRow
<1>2. N \in Nat /\ Row = 0..N
  BY TraceAssumption DEF Row
<1> HIDE DEF s
<1>3. 0 \in S
  <2> DEFINE f == [i \in 0..0 |-> 0]
  <2>1. Sums(0, f)
    OBVIOUS
  <2> HIDE DEF f
  <2> QED BY <1>2, <2>1
<1>4. ASSUME NEW n \in 0..(N - 1), n \in S PROVE n + 1 \in S
  <2>1. PICK f : Sums(n, f)
    BY <1>4
  <2> DEFINE g == [i \in 0..(n + 1) |-> IF i <= n THEN f[i] ELSE f[n] + s[n + 1]]
  <2>2. s[n + 1] \in Int /\ n \in Nat
    BY <1>1, <1>2
  <2>3. g \in [0..(n + 1) -> Int]
    BY <2>1, <2>2
  <2>4. g[0] = 0
    BY <2>1, <2>2
  <2>5. ASSUME NEW i \in 1..(n + 1) PROVE g[i] = g[i - 1] + s[i]
    BY <2>1, <2>2
  <2>6. Sums(n + 1, g)
    BY <2>3, <2>4, <2>5
  <2>7. n + 1 \in 0..N
    BY <1>2
  <2> HIDE DEF g, Sums
  <2> QED BY <2>6, <2>7
<1>5. N \in S
  <2> HIDE DEF S
  <2>1. 0..N \subseteq S
    BY <1>2, <1>3, <1>4, Stepwise
  <2> QED BY <1>2, <2>1
<1>6. PICK f : Sums(N, f)
  BY <1>5
<1>7. f = [i \in Row |-> IF i = 0 THEN 0 ELSE f[i - 1] + Share(c, i)]
  <2>1. ASSUME NEW i \in Row
        PROVE  f[i] = IF i = 0 THEN 0 ELSE f[i - 1] + Share(c, i)
    <3>1. CASE i = 0
      BY <1>6, <3>1
    <3>2. CASE i \in 1..N
      BY <1>6, <3>2 DEF s
    <3> QED BY <1>2, <3>1, <3>2
  <2>2. f = [i \in Row |-> f[i]]
    BY <1>2, <1>6
  <2> QED BY <2>1, <2>2
<1> DEFINE D(g) == g = [i \in Row |-> IF i = 0 THEN 0 ELSE g[i - 1] + Share(c, i)]
           t == Total(c)
<1>8. D(t)
  BY <1>7 DEF Total
<1> HIDE DEF t
<1>9. t[0] = 0
  BY <1>2, <1>8
<1>10. ASSUME NEW i \in 1..N PROVE t[i] = t[i - 1] + Share(c, i)
  BY <1>2, <1>8
<1>11. \A i \in 0..N : t[i] \in Int
  <2> DEFINE T == {i \in 0..N : t[i] \in Int}
  <2>1. 0 \in T
    BY <1>2, <1>9
  <2>2. ASSUME NEW i \in 0..(N - 1), i \in T PROVE i + 1 \in T
    <3>1. i + 1 \in 1..N /\ (i + 1) - 1 = i /\ i + 1 \in Row
      BY <1>2
    <3>2. t[i + 1] = t[i] + Share(c, i + 1)
      BY <1>10, <3>1
    <3>3. Share(c, i + 1) \in Int
      BY <3>1, ShareOfRow
    <3> QED BY <2>2, <3>1, <3>2, <3>3
  <2> HIDE DEF T
  <2>3. 0..N \subseteq T
    BY <1>2, <2>1, <2>2, Stepwise
  <2> QED BY <2>3 DEF T
<1> QED BY <1>2, <1>9, <1>10, <1>11 DEF t

(* Rows without a share do not change the running total: those before the  *)
(* start, and those from some row on.                                      *)
LEMMA SameTotal ==
  ASSUME NEW c \in Calls, NEW i \in Row, NEW j \in Row, i <= j,
         \A k \in (i + 1)..j : Share(c, k) = 0
  PROVE  Total(c)[j] = Total(c)[i]
<1> DEFINE S == {k \in 0..(j - i) : Total(c)[i + k] = Total(c)[i]}
<1>1. i \in Nat /\ j \in Nat /\ j - i \in Nat /\ j <= N /\ N \in Nat
  BY TraceAssumption DEF Row
<1>2. 0 \in S
  BY <1>1
<1>3. ASSUME NEW k \in 0..((j - i) - 1), k \in S PROVE k + 1 \in S
  <2>1. i + (k + 1) \in 1..N /\ i + (k + 1) \in (i + 1)..j /\ (i + (k + 1)) - 1 = i + k
        /\ k + 1 \in 0..(j - i) /\ i + k \in Row
    BY <1>1 DEF Row
  <2>2. Total(c)[i + (k + 1)] = Total(c)[i + k] + Share(c, i + (k + 1))
    BY <2>1, RunningTotal
  <2>3. Total(c)[i + (k + 1)] = Total(c)[i + k] + 0 /\ Total(c)[i + k] \in Int
    BY <2>1, <2>2, RunningTotal
  <2> QED BY <1>3, <2>1, <2>3
<1> HIDE DEF S
<1>4. 0..(j - i) \subseteq S
  BY <1>1, <1>2, <1>3, Stepwise
<1>5. j - i \in S /\ i + (j - i) = j
  BY <1>1, <1>4
<1> QED BY <1>5 DEF S

LEMMA BeforeStart ==
  ASSUME NEW c \in Calls
  PROVE  Total(c)[c.start - 1] = 0
<1>1. c.start - 1 \in Row /\ 0 \in Row /\ 0 <= c.start - 1
  BY CallFields, TraceAssumption DEF Row
<1>2. ASSUME NEW k \in (0 + 1)..(c.start - 1) PROVE Share(c, k) = 0
  <2>1. Reach(c) = c.start..(N - 1) /\ c.start \in 1..N
    BY CallFields
  <2>2. k \notin Reach(c)
    BY <2>1
  <2> QED BY <2>2 DEF Share
<1>3. Total(c)[c.start - 1] = Total(c)[0]
  BY <1>1, <1>2, SameTotal
<1> QED BY <1>3, RunningTotal

(* When a row starts behind the window, it and the later ones have no      *)
(* share.                                                                  *)
LEMMA BehindWindow ==
  ASSUME NEW c \in Calls, NEW i \in 1..N, i = N \/ (c.hi # None /\ Now(c) + c.hi <= c.time[i])
  PROVE  Total(c)[N] = Total(c)[i - 1]
<1>1. N \in Row /\ i - 1 \in Row /\ i \in Row /\ i - 1 <= N /\ N \in Nat /\ (i - 1) + 1 = i
  BY TraceAssumption DEF Row
<1>2. ASSUME NEW k \in i..N PROVE Share(c, k) = 0
  <2>1. k \in Row
    BY <1>1 DEF Row
  <2>2. CASE k \notin Reach(c)
    BY <2>2 DEF Share
  <2>3. CASE k \in Reach(c)
    <3>1. k # N /\ k + 1 \in Row
      BY <1>1, <2>3, CallFields DEF Row
    <3>2. c.hi # None /\ Now(c) + c.hi <= c.time[i]
      BY <3>1
    <3>3. c.time[i] <= c.time[k] /\ c.time[i] \in Int /\ c.time[k] \in Int /\ c.time[k + 1] \in Int
      BY <1>1, <2>1, <3>1, CallFields
    <3>4. Now(c) \in Int /\ c.hi \in Int /\ (c.lo # None => c.lo \in Int)
      BY <3>2, CallFields
    <3>5. To(c, k) <= Now(c) + c.hi /\ c.time[k] <= From(c, k)
      BY <3>2, <3>3, <3>4 DEF To, From, Later, Earlier
    <3>6. From(c, k) \in Int /\ To(c, k) \in Int
      BY <2>3, Counted
    <3>7. ~(From(c, k) < To(c, k))
      BY <3>2, <3>3, <3>4, <3>5, <3>6
    <3> QED BY <2>1, <3>7, ShareOfRow
  <2> QED BY <2>2, <2>3
<1>3. \A k \in ((i - 1) + 1)..N : Share(c, k) = 0
  BY <1>1, <1>2
<1> QED BY <1>1, <1>3, SameTotal

----------------------------------------------------------------------------
(* The remainder of a sum does not depend on what is wrapped before.       *)
LEMMA Remainder ==
  ASSUME NEW m \in Nat \ {0}, NEW a \in Int, NEW x \in Int
  PROVE  ((a % m) + x) % m = (a + x) % m
<1> DEFINE r == a % m
           q == a \div m
           s == (r + x) % m
           p == (r + x) \div m
<1>1. a = m * q + r /\ q \in Int /\ r \in Int
  OBVIOUS
<1>2. r + x = m * p + s /\ p \in Int /\ s \in 0..(m - 1)
  BY <1>1
<1>3. \A k \in Int : (m * k + s) % m = s
  BY <1>2
<1> HIDE DEF r, q, s, p
<1>4. a + x = m * q + (m * p + s)
  BY <1>1, <1>2
<1>5. m * q + (m * p + s) = m * (q + p) + s
  BY <1>1, <1>2
<1>6. (m * (q + p) + s) % m = s
  BY <1>1, <1>2, <1>3
<1>7. (a + x) % m = s
  BY <1>4, <1>5, <1>6
<1> QED BY <1>7 DEF s, r

(* An integer may overflow on the way: the sum is the same in the end.     *)
LEMMA WrapSum ==
  ASSUME NEW a \in Int, NEW x \in Int
  PROVE  /\ Wrap(a) \in -Limit .. (Limit - 1)
         /\ Wrap(Wrap(a) + x) = Wrap(a + x)
<1> DEFINE m == 2 * Limit
           b == a + Limit
<1>1. m \in Nat \ {0} /\ Limit \in Nat \ {0} /\ b \in Int
  BY IntegralAssumption
<1>2. b % m \in 0..(m - 1)
  BY <1>1
<1>3. Wrap(a) = (b % m) - Limit
  BY DEF Wrap
<1>4. Wrap(a) \in -Limit .. (Limit - 1)
  BY <1>1, <1>2, <1>3
<1>5. (Wrap(a) + x) + Limit = (b % m) + x
  BY <1>1, <1>2, <1>3
<1>6. (a + x) + Limit = b + x
  BY <1>1
<1>7. ((b % m) + x) % m = (b + x) % m
  BY <1>1, Remainder
<1>8. Wrap(Wrap(a) + x) = (((b % m) + x) % m) - Limit
  BY <1>5 DEF Wrap
<1>9. Wrap(a + x) = ((b + x) % m) - Limit
  BY <1>6 DEF Wrap
<1> QED BY <1>4, <1>7, <1>8, <1>9

LEMMA WrapZero == Wrap(0) = 0
<1>1. Limit \in 0..(2 * Limit - 1) /\ 2 * Limit \in Nat \ {0}
  BY IntegralAssumption
<1>2. Limit % (2 * Limit) = Limit
  BY <1>1
<1>3. 0 + Limit = Limit /\ Limit - Limit = 0
  BY <1>1
<1> QED BY <1>2, <1>3 DEF Wrap

----------------------------------------------------------------------------
LEMMA Initially == Init => IInv
<1> SUFFICES ASSUME Init PROVE IInv
  OBVIOUS
<1>1. call \in Calls /\ pc = "head" /\ curr = call.start /\ next = curr + 1 /\ sum = 0
  BY DEF Init
<1>2. call.start \in 1..N /\ N \in Nat
  BY <1>1, CallFields, TraceAssumption
<1>3. TypeOK
  BY <1>1, <1>2, IntegralAssumption DEF TypeOK, Blocks
<1>4. AtBlock
  BY <1>1, <1>2 DEF AtBlock
<1>5. SumOfPassed
  BY <1>1, BeforeStart, WrapZero DEF SumOfPassed
<1> QED BY <1>1, <1>3, <1>4, <1>5 DEF IInv, Answers

(* The rows in play at the blocks that work on one.                        *)
LEMMA AtRow ==
  ASSUME IInv, pc \notin {"head", "tail"}
  PROVE  /\ call \in Calls /\ curr \in 1..(N - 1) /\ curr \in Row /\ curr \in Reach(call)
         /\ next = curr + 1
         /\ lo = From(call, curr) /\ hi = To(call, curr) /\ lo \in Int /\ hi \in Int
         /\ Total(call)[curr - 1] \in Int
         /\ Total(call)[curr] = Total(call)[curr - 1] + Share(call, curr)
<1>1. call \in Calls /\ next = curr + 1 /\ next <= N /\ call.start <= curr
      /\ curr \in 1..(N + 1) /\ N \in Nat
  BY TraceAssumption DEF IInv, TypeOK, AtBlock
<1>2. curr \in 1..(N - 1) /\ curr \in Row /\ curr \in 1..N /\ curr - 1 \in Row
  BY <1>1 DEF Row
<1>3. curr \in Reach(call)
  BY <1>1, <1>2, CallFields
<1>4. lo = From(call, curr) /\ hi = To(call, curr)
  BY <1>1 DEF lo, hi, From, To, timeLo, timeHi
<1>5. lo \in Int /\ hi \in Int
  BY <1>1, <1>3, <1>4, Counted
<1>6. /\ Total(call)[curr - 1] \in Int
      /\ Total(call)[curr] = Total(call)[curr - 1] + Share(call, curr)
  BY <1>1, <1>2, RunningTotal
<1> QED BY <1>1, <1>2, <1>3, <1>4, <1>5, <1>6

LEMMA HeadKeeps == IInv /\ Head => IInv'
<1> SUFFICES ASSUME IInv, Head PROVE IInv'
  OBVIOUS
<1>1. pc = "head" /\ UNCHANGED <<call, curr, next, sum>>
  BY DEF Head, Goto
<1>2. call \in Calls /\ next = curr + 1 /\ call.start <= curr /\ curr <= N /\ curr \in 1..N
  BY TraceAssumption DEF IInv, TypeOK, AtBlock
<1>3. CASE next <= N /\ (call.hi # None => timeHi > call.time[curr])
  <2>1. pc' = "time"
    BY <1>3 DEF Head, Goto
  <2>2. TypeOK'
    BY <1>1, <2>1 DEF IInv, TypeOK, Blocks
  <2>3. AtBlock'
    BY <1>1, <1>2, <1>3, <2>1 DEF AtBlock
  <2>4. SumOfPassed'
    BY <1>1, <2>1 DEF IInv, SumOfPassed
  <2> QED BY <2>1, <2>2, <2>3, <2>4 DEF IInv, Answers
<1>4. CASE ~(next <= N /\ (call.hi # None => timeHi > call.time[curr]))
  <2>1. pc' = "tail"
    BY <1>4 DEF Head, Goto
  <2>2. TypeOK'
    BY <1>1, <2>1 DEF IInv, TypeOK, Blocks
  <2>3. AtBlock'
    BY <1>1, <1>2, <2>1 DEF AtBlock
  <2>4. SumOfPassed'
    BY <1>1, <2>1 DEF IInv, SumOfPassed
  <2>5. curr = N \/ (call.hi # None /\ Now(call) + call.hi <= call.time[curr])
    <3>1. curr \in Row /\ N \in Nat
      BY <1>2, TraceAssumption DEF Row
    <3>2. call.time[curr] \in Int /\ Now(call) \in Int /\ (call.hi # None => call.hi \in Int)
      BY <1>2, <3>1, CallFields
    <3> QED BY <1>2, <1>4, <3>1, <3>2 DEF timeHi
  <2>6. Total(call)[N] = Total(call)[curr - 1]
    BY <1>2, <2>5, BehindWindow
  <2>7. sum = Whole(call)
    BY <1>1, <2>6 DEF IInv, SumOfPassed, Whole
  <2>8. Answers'
    BY <1>1, <2>7 DEF Answers
  <2> QED BY <2>2, <2>3, <2>4, <2>8 DEF IInv
<1> QED BY <1>3, <1>4

LEMMA SkipKeeps ==
  ASSUME IInv, pc \notin {"head", "tail"}, Share(call, curr) = 0,
         pc' = "next", pc # "next", UNCHANGED <<call, curr, next, sum>>
  PROVE  IInv'
<1>1. Total(call)[curr] = Total(call)[curr - 1]
  BY AtRow
<1>2. TypeOK'
  BY DEF IInv, TypeOK, Blocks
<1>3. AtBlock'
  BY DEF IInv, AtBlock
<1>4. SumOfPassed'
  BY <1>1 DEF IInv, SumOfPassed
<1> QED BY <1>2, <1>3, <1>4 DEF IInv, Answers

LEMMA TimeBlockKeeps == IInv /\ TimeBlock => IInv'
<1> SUFFICES ASSUME IInv, TimeBlock PROVE IInv'
  OBVIOUS
<1>1. pc = "time" /\ UNCHANGED <<call, curr, next, sum>>
  BY DEF TimeBlock, Goto
<1>2. CASE lo < hi
  <2>1. pc' = "cond"
    BY <1>2 DEF TimeBlock, Goto
  <2>2. TypeOK'
    BY <1>1, <2>1 DEF IInv, TypeOK, Blocks
  <2>3. AtBlock'
    BY <1>1, <1>2, <2>1 DEF IInv, AtBlock, lo, hi, timeLo, timeHi
  <2>4. SumOfPassed'
    BY <1>1, <2>1 DEF IInv, SumOfPassed
  <2> QED BY <2>1, <2>2, <2>3, <2>4 DEF IInv, Answers
<1>3. CASE ~(lo < hi)
  <2>1. pc' = "next"
    BY <1>3 DEF TimeBlock, Goto
  <2>2. Share(call, curr) = 0
    BY <1>1, <1>3, AtRow, ShareOfRow
  <2> QED BY <1>1, <2>1, <2>2, SkipKeeps
<1> QED BY <1>2, <1>3

LEMMA CondKeeps == IInv /\ Cond => IInv'
<1> SUFFICES ASSUME IInv, Cond PROVE IInv'
  OBVIOUS
<1>1. pc = "cond" /\ UNCHANGED <<call, curr, next, sum>>
  BY DEF Cond, Goto
<1>2. CASE call.lhs[curr]
  <2>1. pc' = "body"
    BY <1>2 DEF Cond, Goto
  <2>2. TypeOK'
    BY <1>1, <2>1 DEF IInv, TypeOK, Blocks
  <2>3. AtBlock'
    BY <1>1, <1>2, <2>1 DEF IInv, AtBlock, lo, hi, timeLo, timeHi
  <2>4. SumOfPassed'
    BY <1>1, <2>1 DEF IInv, SumOfPassed
  <2> QED BY <2>1, <2>2, <2>3, <2>4 DEF IInv, Answers
<1>3. CASE ~call.lhs[curr]
  <2>1. pc' = "next"
    BY <1>3 DEF Cond, Goto
  <2>2. Share(call, curr) = 0
    BY <1>1, <1>3, AtRow, ShareOfRow
  <2> QED BY <1>1, <2>1, <2>2, SkipKeeps
<1> QED BY <1>2, <1>3

LEMMA BodyKeeps == IInv /\ Body => IInv'
<1> SUFFICES ASSUME IInv, Body PROVE IInv'
  OBVIOUS
<1> DEFINE x == call.rhs[curr] * (hi - lo)
           s == Total(call)[curr - 1]
<1>1. pc = "body" /\ pc' = "next" /\ sum' = Wrap(sum + x) /\ UNCHANGED <<call, curr, next>>
  BY DEF Body
<1>2. lo < hi /\ call.lhs[curr]
  BY <1>1 DEF IInv, AtBlock
<1>3. Share(call, curr) = x /\ x \in Int
  BY <1>1, <1>2, AtRow, ShareOfRow
<1>4. s \in Int /\ Total(call)[curr] = s + x
  BY <1>1, <1>3, AtRow
<1>5. sum = Wrap(s)
  BY <1>1 DEF IInv, SumOfPassed
<1> HIDE DEF x, s
<1>6. sum' = Wrap(Total(call)[curr])
  BY <1>1, <1>3, <1>4, <1>5, WrapSum
<1>7. sum' \in -Limit .. (Limit - 1)
  <2>1. s + x \in Int
    BY <1>3, <1>4
  <2> QED BY <1>4, <1>6, <2>1, WrapSum
<1>8. TypeOK'
  BY <1>1, <1>7 DEF IInv, TypeOK, Blocks
<1>9. AtBlock'
  BY <1>1 DEF IInv, AtBlock
<1>10. SumOfPassed'
  BY <1>1, <1>6 DEF SumOfPassed
<1> QED BY <1>1, <1>8, <1>9, <1>10 DEF IInv, Answers

LEMMA AdvanceKeeps == IInv /\ Advance => IInv'
<1> SUFFICES ASSUME IInv, Advance PROVE IInv'
  OBVIOUS
<1>1. pc = "next" /\ pc' = "head" /\ curr' = curr + 1 /\ next' = next + 1 /\ UNCHANGED <<call, sum>>
  BY DEF Advance
<1>2. curr \in 1..(N - 1) /\ next = curr + 1 /\ call \in Calls /\ N \in Nat
  BY <1>1, AtRow, TraceAssumption
<1>3. call.start \in 1..N /\ call.start <= curr
  BY <1>2, CallFields DEF IInv, AtBlock
<1>4. TypeOK'
  BY <1>1, <1>2 DEF IInv, TypeOK, Blocks
<1>5. AtBlock'
  BY <1>1, <1>2, <1>3 DEF AtBlock
<1>6. SumOfPassed'
  <2>1. (curr + 1) - 1 = curr
    BY <1>2
  <2> QED BY <1>1, <2>1 DEF IInv, SumOfPassed
<1> QED BY <1>1, <1>4, <1>5, <1>6 DEF IInv, Answers

LEMMA Invariance == Spec => []IInv
<1>1. IInv /\ [Next]_vars => IInv'
  <2> SUFFICES ASSUME IInv, [Next]_vars PROVE IInv'
    OBVIOUS
  <2>1. CASE Next
    BY <2>1, HeadKeeps, TimeBlockKeeps, CondKeeps, BodyKeeps, AdvanceKeeps DEF Next
  <2>2. CASE UNCHANGED vars
    BY <2>2 DEF vars, IInv, TypeOK, AtBlock, SumOfPassed, Answers, lo, hi, timeLo, timeHi
  <2> QED BY <2>1, <2>2
<1> QED BY <1>1, Initially, PTL DEF Spec

----------------------------------------------------------------------------
(* The loop reads the rows of the segment and its end only, whatever the   *)
(* window.                                                                 *)
THEOREM StaysInside == Spec => []InsideSegment
<1>1. IInv => InsideSegment
  <2> SUFFICES ASSUME IInv PROVE InsideSegment
    OBVIOUS
  <2>1. TypeOK /\ (pc = "head" => curr <= N) /\ (pc = "time" => next <= N)
    BY DEF IInv, AtBlock
  <2>2. pc \in {"cond", "body"} => curr \in 1..(N - 1)
    BY AtRow
  <2> QED BY <2>1, <2>2 DEF InsideSegment
<1> QED BY <1>1, Invariance, PTL

(* At every moment the sum is what the rows passed so far contribute,      *)
(* instant by instant, wrapped only once: an overflow on the way is lost   *)
(* neither in a product nor in a sum.                                      *)
THEOREM SumIsOfPassed == Spec => []SumOfPassed
BY Invariance, PTL DEF IInv

(* Integral implements Answer: it answers once, with the integral over the *)
(* whole segment.                                                          *)
THEOREM Refinement == Spec => Implements
<1>1. Init => Promise!Init
  BY DEF Init, Promise!Init, Answered
<1>2. IInv /\ IInv' /\ [Next]_vars => [Promise!Return]_(Promise!avars)
  <2> SUFFICES ASSUME IInv, IInv', [Next]_vars, Answered' # Answered \/ call' # call
               PROVE  Promise!Return
    BY DEF Promise!avars
  <2>1. call' = call /\ pc' = "tail" /\ pc # "tail"
    BY DEF Next, vars, Head, TimeBlock, Cond, Body, Advance, Goto, Answered
  <2>2. Answered = None /\ Answered' = Whole(call)
    BY <2>1 DEF IInv, Answers, Answered
  <2> QED BY <2>1, <2>2 DEF Promise!Return
<1> QED BY <1>1, <1>2, Invariance, PTL DEF Spec, Implements, Promise!Spec

----------------------------------------------------------------------------
(* The blocks of one turn, from the last to the first. *)
BlocksLeft ==
  CASE pc = "head" -> 5 [] pc = "time" -> 4 [] pc = "cond" -> 3 [] pc = "body" -> 2 [] pc = "next" -> 1

StepsLeft == IF pc = "tail" THEN 0 ELSE 5 * (N + 1 - curr) + BlocksLeft

(* No evaluation runs for ever: every block brings it closer to its end,   *)
(* and it runs through 5 * (N + 1) blocks at most, whatever the window,    *)
(* the times and the heights.                                              *)
THEOREM EndsSoon == Spec => [](StepsLeft \in 0..(5 * (N + 1))) /\ [][StepsLeft' < StepsLeft]_vars
<1>1. IInv => StepsLeft \in 0..(5 * (N + 1))
  <2> SUFFICES ASSUME IInv PROVE StepsLeft \in 0..(5 * (N + 1))
    OBVIOUS
  <2>1. N \in Nat /\ curr \in 1..(N + 1) /\ pc \in Blocks
    BY TraceAssumption DEF IInv, TypeOK
  <2> QED BY <2>1 DEF StepsLeft, BlocksLeft, Blocks
<1>2. IInv /\ IInv' /\ [Next]_vars => [StepsLeft' < StepsLeft]_vars
  <2> SUFFICES ASSUME IInv, IInv', Next PROVE StepsLeft' < StepsLeft
    OBVIOUS
  <2>1. N \in Nat /\ curr \in 1..(N + 1) /\ next = curr + 1 /\ curr' \in 1..(N + 1)
    BY TraceAssumption DEF IInv, TypeOK, AtBlock
  <2> QED BY <2>1 DEF Next, Head, TimeBlock, Cond, Body, Advance, Goto, StepsLeft, BlocksLeft
<1> QED BY <1>1, <1>2, Invariance, PTL DEF Spec
=============================================================================
