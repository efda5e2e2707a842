---------------------------- MODULE CodecProofs ----------------------------
(***************************************************************************)
(* Proofs about Codec and Csv: the stacks of types stay in step with the   *)
(* data and with each other, what is written is an encoding of its type,   *)
(* and the cells of a row come in the order of the listing, for types of   *)
(* any shape and values of any size.                                       *)
(***************************************************************************)
EXTENDS Csv, SequenceTheorems, WellFoundedInduction, TLAPS

Stacks == Seq(Parts)

(* What a type on a stack stands for when it is opened. *)
Inside(x) == IF x.kind = "record" THEN x.body ELSE <<x>>

(* h[i] is what the first i sequences of s are together. *)
Gathers(E, s, n, h) ==
  /\ h \in [0..n -> Seq(E)]
  /\ h[0] = <<>>
  /\ \A i \in 1..n : h[i] = h[i - 1] \o s[i]

(* u[n] is s with its records opened n times. *)
Opens(s, n, u) ==
  /\ u \in [0..n -> Stacks]
  /\ u[0] = s
  /\ \A i \in 1..n : u[i] = Unwrapped(u[i - 1])

(* One item takes what is due from d to e. *)
Takes(d, item, e) ==
  /\ d # <<>> /\ Head(d).kind = item.kind
  /\ item.kind # "array" => e = Tail(d)
  /\ item.kind = "array" => e = Due([i \in 1..item.size |-> Head(d).base]) \o Tail(d)

(* The size is one that the type allows. *)
Sized(d, item) == item.kind = "array" => Head(d).size \in {0, item.size}

(* The items that are not read yet take what is due to the reader to what  *)
(* is due to the writer, one after the other.  A row of a document may     *)
(* have other sizes than its type, and is given to readData alone.         *)
Matches(st) ==
  /\ \A i \in pos..Len(out) : st[i] \in Stacks
  /\ st[pos] = Due(rstack) /\ st[Len(out)] = Due(wstack)
  /\ \A i \in pos..(Len(out) - 1) :
       /\ Takes(st[i], out[i + 1], st[i + 1])
       /\ mode \in {"write", "read"} => Sized(st[i], out[i + 1])

Matched == type # Untyped /\ ~spoilt /\ ~lost => \E st : Matches(st)

Typed ==
  /\ TypeOK
  /\ wstack \in Stacks /\ rstack \in Stacks

(* The reader starts when the writer is done. *)
InTurn ==
  /\ mode \in {"write", "csv"} => pos = 0 /\ ~lost
  /\ mode \in {"dump", "csv"} => type # Untyped
  /\ mode = "dump" /\ ~spoilt /\ Due(wstack) = <<>> => ~lost

IInv == Typed /\ InTurn /\ Matched

----------------------------------------------------------------------------
(* What holds of 0 and is passed on to the next number holds up to n.      *)
LEMMA Stepwise ==
  ASSUME NEW n \in Nat, NEW S, 0 \in S, \A i \in 0..(n - 1) : i \in S => i + 1 \in S
  PROVE  0..n \subseteq S
<1> DEFINE R == OpToRel(<, Nat)
           T == (0..n) \ S
<1>1. IsWellFoundedOn(R, Nat)
  BY NatLessThanWellFounded
<1>2. \A i, j \in Nat : i < j => <<i, j>> \in R
  BY DEF OpToRel
<1>3. T \subseteq Nat
  OBVIOUS
<1> SUFFICES ASSUME T # {} PROVE FALSE
  OBVIOUS
<1> HIDE DEF R
<1>4. PICK x \in T : \A y \in T : ~(<<y, x>> \in R)
  BY <1>1, <1>3, WFMin
<1>5. x \in 1..n /\ x - 1 \in 0..(n - 1) /\ x - 1 \in Nat /\ x \in Nat /\ x - 1 < x
  BY <1>4
<1>6. x - 1 \notin T
  BY <1>2, <1>4, <1>5, Zenon
<1>7. x - 1 \in S /\ (x - 1) + 1 = x
  BY <1>5, <1>6
<1> QED BY <1>4, <1>5, <1>7

(* Sequences are put together like words. *)
LEMMA Words ==
  ASSUME NEW E
  PROVE  /\ <<>> \in Seq(E)
         /\ \A x \in E : <<x>> \in Seq(E)
         /\ \A s, t \in Seq(E) : s \o t \in Seq(E) /\ Len(s \o t) = Len(s) + Len(t)
         /\ \A s, t, v \in Seq(E) : (s \o t) \o v = s \o (t \o v)
         /\ \A s \in Seq(E) : s \o <<>> = s /\ <<>> \o s = s
<1>1. \A s, t \in Seq(E) : s \o t \in Seq(E) /\ Len(s \o t) = Len(s) + Len(t)
  BY ConcatProperties
<1>2. \A s, t, v \in Seq(E) : (s \o t) \o v = s \o (t \o v)
  BY ConcatAssociative, SMTT(60)
<1>3. \A s \in Seq(E) : s \o <<>> = s /\ <<>> \o s = s
  BY ConcatEmptySeq
<1> QED BY <1>1, <1>2, <1>3

----------------------------------------------------------------------------
(* Sequences of sequences, put together. *)
LEMMA GathersExists ==
  ASSUME NEW E, NEW s \in Seq(Seq(E))
  PROVE  \E h : Gathers(E, s, Len(s), h)
<1> DEFINE S == {n \in 0..Len(s) : \E h : Gathers(E, s, n, h)}
<1>1. Len(s) \in Nat /\ \A i \in 1..Len(s) : s[i] \in Seq(E)
  OBVIOUS
<1>2. 0 \in S
  <2> DEFINE h == [i \in 0..0 |-> <<>>]
  <2>1. Gathers(E, s, 0, h)
    BY Words DEF Gathers
  <2> HIDE DEF h
  <2> QED BY <1>1, <2>1
<1>3. ASSUME NEW n \in 0..(Len(s) - 1), n \in S PROVE n + 1 \in S
  <2>1. PICK h : Gathers(E, s, n, h)
    BY <1>3
  <2> DEFINE g == [i \in 0..(n + 1) |-> IF i <= n THEN h[i] ELSE h[n] \o s[n + 1]]
  <2>2. n \in Nat /\ n + 1 \in 0..Len(s) /\ n + 1 \in 1..Len(s)
    BY <1>1
  <2>3. h[n] \in Seq(E) /\ h[n] \o s[n + 1] \in Seq(E)
    BY <1>1, <2>1, <2>2, Words DEF Gathers
  <2>4. g \in [0..(n + 1) -> Seq(E)]
    BY <2>1, <2>2, <2>3 DEF Gathers
  <2>5. g[0] = <<>>
    BY <2>1, <2>2 DEF Gathers
  <2>6. ASSUME NEW i \in 1..(n + 1) PROVE g[i] = g[i - 1] \o s[i]
    <3>1. CASE i <= n
      <4>1. g[i] = h[i]
        BY <2>2, <3>1
      <4>2. g[i - 1] = h[i - 1]
        BY <2>2, <3>1
      <4>3. i \in 1..n
        BY <2>2, <3>1
      <4>4. h[i] = h[i - 1] \o s[i]
        BY <2>1, <4>3 DEF Gathers
      <4> HIDE DEF g
      <4> QED BY <4>1, <4>2, <4>4, Zenon
    <3>2. CASE i = n + 1
      <4>1. n + 1 \in 0..(n + 1) /\ ~(n + 1 <= n) /\ n \in 0..(n + 1) /\ n <= n /\ (n + 1) - 1 = n
        BY <2>2
      <4>2. g[n + 1] = h[n] \o s[n + 1]
        BY <4>1, Zenon
      <4>3. g[n] = h[n]
        BY <4>1, Zenon
      <4> HIDE DEF g
      <4> QED BY <3>2, <4>1, <4>2, <4>3
    <3>3. i <= n \/ i = n + 1
      BY <2>2
    <3> QED BY <3>1, <3>2, <3>3, Zenon
  <2>7. Gathers(E, s, n + 1, g)
    BY <2>4, <2>5, <2>6 DEF Gathers
  <2> HIDE DEF g
  <2> QED BY <2>2, <2>7
<1> HIDE DEF S
<1>4. 0..Len(s) \subseteq S
  BY <1>1, <1>2, <1>3, Stepwise
<1>5. Len(s) \in S
  BY <1>1, <1>4
<1> QED BY <1>5 DEF S

LEMMA GathersIs ==
  ASSUME NEW E, NEW s \in Seq(Seq(E)), NEW h, Gathers(E, s, Len(s), h)
  PROVE  FlattenSeq(s) = h[Len(s)]
<1> DEFINE n == Len(s)
<1>1. n \in Nat /\ \A i \in 1..n : s[i] \in Seq(E)
  OBVIOUS
<1>5. CASE n = 0
  <2>1. s = <<>> /\ Len(s) = 0
    BY <1>5
  <2>2. FlattenSeq(s) = <<>>
    BY <2>1 DEF FlattenSeq
  <2> QED BY <1>5, <2>2 DEF Gathers
<1>6. CASE n # 0
  <2> DEFINE D(g) == g = [i \in 1..Len(s) |-> IF i = 1 THEN s[i] ELSE g[i - 1] \o s[i]]
             f == [i \in 1..Len(s) |-> h[i]]
             t == CHOOSE g : D(g)
  <2>1. FlattenSeq(s) = t[n]
    BY <1>6 DEF FlattenSeq
  <2>2. ASSUME NEW i \in 1..Len(s)
        PROVE  h[i] = IF i = 1 THEN s[i] ELSE h[i - 1] \o s[i]
    <3>1. i \in 1..n /\ h[i] = h[i - 1] \o s[i] /\ s[i] \in Seq(E)
      BY <1>1 DEF Gathers
    <3>2. CASE i = 1
      <4>1. h[i - 1] = <<>>
        BY <3>2 DEF Gathers
      <4>2. <<>> \o s[i] = s[i]
        BY <3>1, Words
      <4> QED BY <3>1, <3>2, <4>1, <4>2
    <3> QED BY <3>1, <3>2
  <2>3. D(f)
    <3>1. \A i \in 1..Len(s) : f[i] = h[i]
      OBVIOUS
    <3>2. ASSUME NEW i \in 1..Len(s)
          PROVE  h[i] = IF i = 1 THEN s[i] ELSE f[i - 1] \o s[i]
      <4>1. i # 1 => i - 1 \in 1..Len(s)
        BY <1>1
      <4> HIDE DEF f
      <4>2. i # 1 => f[i - 1] = h[i - 1]
        BY <3>1, <4>1, Zenon
      <4> QED BY <2>2, <4>2
    <3> QED BY <3>2, Zenon
  <2>4. D(t)
    BY <2>3, Zenon
  <2> HIDE DEF f, t
  <2> DEFINE S == {k \in 0..(n - 1) : t[k + 1] = h[k + 1]}
  <2>5. 0 \in S
    <3>1. 1 \in 1..Len(s)
      BY <1>1, <1>6
    <3>2. t[1] = s[1]
      BY <2>4, <3>1
    <3> QED BY <1>1, <1>6, <2>2, <3>1, <3>2
  <2>6. ASSUME NEW k \in 0..((n - 1) - 1), k \in S PROVE k + 1 \in S
    <3>1. /\ (k + 1) + 1 \in 1..Len(s) /\ (k + 1) + 1 # 1 /\ ((k + 1) + 1) - 1 = k + 1
          /\ k + 1 \in 0..(n - 1)
      BY <1>1
    <3>2. t[(k + 1) + 1] = t[k + 1] \o s[(k + 1) + 1]
      BY <2>4, <3>1
    <3>3. h[(k + 1) + 1] = h[k + 1] \o s[(k + 1) + 1]
      BY <2>2, <3>1
    <3> QED BY <2>6, <3>1, <3>2, <3>3
  <2> HIDE DEF S
  <2>7. n - 1 \in Nat /\ n - 1 \in 0..(n - 1) /\ (n - 1) + 1 = n
    BY <1>1, <1>6
  <2>8. 0..(n - 1) \subseteq S
    BY <2>5, <2>6, <2>7, Stepwise
  <2>9. t[n] = h[n]
    BY <2>7, <2>8 DEF S
  <2> QED BY <2>1, <2>9
<1> QED BY <1>5, <1>6

LEMMA FlattenType ==
  ASSUME NEW E
  PROVE  /\ \A s \in Seq(Seq(E)) : FlattenSeq(s) \in Seq(E)
         /\ FlattenSeq(<<>>) = <<>>
         /\ \A x \in Seq(E) : FlattenSeq(<<x>>) = x
<1>1. ASSUME NEW s \in Seq(Seq(E)) PROVE FlattenSeq(s) \in Seq(E)
  <2>1. PICK h : Gathers(E, s, Len(s), h)
    BY GathersExists
  <2>2. FlattenSeq(s) = h[Len(s)]
    BY <2>1, GathersIs
  <2> QED BY <2>1, <2>2 DEF Gathers
<1>2. FlattenSeq(<<>>) = <<>>
  BY DEF FlattenSeq
<1>3. ASSUME NEW x \in Seq(E) PROVE FlattenSeq(<<x>>) = x
  <2>1. <<x>> \in Seq(Seq(E)) /\ Len(<<x>>) = 1 /\ <<x>>[1] = x
    OBVIOUS
  <2>2. PICK h : Gathers(E, <<x>>, Len(<<x>>), h)
    BY <2>1, GathersExists
  <2>3. FlattenSeq(<<x>>) = h[1]
    BY <2>1, <2>2, GathersIs
  <2>4. h[0] = <<>> /\ h[1] = h[1 - 1] \o <<x>>[1] /\ 1 - 1 = 0
    <3>1. Gathers(E, <<x>>, 1, h) /\ 1 \in 1..1
      BY <2>1, <2>2
    <3> HIDE <2>1, <2>2
    <3> QED BY <3>1 DEF Gathers
  <2>5. h[1] = <<>> \o x
    BY <2>1, <2>4, Zenon
  <2> QED BY <2>3, <2>5, Words
<1> QED BY <1>1, <1>2, <1>3

LEMMA FlattenConcat ==
  ASSUME NEW E, NEW s \in Seq(Seq(E)), NEW r \in Seq(Seq(E))
  PROVE  FlattenSeq(s \o r) = FlattenSeq(s) \o FlattenSeq(r)
<1> DEFINE m == Len(s)
           n == Len(r)
<1>0. \A x, y, z \in Seq(E) : x \o (y \o z) = (x \o y) \o z
  BY ConcatAssociative, SMTT(60)
<1>1. PICK f : Gathers(E, s, m, f)
  BY GathersExists
<1>2. PICK g : Gathers(E, r, n, g)
  BY GathersExists
<1> DEFINE h == [i \in 0..(m + n) |-> IF i <= m THEN f[i] ELSE f[m] \o g[i - m]]
<1>3. /\ m \in Nat /\ n \in Nat /\ s \o r \in Seq(Seq(E)) /\ Len(s \o r) = m + n
      /\ \A i \in 1..m : (s \o r)[i] = s[i]
      /\ \A i \in (m + 1)..(m + n) : (s \o r)[i] = r[i - m]
      /\ \A i \in 1..n : r[i] \in Seq(E)
  BY ConcatProperties
<1>4. /\ \A i \in 0..m : f[i] \in Seq(E)
      /\ \A i \in 0..n : g[i] \in Seq(E)
  BY <1>1, <1>2 DEF Gathers
<1>5. h \in [0..(m + n) -> Seq(E)]
  <2> SUFFICES ASSUME NEW i \in 0..(m + n)
               PROVE  (IF i <= m THEN f[i] ELSE f[m] \o g[i - m]) \in Seq(E)
    OBVIOUS
  <2>1. CASE i <= m
    BY <1>3, <1>4, <2>1
  <2>2. CASE ~(i <= m)
    <3>1. i - m \in 0..n /\ m \in 0..m
      BY <1>3, <2>2
    <3> QED BY <1>4, <2>2, <3>1, Words, SMTT(60)
  <2> QED BY <2>1, <2>2
<1>6. h[0] = <<>>
  BY <1>1, <1>3 DEF Gathers
<1>7. ASSUME NEW i \in 1..(m + n) PROVE h[i] = h[i - 1] \o (s \o r)[i]
  <2>1. CASE i <= m
    <3>1. h[i] = f[i] /\ h[i - 1] = f[i - 1] /\ i \in 1..m
      BY <1>3, <2>1
    <3> HIDE DEF h
    <3>2. f[i] = f[i - 1] \o s[i]
      BY <1>1, <3>1 DEF Gathers
    <3> QED BY <1>3, <3>1, <3>2
  <2>2. CASE ~(i <= m)
    <3> DEFINE j == i - m
    <3>1. j \in 1..n /\ j - 1 \in 0..n /\ j \in 0..n /\ m \in 0..m /\ i \in (m + 1)..(m + n)
      BY <1>3, <2>2
    <3>2. h[i] = f[m] \o g[j]
      <4>1. i \in 0..(m + n)
        BY <1>3
      <4> QED BY <2>2, <4>1, Zenon
    <3>3. h[i - 1] = f[m] \o g[j - 1]
      <4>1. CASE i - 1 = m
        <5>1. g[j - 1] = <<>>
          <6>1. j - 1 = 0
            BY <1>3, <4>1
          <6> QED BY <1>2, <6>1 DEF Gathers
        <5>2. h[i - 1] = f[m]
          BY <1>3, <4>1
        <5>3. f[m] \o <<>> = f[m]
          BY <1>4, <3>1, Words
        <5> QED BY <5>1, <5>2, <5>3
      <4>2. CASE i - 1 # m
        <5>1. i - 1 \in 0..(m + n) /\ ~(i - 1 <= m) /\ (i - 1) - m = j - 1
          BY <1>3, <2>2, <4>2
        <5> QED BY <5>1
      <4> QED BY <4>1, <4>2
    <3>4. g[j] = g[j - 1] \o r[j]
      BY <1>2, <3>1 DEF Gathers
    <3>5. (s \o r)[i] = r[j] /\ r[j] \in Seq(E)
      BY <1>3, <3>1
    <3> HIDE DEF h, j
    <3>6. f[m] \o (g[j - 1] \o r[j]) = (f[m] \o g[j - 1]) \o r[j]
      <4>1. f[m] \in Seq(E) /\ g[j - 1] \in Seq(E)
        BY <1>4, <3>1
      <4> QED BY <1>0, <3>5, <4>1, ZenonT(60)
    <3> QED BY <3>2, <3>3, <3>4, <3>5, <3>6
  <2> QED BY <2>1, <2>2
<1>8. FlattenSeq(s \o r) = h[m + n]
  <2>1. Gathers(E, s \o r, Len(s \o r), h)
    BY <1>3, <1>5, <1>6, <1>7 DEF Gathers
  <2> HIDE DEF h
  <2> QED BY <1>3, <2>1, GathersIs
<1>9. h[m + n] = f[m] \o g[n]
  <2>1. CASE n = 0
    <3>1. h[m + n] = f[m] /\ g[n] = <<>> /\ m \in 0..m
      BY <1>2, <1>3, <2>1 DEF Gathers
    <3> HIDE DEF h
    <3> QED BY <1>4, <3>1, Words
  <2>2. CASE n # 0
    <3>1. m + n \in 0..(m + n) /\ ~(m + n <= m) /\ (m + n) - m = n
      BY <1>3, <2>2
    <3> QED BY <3>1
  <2> QED BY <2>1, <2>2
<1>10. FlattenSeq(s) = f[m] /\ FlattenSeq(r) = g[n]
  BY <1>1, <1>2, GathersIs
<1> QED BY <1>8, <1>9, <1>10

(* The first of them, and the others. *)
LEMMA FlattenFront ==
  ASSUME NEW E, NEW s \in Seq(Seq(E)), s # <<>>
  PROVE  /\ Head(s) \in Seq(E) /\ Tail(s) \in Seq(Seq(E))
         /\ FlattenSeq(s) = Head(s) \o FlattenSeq(Tail(s))
<1>1. Head(s) \in Seq(E) /\ Tail(s) \in Seq(Seq(E)) /\ s = <<Head(s)>> \o Tail(s)
  BY HeadTailProperties
<1>2. <<Head(s)>> \in Seq(Seq(E))
  BY <1>1
<1>3. FlattenSeq(<<Head(s)>> \o Tail(s)) = FlattenSeq(<<Head(s)>>) \o FlattenSeq(Tail(s))
  BY <1>1, <1>2, FlattenConcat
<1>4. FlattenSeq(<<Head(s)>>) = Head(s)
  BY <1>1, FlattenType
<1> QED BY <1>1, <1>3, <1>4

----------------------------------------------------------------------------
(* Stacks are put together like words, and opening every record of a stack *)
(* once puts together what its types stand for.                            *)
LEMMA Algebra ==
  /\ <<>> \in Stacks
  /\ \A x \in Parts : <<x>> \in Stacks
  /\ \A s, t \in Stacks : s \o t \in Stacks /\ Len(s \o t) = Len(s) + Len(t)
  /\ \A s, t, v \in Stacks : (s \o t) \o v = s \o (t \o v)
  /\ \A s \in Stacks : s \o <<>> = s /\ <<>> \o s = s
BY Words DEF Stacks

LEMMA InsideType == \A x \in Parts : Inside(x) \in Stacks
<1> SUFFICES ASSUME NEW x \in Parts PROVE Inside(x) \in Stacks
  OBVIOUS
<1>1. CASE x.kind = "record"
  <2>1. x.body \in Stacks
    BY <1>1, CodecAssumption DEF Stacks
  <2> QED BY <1>1, <2>1 DEF Inside
<1>2. CASE x.kind # "record"
  BY <1>2, Algebra DEF Inside
<1> QED BY <1>1, <1>2

LEMMA StackFields ==
  ASSUME NEW s \in Stacks
  PROVE  Len(s) \in Nat /\ DOMAIN s = 1..Len(s) /\ \A i \in 1..Len(s) : s[i] \in Parts
BY DEF Stacks

LEMMA UnwrappedIs ==
  ASSUME NEW s \in Stacks
  PROVE  /\ Unwrapped(s) = FlattenSeq([i \in 1..Len(s) |-> Inside(s[i])])
         /\ [i \in 1..Len(s) |-> Inside(s[i])] \in Seq(Stacks)
<1>1. Len(s) \in Nat /\ DOMAIN s = 1..Len(s) /\ \A i \in 1..Len(s) : Inside(s[i]) \in Stacks
  BY StackFields, InsideType
<1>2. [i \in DOMAIN s |-> IF s[i].kind = "record" THEN s[i].body ELSE <<s[i]>>]
        = [i \in 1..Len(s) |-> Inside(s[i])]
  BY <1>1 DEF Inside
<1>3. Unwrapped(s) = FlattenSeq([i \in 1..Len(s) |-> Inside(s[i])])
  BY <1>2, Zenon DEF Unwrapped
<1>4. [i \in 1..Len(s) |-> Inside(s[i])] \in Seq(Stacks)
  BY <1>1
<1> QED BY <1>3, <1>4

LEMMA UnwrappedConcat ==
  ASSUME NEW s \in Stacks, NEW r \in Stacks
  PROVE  Unwrapped(s \o r) = Unwrapped(s) \o Unwrapped(r)
<1> DEFINE In(v) == [i \in 1..Len(v) |-> Inside(v[i])]
<1>1. /\ Len(s) \in Nat /\ Len(r) \in Nat /\ s \o r \in Stacks /\ Len(s \o r) = Len(s) + Len(r)
      /\ \A i \in 1..Len(s) : (s \o r)[i] = s[i]
      /\ \A i \in (Len(s) + 1)..(Len(s) + Len(r)) : (s \o r)[i] = r[i - Len(s)]
  BY StackFields, ConcatProperties DEF Stacks
<1>2. In(s) \in Seq(Stacks) /\ In(r) \in Seq(Stacks) /\ In(s \o r) \in Seq(Stacks)
  BY <1>1, UnwrappedIs
<1>3. In(s \o r) = In(s) \o In(r)
  BY <1>1, <1>2
<1> HIDE DEF In
<1>4. FlattenSeq(In(s) \o In(r)) = FlattenSeq(In(s)) \o FlattenSeq(In(r))
  BY <1>2, FlattenConcat DEF Stacks
<1>5. \A v \in Stacks : Unwrapped(v) = FlattenSeq(In(v))
  BY UnwrappedIs DEF In
<1> QED BY <1>1, <1>3, <1>4, <1>5

LEMMA UnwrappedType ==
  /\ \A s \in Stacks : Unwrapped(s) \in Stacks
  /\ Unwrapped(<<>>) = <<>>
  /\ \A x \in Parts : Unwrapped(<<x>>) = Inside(x)
<1>1. ASSUME NEW s \in Stacks PROVE Unwrapped(s) \in Stacks
  BY UnwrappedIs, FlattenType, ZenonT(60) DEF Stacks
<1>2. Unwrapped(<<>>) = <<>>
  <2>1. <<>> \in Stacks /\ [i \in 1..Len(<<>>) |-> Inside(<<>>[i])] = <<>>
    BY Algebra
  <2> QED BY <2>1, UnwrappedIs, FlattenType
<1>3. ASSUME NEW x \in Parts PROVE Unwrapped(<<x>>) = Inside(x)
  <2>1. <<x>> \in Stacks /\ Inside(x) \in Stacks
    BY Algebra, InsideType
  <2>2. [i \in 1..Len(<<x>>) |-> Inside(<<x>>[i])] = <<Inside(x)>>
    OBVIOUS
  <2> QED BY <2>1, <2>2, UnwrappedIs, FlattenType DEF Stacks
<1> QED BY <1>1, <1>2, <1>3

(* Without a record nothing is opened. *)
LEMMA UnwrappedFlat ==
  ASSUME NEW s \in Stacks, \A i \in DOMAIN s : s[i].kind # "record"
  PROVE  Unwrapped(s) = s
<1> DEFINE n == Len(s)
           h == [i \in 0..n |-> SubSeq(s, 1, i)]
           v == [i \in 1..n |-> Inside(s[i])]
<1>1. n \in Nat /\ \A i \in 1..n : s[i] \in Parts /\ Inside(s[i]) = <<s[i]>>
  BY StackFields DEF Inside
<1>2. h \in [0..n -> Seq(Parts)]
  BY <1>1, SubSeqProperties DEF Stacks
<1>3. h[0] = <<>>
  BY <1>1, SubSeqEmpty
<1>4. ASSUME NEW i \in 1..n PROVE h[i] = h[i - 1] \o v[i]
  <2>1. h[i] = SubSeq(s, 1, i) /\ h[i - 1] = SubSeq(s, 1, i - 1)
    BY <1>1
  <2>2. 1 \in 1..Len(s) /\ i \in 1..Len(s)
    BY <1>1
  <2>3. SubSeq(s, 1, i) = SubSeq(s, 1, i - 1) \o <<s[i]>>
    BY <2>2, SubSeqRecursiveSecond DEF Stacks
  <2> QED BY <1>1, <2>1, <2>3
<1>5. Unwrapped(s) = h[n]
  <2>1. v \in Seq(Seq(Parts)) /\ Len(v) = n /\ Unwrapped(s) = FlattenSeq(v)
    BY <1>1, UnwrappedIs DEF Stacks
  <2>2. Gathers(Parts, v, n, h)
    BY <1>2, <1>3, <1>4 DEF Gathers
  <2> HIDE DEF h, v
  <2> QED BY <2>1, <2>2, GathersIs
<1>6. h[n] = s
  BY <1>1, SubSeqFull DEF Stacks
<1> QED BY <1>5, <1>6

----------------------------------------------------------------------------
(* Opening all of them, as deep as they are nested. *)
LEMMA OpensExists ==
  ASSUME NEW s \in Stacks
  PROVE  \E u : Opens(s, Depth, u)
<1> DEFINE S == {n \in 0..Depth : \E u : Opens(s, n, u)}
<1>1. Depth \in Nat
  BY CodecAssumption
<1>2. 0 \in S
  <2> DEFINE u == [i \in 0..0 |-> s]
  <2>1. Opens(s, 0, u)
    BY DEF Opens
  <2> HIDE DEF u
  <2> QED BY <1>1, <2>1
<1>3. ASSUME NEW n \in 0..(Depth - 1), n \in S PROVE n + 1 \in S
  <2>1. PICK u : Opens(s, n, u)
    BY <1>3
  <2> DEFINE v == [i \in 0..(n + 1) |-> IF i <= n THEN u[i] ELSE Unwrapped(u[n])]
  <2>2. n \in Nat /\ n + 1 \in 0..Depth
    BY <1>1
  <2>3. u[n] \in Stacks /\ Unwrapped(u[n]) \in Stacks
    BY <2>1, <2>2, UnwrappedType DEF Opens
  <2>4. v \in [0..(n + 1) -> Stacks]
    BY <2>1, <2>2, <2>3 DEF Opens
  <2>5. v[0] = s
    BY <2>1, <2>2 DEF Opens
  <2>6. ASSUME NEW i \in 1..(n + 1) PROVE v[i] = Unwrapped(v[i - 1])
    <3>1. CASE i <= n
      <4>1. v[i] = u[i] /\ v[i - 1] = u[i - 1] /\ i \in 1..n
        BY <2>2, <3>1
      <4> HIDE DEF v
      <4> QED BY <2>1, <4>1 DEF Opens
    <3>2. CASE i = n + 1
      <4>1. n + 1 \in 0..(n + 1) /\ ~(n + 1 <= n) /\ n \in 0..(n + 1) /\ n <= n /\ (n + 1) - 1 = n
        BY <2>2
      <4>2. v[n + 1] = Unwrapped(u[n])
        BY <4>1, Zenon
      <4>3. v[n] = u[n]
        BY <4>1, Zenon
      <4> HIDE DEF v
      <4> QED BY <3>2, <4>1, <4>2, <4>3
    <3> QED BY <2>2, <3>1, <3>2
  <2>7. Opens(s, n + 1, v)
    BY <2>4, <2>5, <2>6 DEF Opens
  <2> HIDE DEF v
  <2> QED BY <2>2, <2>7
<1> HIDE DEF S
<1>4. 0..Depth \subseteq S
  BY <1>1, <1>2, <1>3, Stepwise
<1>5. Depth \in S
  BY <1>1, <1>4
<1> QED BY <1>5 DEF S

LEMMA OpensIs ==
  ASSUME NEW s \in Stacks, NEW u, Opens(s, Depth, u)
  PROVE  Due(s) = u[Depth]
<1> DEFINE D(g) == g = [n \in 0..Depth |-> IF n = 0 THEN s ELSE Unwrapped(g[n - 1])]
           t == CHOOSE g : D(g)
<1>1. Depth \in Nat
  BY CodecAssumption
<1>2. Due(s) = t[Depth]
  BY DEF Due
<1>3. D(u)
  <2>1. u = [n \in 0..Depth |-> u[n]]
    BY DEF Opens
  <2>2. ASSUME NEW n \in 0..Depth PROVE u[n] = IF n = 0 THEN s ELSE Unwrapped(u[n - 1])
    <3>1. n = 0 \/ n \in 1..Depth
      BY <1>1
    <3> QED BY <3>1 DEF Opens
  <2> QED BY <2>1, <2>2
<1>4. D(t)
  BY <1>3
<1> HIDE DEF t
<1> DEFINE S == {n \in 0..Depth : t[n] = u[n]}
<1>5. 0 \in S
  BY <1>1, <1>4 DEF Opens
<1>6. ASSUME NEW n \in 0..(Depth - 1), n \in S PROVE n + 1 \in S
  <2>1. n + 1 \in 1..Depth /\ n + 1 \in 0..Depth /\ n + 1 # 0 /\ (n + 1) - 1 = n
    BY <1>1
  <2>2. t[n + 1] = Unwrapped(t[n])
    BY <1>4, <2>1
  <2>3. u[n + 1] = Unwrapped(u[n])
    BY <2>1 DEF Opens
  <2> QED BY <1>6, <2>1, <2>2, <2>3
<1> HIDE DEF S
<1>7. 0..Depth \subseteq S
  BY <1>1, <1>5, <1>6, Stepwise
<1>8. t[Depth] = u[Depth]
  BY <1>1, <1>7 DEF S
<1> QED BY <1>2, <1>8

LEMMA DueType == \A s \in Stacks : Due(s) \in Stacks
<1> SUFFICES ASSUME NEW s \in Stacks PROVE Due(s) \in Stacks
  OBVIOUS
<1>1. PICK u : Opens(s, Depth, u)
  BY OpensExists
<1>2. Due(s) = u[Depth] /\ Depth \in 0..Depth
  BY <1>1, OpensIs, CodecAssumption
<1> QED BY <1>1, <1>2 DEF Opens

(* What two stacks stand for one behind the other. *)
LEMMA DueConcat == \A s, r \in Stacks : Due(s \o r) = Due(s) \o Due(r)
<1> SUFFICES ASSUME NEW s \in Stacks, NEW r \in Stacks PROVE Due(s \o r) = Due(s) \o Due(r)
  OBVIOUS
<1>1. PICK f : Opens(s, Depth, f)
  BY OpensExists
<1>2. PICK g : Opens(r, Depth, g)
  BY OpensExists
<1> DEFINE h == [n \in 0..Depth |-> f[n] \o g[n]]
<1>3. \A n \in 0..Depth : f[n] \in Stacks /\ g[n] \in Stacks
  BY <1>1, <1>2 DEF Opens
<1>4. Depth \in Nat
  BY CodecAssumption
<1>5. h \in [0..Depth -> Stacks]
  BY <1>3, Algebra
<1>6. h[0] = s \o r
  <2>1. 0 \in 0..Depth
    BY <1>4
  <2>2. h[0] = f[0] \o g[0]
    BY <2>1, Zenon
  <2> QED BY <1>1, <1>2, <2>2 DEF Opens
<1>7. ASSUME NEW n \in 1..Depth PROVE h[n] = Unwrapped(h[n - 1])
  <2>1. n \in 0..Depth /\ n - 1 \in 0..Depth
    BY <1>4
  <2>2. h[n] = f[n] \o g[n]
    BY <2>1, Zenon
  <2>3. h[n - 1] = f[n - 1] \o g[n - 1]
    BY <2>1, Zenon
  <2> HIDE DEF h
  <2>4. f[n] = Unwrapped(f[n - 1]) /\ g[n] = Unwrapped(g[n - 1])
    BY <1>1, <1>2 DEF Opens
  <2>5. Unwrapped(f[n - 1] \o g[n - 1]) = Unwrapped(f[n - 1]) \o Unwrapped(g[n - 1])
    BY <1>3, <2>1, UnwrappedConcat
  <2> QED BY <2>2, <2>3, <2>4, <2>5
<1>8. Opens(s \o r, Depth, h)
  BY <1>5, <1>6, <1>7 DEF Opens
<1>9. h[Depth] = f[Depth] \o g[Depth]
  <2>1. Depth \in 0..Depth
    BY <1>4
  <2> QED BY <2>1, Zenon
<1> HIDE DEF h
<1>10. Due(s \o r) = h[Depth]
  BY <1>8, OpensIs, Algebra
<1>11. Due(s) = f[Depth] /\ Due(r) = g[Depth]
  BY <1>1, <1>2, OpensIs
<1> QED BY <1>9, <1>10, <1>11

(* A scalar or an array stands for itself, a record for its members. *)
LEMMA DueOne ==
  /\ Due(<<>>) = <<>>
  /\ \A x \in Parts : Due(<<x>>) = IF x.kind = "record" THEN Due(x.body) ELSE <<x>>
<1>1. Depth \in Nat
  BY CodecAssumption
<1>2. Due(<<>>) = <<>>
  <2> DEFINE u == [n \in 0..Depth |-> <<>>]
  <2>1. Opens(<<>>, Depth, u) /\ u[Depth] = <<>>
    BY <1>1, Algebra, UnwrappedType DEF Opens
  <2> HIDE DEF u
  <2> QED BY <2>1, OpensIs, Algebra
<1>3. ASSUME NEW x \in Parts, x.kind # "record" PROVE Due(<<x>>) = <<x>>
  <2> DEFINE u == [n \in 0..Depth |-> <<x>>]
  <2>1. Unwrapped(<<x>>) = <<x>> /\ <<x>> \in Stacks
    BY <1>3, Algebra, UnwrappedType DEF Inside
  <2>2. Opens(<<x>>, Depth, u) /\ u[Depth] = <<x>>
    BY <1>1, <2>1 DEF Opens
  <2> HIDE DEF u
  <2> QED BY <2>1, <2>2, OpensIs
<1>4. ASSUME NEW x \in Parts, x.kind = "record" PROVE Due(<<x>>) = Due(x.body)
  <2>1. <<x>> \in Stacks /\ x.body \in Stacks /\ Unwrapped(<<x>>) = x.body
    BY <1>4, Algebra, UnwrappedType, InsideType DEF Inside
  <2>2. PICK u : Opens(<<x>>, Depth, u)
    BY <2>1, OpensExists
  <2>3. Due(<<x>>) = u[Depth]
    BY <2>1, <2>2, OpensIs
  <2>4. \A i \in DOMAIN u[Depth] : u[Depth][i].kind # "record"
    BY <2>3, CodecAssumption
  <2>5. Depth # 0
    <3> SUFFICES ASSUME Depth = 0 PROVE FALSE
      OBVIOUS
    <3>1. u[Depth] = <<x>>
      BY <2>2 DEF Opens
    <3> QED BY <1>4, <2>4, <3>1
  <2>6. u[Depth] \in Stacks
    BY <1>1, <2>2 DEF Opens
  <2>7. Unwrapped(u[Depth]) = u[Depth]
    BY <2>4, <2>6, UnwrappedFlat
  <2> DEFINE v == [n \in 0..Depth |-> IF n < Depth THEN u[n + 1] ELSE u[Depth]]
  <2>8. v \in [0..Depth -> Stacks]
    BY <1>1, <2>2 DEF Opens
  <2>9. v[0] = x.body
    <3>1. v[0] = u[0 + 1] /\ 0 + 1 = 1 /\ 1 \in 1..Depth /\ 1 - 1 = 0
      BY <1>1, <2>5
    <3> HIDE DEF v
    <3>2. u[1] = Unwrapped(u[1 - 1]) /\ u[0] = <<x>>
      BY <2>2, <3>1 DEF Opens
    <3> QED BY <2>1, <3>1, <3>2
  <2>10. ASSUME NEW n \in 1..Depth PROVE v[n] = Unwrapped(v[n - 1])
    <3>1. v[n - 1] = u[n]
      <4>1. n - 1 \in 0..Depth /\ n - 1 < Depth /\ (n - 1) + 1 = n
        BY <1>1
      <4> QED BY <4>1
    <3>2. CASE n < Depth
      <4>1. v[n] = u[n + 1]
        BY <3>2
      <4>2. n + 1 \in 1..Depth /\ (n + 1) - 1 = n
        BY <1>1, <3>2
      <4> HIDE DEF v
      <4>3. u[n + 1] = Unwrapped(u[n])
        BY <2>2, <4>2 DEF Opens
      <4> QED BY <3>1, <4>1, <4>3
    <3>3. CASE n = Depth
      <4>1. v[Depth] = u[Depth]
        BY <1>1
      <4> HIDE DEF v
      <4> QED BY <2>7, <3>1, <3>3, <4>1
    <3> QED BY <1>1, <3>2, <3>3
  <2>11. Opens(x.body, Depth, v)
    BY <2>8, <2>9, <2>10 DEF Opens
  <2>12. v[Depth] = u[Depth]
    BY <1>1
  <2> HIDE DEF v
  <2>13. Due(x.body) = v[Depth]
    BY <2>1, <2>11, OpensIs
  <2> QED BY <2>3, <2>12, <2>13
<1> QED BY <1>2, <1>3, <1>4

----------------------------------------------------------------------------
(* The front of a stack, and what is due behind it. *)
LEMMA Foremost ==
  ASSUME NEW s \in Stacks, s # <<>>
  PROVE  /\ Head(s) \in Parts /\ Tail(s) \in Stacks
         /\ s = <<Head(s)>> \o Tail(s)
         /\ Due(s) = Due(<<Head(s)>>) \o Due(Tail(s))
<1>1. Head(s) \in Parts /\ Tail(s) \in Stacks
  BY HeadTailProperties DEF Stacks
<1>2. s = <<Head(s)>> \o Tail(s)
  BY DEF Stacks
<1>3. <<Head(s)>> \in Stacks
  BY <1>1, Algebra
<1>4. Due(<<Head(s)>> \o Tail(s)) = Due(<<Head(s)>>) \o Due(Tail(s))
  BY <1>1, <1>3, DueConcat
<1> QED BY <1>1, <1>2, <1>4

LEMMA DueFront ==
  ASSUME NEW s \in Stacks, s # <<>>, Head(s).kind # "record"
  PROVE  Due(s) # <<>> /\ Head(Due(s)) = Head(s) /\ Tail(Due(s)) = Due(Tail(s))
<1>1. Head(s) \in Parts /\ Due(Tail(s)) \in Stacks
  BY Foremost, DueType
<1>2. Due(s) = <<Head(s)>> \o Due(Tail(s))
  BY <1>1, Foremost, DueOne
<1> DEFINE d == Due(Tail(s))
           x == Head(s)
<1> HIDE DEF d, x
<1>3. <<x>> \o d # <<>> /\ Head(<<x>> \o d) = x /\ Tail(<<x>> \o d) = d
  BY <1>1 DEF d, x, Stacks
<1> QED BY <1>2, <1>3 DEF d, x

(* Opening the record in front changes nothing in what is due. *)
LEMMA DueOpened ==
  ASSUME NEW s \in Stacks
  PROVE  Opened(s) \in Stacks /\ Due(Opened(s)) = Due(s)
<1>1. CASE s # <<>> /\ Head(s).kind = "record"
  <2>1. Opened(s) = Head(s).body \o Tail(s)
    BY <1>1 DEF Opened
  <2>2. Head(s) \in Parts /\ Tail(s) \in Stacks /\ Head(s).body \in Stacks
    BY <1>1, Foremost, InsideType DEF Inside
  <2>3. Due(Opened(s)) = Due(Head(s).body) \o Due(Tail(s))
    BY <2>1, <2>2, DueConcat
  <2>4. Due(s) = Due(Head(s).body) \o Due(Tail(s))
    BY <1>1, <2>2, Foremost, DueOne
  <2> QED BY <2>1, <2>2, <2>3, <2>4, Algebra
<1>2. CASE ~(s # <<>> /\ Head(s).kind = "record")
  BY <1>2 DEF Opened
<1> QED BY <1>1, <1>2

(* A call that fits finds its type in front of what is due, and leaves the *)
(* rest, behind the elements of an array.                                  *)
LEMMA Fitting ==
  ASSUME NEW s \in Stacks, NEW kind, type # Untyped, Fits(s, kind), kind # "record"
  PROVE  /\ Due(s) # <<>> /\ Head(Due(s)) = Head(Opened(s)) /\ Head(Due(s)).kind = kind
         /\ Head(Due(s)) \in Parts
         /\ Popped(s) \in Stacks /\ Due(Popped(s)) = Tail(Due(s))
         /\ kind = "array" => \A n \in Nat :
              /\ Grown(s, n) \in Stacks
              /\ Due(Grown(s, n)) = Due([i \in 1..n |-> Head(Due(s)).base]) \o Tail(Due(s))
<1> DEFINE o == Opened(s)
           x == Head(o)
<1>1. o \in Stacks /\ Due(o) = Due(s)
  BY DueOpened
<1>2. o # <<>> /\ x.kind = kind
  BY DEF Fits
<1>3. Popped(s) = Tail(o)
  BY DEF Popped
<1> HIDE DEF o
<1>4. Due(s) # <<>> /\ Head(Due(s)) = x /\ Tail(Due(s)) = Due(Tail(o))
  BY <1>1, <1>2, DueFront
<1>5. x \in Parts /\ Tail(o) \in Stacks
  BY <1>1, <1>2, Foremost
<1>6. ASSUME kind = "array", NEW n \in Nat
      PROVE  /\ Grown(s, n) \in Stacks
             /\ Due(Grown(s, n)) = Due([i \in 1..n |-> Head(Due(s)).base]) \o Tail(Due(s))
  <2> DEFINE e == [i \in 1..n |-> x.base]
  <2>1. Grown(s, n) = e \o Tail(o)
    BY DEF Grown, o
  <2>2. x.base \in Parts
    BY <1>2, <1>5, <1>6, CodecAssumption
  <2>3. e \in Stacks
    BY <2>2 DEF Stacks
  <2>4. Due(e \o Tail(o)) = Due(e) \o Due(Tail(o))
    BY <1>5, <2>3, DueConcat
  <2>5. e \o Tail(o) \in Stacks
    BY <1>5, <2>3, Algebra
  <2>6. e = [i \in 1..n |-> Head(Due(s)).base]
    BY <1>4
  <2> HIDE DEF e
  <2> QED BY <1>4, <2>1, <2>4, <2>5, <2>6
<1> QED BY <1>2, <1>3, <1>4, <1>5, <1>6 DEF o

----------------------------------------------------------------------------
(* The steps that change nothing in what is due. *)
LEMMA RefusalKeeps ==
  ASSUME IInv, NEW w, NEW v, w \in {wstack, Opened(wstack)}, v \in {rstack, Opened(rstack)},
         wstack' = w, rstack' = v, mode' = mode, UNCHANGED <<type, out, pos, lost, spoilt>>
  PROVE  IInv' /\ Due(wstack') = Due(wstack) /\ Due(rstack') = Due(rstack)
<1>1. wstack' \in Stacks /\ Due(wstack') = Due(wstack) /\ rstack' \in Stacks /\ Due(rstack') = Due(rstack)
  BY DueOpened DEF IInv, Typed
<1>2. type = Untyped => wstack' = wstack /\ rstack' = rstack
  BY DEF IInv, Typed, TypeOK, Opened
<1>3. Typed'
  BY <1>1, <1>2 DEF IInv, Typed, TypeOK
<1>4. InTurn'
  BY <1>1 DEF IInv, InTurn
<1>5. Matched'
  <2>1. \A st : Matches(st) => Matches(st)'
    BY <1>1 DEF Matches
  <2> QED BY <2>1 DEF IInv, Matched
<1> QED BY <1>1, <1>3, <1>4, <1>5 DEF IInv

(* An item that is written is one that takes what was due to what is due.  *)
LEMMA WrittenKeeps ==
  ASSUME IInv, mode \in {"write", "csv"}, Len(out) < MaxCalls, NEW item \in Items,
         out' = Append(out, item), wstack' \in Stacks, type = Untyped => wstack' = wstack,
         type # Untyped => Takes(Due(wstack), item, Due(wstack')),
         type # Untyped /\ mode = "write" => Sized(Due(wstack), item),
         UNCHANGED <<type, mode, rvars, spoilt>>
  PROVE  IInv'
<1>1. out \in Seq(Items) /\ Len(out) \in Nat /\ MaxCalls \in Nat
  BY CodecAssumption DEF IInv, Typed, TypeOK
<1>2. /\ out' \in Seq(Items) /\ Len(out') = Len(out) + 1
      /\ out'[Len(out) + 1] = item /\ \A i \in 1..Len(out) : out'[i] = out[i]
  BY <1>1
<1>3. Typed'
  BY <1>1, <1>2 DEF IInv, Typed, TypeOK, rvars
<1>4. InTurn'
  BY DEF IInv, InTurn, rvars
<1>5. ASSUME type # Untyped, ~spoilt, ~lost PROVE \E st : Matches(st)'
  <2>1. PICK st : Matches(st)
    BY <1>5 DEF IInv, Matched
  <2> DEFINE n == Len(out)
  <2>2. pos \in 0..n /\ n \in Nat /\ pos' = pos /\ rstack' = rstack
    BY <1>1 DEF IInv, Typed, TypeOK, rvars
  <2>3. PICK tt : (\A i \in 0..n : tt[i] = st[i]) /\ tt[n + 1] = Due(wstack')
    <3> DEFINE f == [i \in 0..(n + 1) |-> IF i <= n THEN st[i] ELSE Due(wstack')]
    <3>1. (\A i \in 0..n : f[i] = st[i]) /\ f[n + 1] = Due(wstack')
      BY <2>2
    <3> HIDE DEF f
    <3> QED BY <3>1
  <2>4. \A i \in pos..(n + 1) : tt[i] \in Stacks
    <3> SUFFICES ASSUME NEW i \in pos..(n + 1) PROVE tt[i] \in Stacks
      OBVIOUS
    <3>1. CASE i = n + 1
      BY <2>3, <3>1, DueType
    <3>2. CASE i # n + 1
      <4>1. i \in pos..n /\ i \in 0..n
        BY <2>2, <3>2
      <4> QED BY <2>1, <2>3, <4>1 DEF Matches
    <3> QED BY <3>1, <3>2
  <2>5. tt[pos] = Due(rstack)
    BY <2>1, <2>2, <2>3 DEF Matches
  <2>6. ASSUME NEW i \in pos..n
        PROVE  /\ Takes(tt[i], out'[i + 1], tt[i + 1])
               /\ mode \in {"write", "read"} => Sized(tt[i], out'[i + 1])
    <3>1. CASE i = n
      <4>1. tt[n] = Due(wstack) /\ tt[n + 1] = Due(wstack') /\ out'[n + 1] = item
        BY <1>2, <2>1, <2>2, <2>3 DEF Matches
      <4> QED BY <1>5, <3>1, <4>1
    <3>2. CASE i # n
      <4>1. i \in pos..(n - 1) /\ i \in 0..n /\ i + 1 \in 0..n /\ i + 1 \in 1..n
        BY <2>2, <3>2
      <4>2. Takes(st[i], out[i + 1], st[i + 1]) /\ (mode \in {"write", "read"} => Sized(st[i], out[i + 1]))
        BY <2>1, <4>1 DEF Matches
      <4> QED BY <1>2, <2>3, <4>1, <4>2
    <3> QED BY <3>1, <3>2
  <2>7. Len(out') = n + 1 /\ (n + 1) - 1 = n
    BY <1>2, <2>2
  <2>8. Matches(tt)'
    BY <2>2, <2>3, <2>4, <2>5, <2>6, <2>7 DEF Matches
  <2> QED BY <2>8
<1>6. Matched'
  BY <1>5 DEF Matched, rvars
<1> QED BY <1>3, <1>4, <1>6 DEF IInv

(* An item that is asked for is there and leaves what is due after it, or  *)
(* the reader is lost; readData is not, if the value is whole.             *)
LEMMA TakenKeeps ==
  ASSUME IInv, mode \in {"read", "dump"}, NEW kind, Take(kind),
         rstack' \in Stacks, type = Untyped => rstack' = rstack,
         type # Untyped => Due(rstack) # <<>> /\ Head(Due(rstack)).kind = kind,
         type # Untyped /\ Present(kind) /\ ~spoilt' =>
           \A e : Takes(Due(rstack), out[pos + 1], e) => Due(rstack') = e,
         spoilt' \in BOOLEAN, spoilt => spoilt', UNCHANGED <<type, mode, wvars>>
  PROVE  IInv'
<1>1. pos \in 0..Len(out) /\ Len(out) \in Nat /\ lost \in BOOLEAN /\ wstack' = wstack /\ out' = out
  BY DEF IInv, Typed, TypeOK, wvars
<1>2. CASE Present(kind)
  <2>1. pos' = pos + 1 /\ lost' = lost /\ ~lost /\ pos < Len(out)
    BY <1>2 DEF Take, Present
  <2>2. Typed'
    BY <1>1, <2>1 DEF IInv, Typed, TypeOK
  <2>3. InTurn'
    BY <1>1, <2>1 DEF IInv, InTurn
  <2>4. ASSUME type # Untyped, ~spoilt' PROVE \E st : Matches(st)'
    <3>1. PICK st : Matches(st)
      BY <2>1, <2>4 DEF IInv, Matched
    <3>2. Takes(Due(rstack), out[pos + 1], st[pos + 1])
      BY <1>1, <2>1, <3>1 DEF Matches
    <3>3. st[pos + 1] = Due(rstack')
      BY <1>2, <2>4, <3>2
    <3>4. \A i \in (pos + 1)..Len(out) : i \in pos..Len(out)
      BY <1>1
    <3>5. \A i \in (pos + 1)..(Len(out) - 1) : i \in pos..(Len(out) - 1)
      BY <1>1
    <3>6. Matches(st)'
      BY <1>1, <2>1, <3>1, <3>3, <3>4, <3>5 DEF Matches
    <3> QED BY <3>6
  <2>5. Matched'
    BY <2>4 DEF Matched
  <2> QED BY <2>2, <2>3, <2>5 DEF IInv
<1>3. CASE ~Present(kind)
  <2>1. lost' = TRUE /\ pos' = pos
    BY <1>3 DEF Take
  <2>2. Typed'
    BY <1>1, <2>1 DEF IInv, Typed, TypeOK
  <2>3. ASSUME mode = "dump", ~spoilt, Due(wstack) = <<>> PROVE FALSE
    <3>1. type # Untyped /\ ~lost
      BY <2>3 DEF IInv, InTurn
    <3>2. PICK st : Matches(st)
      BY <2>3, <3>1 DEF IInv, Matched
    <3>3. CASE pos < Len(out)
      <4>1. Takes(Due(rstack), out[pos + 1], st[pos + 1])
        BY <1>1, <3>2, <3>3 DEF Matches
      <4> QED BY <1>3, <3>1, <3>3, <4>1 DEF Takes, Present
    <3>4. CASE pos = Len(out)
      BY <2>3, <3>1, <3>2, <3>4 DEF Matches
    <3> QED BY <1>1, <3>3, <3>4
  <2>4. InTurn'
    BY <1>1, <2>1, <2>3 DEF IInv, InTurn
  <2>5. Matched'
    BY <2>1 DEF Matched
  <2> QED BY <2>2, <2>4, <2>5 DEF IInv
<1> QED BY <1>2, <1>3

----------------------------------------------------------------------------
LEMMA Initially == CsvInit => IInv
<1> SUFFICES ASSUME CsvInit PROVE IInv
  OBVIOUS
<1>1. /\ type \in Types \cup {Untyped} /\ mode \in {"write", "csv"} /\ (mode = "csv" => type # Untyped)
      /\ out = <<>> /\ pos = 0 /\ ~lost /\ ~spoilt /\ lost = FALSE /\ spoilt = FALSE
      /\ rstack = wstack /\ (type = Untyped => wstack = <<>>) /\ (type # Untyped => wstack = <<type>>)
  BY CodecAssumption DEF CsvInit, RowInit, Init
<1>2. wstack \in Stacks
  BY <1>1, CodecAssumption, Algebra
<1>3. out \in Seq(Items) /\ Len(out) = 0
  BY <1>1
<1>4. Typed
  <2>1. MaxCalls \in Nat
    BY CodecAssumption
  <2>2. Len(out) <= MaxCalls /\ 0 \in 0..Len(out)
    BY <1>3, <2>1
  <2>3. pos \in 0..Len(out)
    BY <1>1, <2>2
  <2>4. rstack \in Stacks /\ (type = Untyped => wstack = <<>> /\ rstack = <<>>)
    BY <1>1, <1>2
  <2>5. TypeOK
    BY <1>1, <1>3, <2>2, <2>3, <2>4, Zenon DEF TypeOK
  <2> QED BY <1>1, <1>2, <2>4, <2>5 DEF Typed
<1>5. InTurn
  BY <1>1 DEF InTurn
<1>6. Matched
  <2> DEFINE st == [i \in 0..0 |-> Due(rstack)]
  <2>1. Due(rstack) \in Stacks
    BY <1>1, <1>2, DueType
  <2>2. Matches(st)
    BY <1>1, <1>3, <2>1 DEF Matches
  <2> HIDE DEF st
  <2> QED BY <2>2 DEF Matched
<1> QED BY <1>4, <1>5, <1>6 DEF IInv

LEMMA Kinds ==
  ASSUME NEW kind \in Scalars
  PROVE  kind # "array" /\ kind # "record" /\ Item(kind) \in Items /\ Item(kind).kind = kind
BY CodecAssumption DEF Items, Item

(* A call that fits takes the front of what is due. *)
LEMMA WriteTakes ==
  ASSUME IInv, type # Untyped, NEW kind \in Scalars, Write(kind)
  PROVE  /\ wstack' \in Stacks /\ Takes(Due(wstack), Item(kind), Due(wstack'))
         /\ Sized(Due(wstack), Item(kind))
<1>1. wstack \in Stacks /\ wstack' = Popped(wstack) /\ Fits(wstack, kind)
  BY DEF IInv, Typed, Write
<1>2. Sized(Due(wstack), Item(kind))
  BY Kinds DEF Sized
<1> QED BY <1>1, <1>2, Fitting, Kinds DEF Takes

LEMMA SizeTakes ==
  ASSUME IInv, type # Untyped, NEW n \in 0..MaxSize, WriteSize(n)
  PROVE  /\ wstack' \in Stacks /\ Takes(Due(wstack), SizeItem(n), Due(wstack'))
         /\ Sized(Due(wstack), SizeItem(n))
<1>1. /\ wstack \in Stacks /\ wstack' = Grown(wstack, n)
      /\ Fits(wstack, "array") /\ Head(Opened(wstack)).size \in {0, n}
  BY DEF IInv, Typed, WriteSize, SizeFits
<1>2. SizeItem(n).kind = "array" /\ SizeItem(n).size = n /\ n \in Nat
  BY CodecAssumption DEF SizeItem
<1>3. /\ Due(wstack) # <<>> /\ Head(Due(wstack)).kind = "array"
      /\ Head(Due(wstack)).size \in {0, n}
      /\ wstack' \in Stacks
      /\ Due(wstack') = Due([i \in 1..n |-> Head(Due(wstack)).base]) \o Tail(Due(wstack))
  BY <1>1, <1>2, Fitting
<1> QED BY <1>2, <1>3 DEF Takes, Sized

(* The writer, the readers, readData and readCsv keep the invariant. *)
LEMMA WritesKeep == IInv /\ Writes => IInv'
<1> SUFFICES ASSUME IInv, Writes PROVE IInv'
  OBVIOUS
<1>0. wstack \in Stacks
  BY DEF IInv, Typed
<1>1. ASSUME NEW kind \in Scalars, Write(kind) PROVE IInv'
  <2>1. /\ mode = "write" /\ Len(out) < MaxCalls /\ out' = Append(out, Item(kind))
        /\ wstack' = Popped(wstack) /\ UNCHANGED <<type, mode, rvars, spoilt>>
    BY <1>1 DEF Write
  <2>2. type = Untyped => wstack' = wstack
    BY <2>1 DEF Popped
  <2>3. type # Untyped => /\ wstack' \in Stacks /\ Takes(Due(wstack), Item(kind), Due(wstack'))
                          /\ Sized(Due(wstack), Item(kind))
    BY <1>1, WriteTakes
  <2>4. wstack' \in Stacks
    BY <1>0, <2>2, <2>3
  <2> QED BY <2>1, <2>2, <2>3, <2>4, Kinds, WrittenKeeps
<1>2. ASSUME NEW n \in 0..MaxSize, WriteSize(n) PROVE IInv'
  <2>1. /\ mode = "write" /\ Len(out) < MaxCalls /\ out' = Append(out, SizeItem(n))
        /\ wstack' = Grown(wstack, n) /\ UNCHANGED <<type, mode, rvars, spoilt>>
        /\ SizeItem(n) \in Items
    BY <1>2 DEF WriteSize, Items
  <2>2. type = Untyped => wstack' = wstack
    BY <2>1 DEF Grown
  <2>3. type # Untyped => /\ wstack' \in Stacks /\ Takes(Due(wstack), SizeItem(n), Due(wstack'))
                          /\ Sized(Due(wstack), SizeItem(n))
    BY <1>2, SizeTakes
  <2>4. wstack' \in Stacks
    BY <1>0, <2>2, <2>3
  <2> QED BY <2>1, <2>2, <2>3, <2>4, WrittenKeeps
<1>3. ASSUME NEW kind, RefuseWrite(kind) PROVE IInv'
  BY <1>3, RefusalKeeps DEF RefuseWrite, rvars
<1>4. ASSUME NEW n \in 0..MaxSize, RefuseSize(n) PROVE IInv'
  <2>1. /\ mode = "write" /\ Fits(wstack, "array") /\ wstack' = Popped(wstack) /\ spoilt' = TRUE
        /\ UNCHANGED <<type, mode, out, rvars>> /\ type # Untyped
    BY <1>4 DEF RefuseSize, SizeFits
  <2>2. wstack' \in Stacks
    BY <1>0, <2>1, Fitting
  <2>3. Typed'
    BY <2>1, <2>2 DEF IInv, Typed, TypeOK, rvars
  <2> QED BY <2>1, <2>3 DEF IInv, InTurn, Matched, rvars
<1> QED BY <1>1, <1>2, <1>3, <1>4 DEF Writes

LEMMA BuildKeeps == IInv /\ Build => IInv'
<1> SUFFICES ASSUME IInv, Build PROVE IInv'
  OBVIOUS
<1>1. /\ mode = "write" /\ mode' \in {"read", "dump"} /\ (mode' = "dump" => type # Untyped)
      /\ UNCHANGED <<type, wstack, out, rstack, pos, lost, spoilt>>
  BY DEF Build, wvars, rvars
<1>2. Typed'
  BY <1>1 DEF IInv, Typed, TypeOK
<1>3. InTurn'
  BY <1>1 DEF IInv, InTurn
<1>4. Matched'
  <2>1. \A st : Matches(st) => Matches(st)'
    BY <1>1 DEF Matches
  <2> QED BY <1>1, <2>1 DEF IInv, Matched
<1> QED BY <1>2, <1>3, <1>4 DEF IInv

LEMMA ReadsKeep == IInv /\ Reads => IInv'
<1> SUFFICES ASSUME IInv, Reads PROVE IInv'
  OBVIOUS
<1>0. rstack \in Stacks /\ spoilt \in BOOLEAN
  BY DEF IInv, Typed, TypeOK
<1>1. ASSUME NEW kind \in Scalars, Read(kind) PROVE IInv'
  <2>1. /\ mode = "read" /\ Take(kind) /\ Fits(rstack, kind) /\ rstack' = Popped(rstack)
        /\ UNCHANGED <<type, mode, wvars, spoilt>>
    BY <1>1 DEF Read
  <2>2. type = Untyped => rstack' = rstack
    BY <2>1 DEF Popped
  <2>3. ASSUME type # Untyped
        PROVE  /\ rstack' \in Stacks /\ Due(rstack) # <<>> /\ Head(Due(rstack)).kind = kind
               /\ Due(rstack') = Tail(Due(rstack))
    BY <1>0, <2>1, <2>3, Fitting, Kinds
  <2>4. ASSUME type # Untyped, Present(kind), NEW e, Takes(Due(rstack), out[pos + 1], e)
        PROVE  Due(rstack') = e
    BY <2>3, <2>4, Kinds DEF Takes, Present
  <2>5. rstack' \in Stacks
    BY <1>0, <2>2, <2>3
  <2> QED BY <1>0, <2>1, <2>2, <2>3, <2>4, <2>5, TakenKeeps
<1>2. ASSUME NEW n \in 0..MaxSize, ReadSize(n) PROVE IInv'
  <2>1. /\ mode = "read" /\ Take("array") /\ (Present("array") => n = out[pos + 1].size)
        /\ Fits(rstack, "array") /\ UNCHANGED <<type, mode, wvars>> /\ n \in Nat
    BY <1>2 DEF ReadSize, TakeSize
  <2>2. \/ rstack' = Grown(rstack, n) /\ spoilt' = spoilt
        \/ rstack' = Popped(rstack) /\ spoilt' = TRUE
    BY <1>2 DEF ReadSize
  <2>3. type = Untyped => rstack' = rstack
    BY <2>2 DEF Popped, Grown
  <2>4. ASSUME type # Untyped
        PROVE  /\ rstack' \in Stacks /\ Due(rstack) # <<>> /\ Head(Due(rstack)).kind = "array"
               /\ ~spoilt' => Due(rstack') = Due([i \in 1..n |-> Head(Due(rstack)).base]) \o Tail(Due(rstack))
    BY <1>0, <2>1, <2>2, <2>4, Fitting
  <2>5. ASSUME type # Untyped, Present("array"), ~spoilt', NEW e, Takes(Due(rstack), out[pos + 1], e)
        PROVE  Due(rstack') = e
    BY <2>1, <2>4, <2>5 DEF Takes, Present
  <2>6. rstack' \in Stacks
    BY <1>0, <2>3, <2>4
  <2>7. spoilt' \in BOOLEAN /\ (spoilt => spoilt')
    BY <1>0, <2>2
  <2> QED BY <1>0, <2>1, <2>3, <2>4, <2>5, <2>6, <2>7, TakenKeeps
<1>3. ASSUME NEW kind, RefuseRead(kind) PROVE IInv'
  BY <1>3, RefusalKeeps DEF RefuseRead, wvars
<1> QED BY <1>1, <1>2, <1>3 DEF Reads

LEMMA ReadDataKeeps == IInv /\ readData => IInv'
<1> SUFFICES ASSUME IInv, readData PROVE IInv'
  OBVIOUS
<1>0. rstack \in Stacks /\ spoilt \in BOOLEAN /\ (mode = "dump" => type # Untyped)
  BY DEF IInv, Typed, TypeOK, InTurn
<1>1. CASE Open
  BY <1>1, RefusalKeeps DEF Open, wvars
<1>2. CASE Dump
  <2> DEFINE kind == Head(rstack).kind
  <2>1. /\ mode = "dump" /\ rstack # <<>> /\ kind \in Scalars /\ Take(kind) /\ rstack' = Tail(rstack)
        /\ UNCHANGED <<type, mode, wvars, spoilt>>
    BY <1>2 DEF Dump
  <2>2. kind # "array" /\ kind # "record"
    BY <2>1, Kinds
  <2>3. /\ rstack' \in Stacks /\ Due(rstack) # <<>> /\ Head(Due(rstack)).kind = kind
        /\ Due(rstack') = Tail(Due(rstack))
    BY <1>0, <2>1, <2>2, Foremost, DueFront
  <2>4. ASSUME Present(kind), NEW e, Takes(Due(rstack), out[pos + 1], e)
        PROVE  Due(rstack') = e
    BY <2>2, <2>3, <2>4 DEF Takes, Present
  <2> QED BY <1>0, <2>1, <2>3, <2>4, TakenKeeps
<1>3. ASSUME NEW n \in 0..MaxSize, DumpSize(n) PROVE IInv'
  <2>1. /\ mode = "dump" /\ rstack # <<>> /\ Head(rstack).kind = "array" /\ Take("array")
        /\ (Present("array") => n = out[pos + 1].size) /\ rstack' = Grown(rstack, n)
        /\ UNCHANGED <<type, mode, wvars, spoilt>> /\ n \in Nat
    BY <1>3 DEF DumpSize, TakeSize
  <2>2. Fits(rstack, "array")
    BY <2>1 DEF Fits, Opened
  <2>3. /\ rstack' \in Stacks /\ Due(rstack) # <<>> /\ Head(Due(rstack)).kind = "array"
        /\ Due(rstack') = Due([i \in 1..n |-> Head(Due(rstack)).base]) \o Tail(Due(rstack))
    BY <1>0, <2>1, <2>2, Fitting
  <2>4. ASSUME Present("array"), NEW e, Takes(Due(rstack), out[pos + 1], e)
        PROVE  Due(rstack') = e
    BY <2>1, <2>3, <2>4 DEF Takes, Present
  <2> QED BY <1>0, <2>1, <2>3, <2>4, TakenKeeps
<1> QED BY <1>1, <1>2, <1>3 DEF readData

LEMMA RowsKeep == IInv /\ readCsv => IInv'
<1> SUFFICES ASSUME IInv, readCsv PROVE IInv'
  OBVIOUS
<1>0. wstack \in Stacks /\ (mode = "csv" => type # Untyped)
  BY DEF IInv, Typed, InTurn
<1>1. CASE Cell
  <2> DEFINE kind == Turn.kind
  <2>1. /\ mode = "csv" /\ wstack # <<>> /\ kind \in Scalars /\ wstack' = Tail(wstack)
        /\ Len(out) < MaxCalls /\ out' = Append(out, Item(kind)) /\ UNCHANGED <<type, mode, rvars, spoilt>>
    BY <1>1 DEF Cell, GetCell
  <2>2. Head(wstack).kind = kind
    BY DEF Turn
  <2> HIDE DEF kind
  <2>3. wstack' \in Stacks /\ Takes(Due(wstack), Item(kind), Due(wstack'))
    BY <1>0, <2>1, <2>2, Foremost, DueFront, Kinds DEF Takes
  <2> QED BY <1>0, <2>1, <2>3, Kinds, WrittenKeeps
<1>2. CASE OpenRecord
  BY <1>2, RefusalKeeps DEF OpenRecord, rvars
<1>3. ASSUME NEW n \in 0..MaxSize, CellSize(n) PROVE IInv'
  <2>1. /\ mode = "csv" /\ wstack # <<>> /\ Head(wstack).kind = "array"
        /\ wstack' = [i \in 1..n |-> Head(wstack).base] \o Tail(wstack)
        /\ Len(out) < MaxCalls /\ out' = Append(out, SizeItem(n)) /\ UNCHANGED <<type, mode, rvars, spoilt>>
    BY <1>3 DEF CellSize, GetCell, Turn
  <2>2. SizeItem(n) \in Items /\ SizeItem(n).kind = "array" /\ SizeItem(n).size = n /\ n \in Nat
    BY CodecAssumption DEF Items, SizeItem
  <2>3. Fits(wstack, "array") /\ wstack' = Grown(wstack, n)
    BY <1>0, <2>1 DEF Fits, Opened, Grown
  <2>4. wstack' \in Stacks /\ Takes(Due(wstack), SizeItem(n), Due(wstack'))
    BY <1>0, <2>1, <2>2, <2>3, Fitting DEF Takes
  <2> QED BY <1>0, <2>1, <2>2, <2>4, WrittenKeeps
<1>4. ASSUME NoCell \/ EndRow PROVE IInv'
  <2>1. /\ mode = "csv" /\ mode' \in {"failed", "dump"}
        /\ UNCHANGED <<type, wstack, out, rstack, pos, lost, spoilt>>
    BY <1>4 DEF NoCell, EndRow, wvars, rvars
  <2>2. Typed'
    BY <2>1 DEF IInv, Typed, TypeOK
  <2>3. InTurn'
    BY <2>1 DEF IInv, InTurn
  <2>4. Matched'
    <3>1. \A st : Matches(st) => Matches(st)'
      BY <2>1 DEF Matches
    <3> QED BY <2>1, <3>1 DEF IInv, Matched
  <2> QED BY <2>2, <2>3, <2>4 DEF IInv
<1> QED BY <1>1, <1>2, <1>3, <1>4 DEF readCsv

LEMMA Keeps == IInv /\ [CsvNext]_allvars => IInv'
<1> SUFFICES ASSUME IInv, [CsvNext]_allvars PROVE IInv'
  OBVIOUS
<1>1. CASE Next
  BY <1>1, WritesKeep, BuildKeeps, ReadsKeep, ReadDataKeeps DEF Next
<1>2. CASE readCsv
  BY <1>2, RowsKeep
<1>3. CASE UNCHANGED allvars
  BY <1>3, RefusalKeeps DEF allvars, vars
<1> QED BY <1>1, <1>2, <1>3 DEF CsvNext

LEMMA Invariance == CsvSpec => []IInv
BY Initially, Keeps, PTL DEF CsvSpec

----------------------------------------------------------------------------
(* A reader, or writer, that makes a call that fits what is due is refused *)
(* only behind a record that opens with a record or has no members, where  *)
(* pop_type looks too early.                                               *)
THEOREM RefusalsDeserved == CsvSpec => []RefusedOnlyWrong
<1> SUFFICES ASSUME IInv PROVE RefusedOnlyWrong
  BY Invariance, PTL
<1>1. TypeOK /\ wstack \in Stacks /\ rstack \in Stacks
  BY DEF IInv, Typed
<1>2. ASSUME NEW s \in Stacks, type # Untyped, Due(s) # <<>>, ~Fits(s, Head(Due(s)).kind)
      PROVE  Awkward(s)
  <2>1. s # <<>>
    BY <1>2, DueOne
  <2>2. ASSUME NEW r \in Stacks, r = Opened(s), r # <<>>, Head(r).kind # "record" PROVE FALSE
    <3>1. Due(r) = Due(s)
      BY <2>2, DueOpened
    <3>2. Head(Due(s)) = Head(r)
      BY <2>2, <3>1, DueFront
    <3> QED BY <1>2, <2>2, <3>2 DEF Fits
  <2>3. Head(s).kind = "record"
    BY <2>1, <2>2 DEF Opened
  <2> DEFINE body == Head(s).body
             rest == Tail(s)
  <2>4. body \in Stacks /\ rest \in Stacks /\ Opened(s) = body \o rest
    BY <2>1, <2>3, Foremost, InsideType DEF Inside, Opened
  <2>5. Opened(s) \in Stacks
    BY DueOpened
  <2>6. ASSUME body # <<>> PROVE Head(body).kind = "record"
    <3>1. body \o rest # <<>> /\ Head(body \o rest) = Head(body)
      BY <2>4, <2>6 DEF Stacks
    <3> QED BY <2>2, <2>4, <2>5, <3>1
  <2>7. ASSUME body = <<>> PROVE Len(s) > 1 /\ s[2].kind = "record"
    <3>1. Opened(s) = rest
      BY <2>4, <2>7, Algebra
    <3>2. rest # <<>>
      BY <1>2, <3>1, DueOpened, DueOne
    <3>3. Head(rest).kind = "record"
      BY <2>2, <2>4, <3>1, <3>2
    <3>4. Len(s) > 1 /\ s[2] = Head(rest)
      BY <2>1, <3>2 DEF Stacks
    <3> QED BY <3>3, <3>4
  <2> QED BY <2>3, <2>6, <2>7 DEF Awkward
<1> QED BY <1>1, <1>2 DEF RefusedOnlyWrong

(* A call that throws changes nothing for the calls that fit, unless the   *)
(* size of an array was wrong: the caller may catch the exception and go   *)
(* on.                                                                     *)
THEOREM RefusalsHarmless == CsvSpec => RefusalHarmless
<1>1. IInv /\ [CsvNext]_allvars =>
        [out' = out /\ pos' = pos /\ ~spoilt' /\ ~lost'
           => Due(wstack') = Due(wstack) /\ Due(rstack') = Due(rstack)]_vars
  <2> SUFFICES ASSUME IInv, CsvNext, out' = out, pos' = pos, ~spoilt', ~lost'
               PROVE  Due(wstack') = Due(wstack) /\ Due(rstack') = Due(rstack)
    BY DEF vars, allvars
  <2>0. out \in Seq(Items) /\ pos \in Nat /\ wstack \in Stacks /\ rstack \in Stacks
    BY DEF IInv, Typed, TypeOK
  <2>1. \A item \in Items : Append(out, item) # out
    BY <2>0
  <2>2. \A kind : ~Take(kind)
    BY <2>0 DEF Take
  <2>3. ASSUME NEW kind \in Scalars PROVE ~Write(kind) /\ ~Read(kind)
    BY <2>1, <2>2, Kinds DEF Write, Read
  <2>4. ASSUME NEW n \in 0..MaxSize PROVE ~WriteSize(n) /\ ~RefuseSize(n) /\ ~ReadSize(n) /\ ~DumpSize(n)
    <3>1. SizeItem(n) \in Items
      BY DEF Items
    <3> QED BY <2>1, <2>2, <3>1 DEF WriteSize, RefuseSize, ReadSize, DumpSize, TakeSize
  <2>5. ~Dump
    BY <2>2 DEF Dump
  <2>6. ASSUME NEW kind, RefuseWrite(kind) \/ RefuseRead(kind) \/ Open \/ Build
        PROVE  Due(wstack') = Due(wstack) /\ Due(rstack') = Due(rstack)
    BY <2>0, <2>6, DueOpened DEF RefuseWrite, RefuseRead, Open, Build, wvars, rvars
  <2>7. ~Cell
    BY <2>1, Kinds DEF Cell, GetCell
  <2>8. ASSUME NEW n \in 0..MaxSize PROVE ~CellSize(n)
    <3>1. SizeItem(n) \in Items
      BY DEF Items
    <3> QED BY <2>1, <3>1 DEF CellSize, GetCell
  <2>9. ASSUME OpenRecord \/ NoCell \/ EndRow
        PROVE  Due(wstack') = Due(wstack) /\ Due(rstack') = Due(rstack)
    BY <2>0, <2>9, DueOpened DEF OpenRecord, NoCell, EndRow, wvars, rvars
  <2> QED BY <2>3, <2>4, <2>5, <2>6, <2>7, <2>8, <2>9 DEF CsvNext, readCsv, Next, Writes, Reads, readData
<1> QED BY <1>1, Invariance, PTL DEF CsvSpec, RefusalHarmless

(* A typed reader that makes the calls the writer made expects the next of *)
(* them, whatever records the types are wrapped in and whatever sizes the  *)
(* arrays have, and at the end expects what the writer had left.           *)
THEOREM ReaderFollows == CsvSpec => []Followed
<1> SUFFICES ASSUME IInv PROVE Followed
  BY Invariance, PTL
<1> SUFFICES ASSUME mode = "read", type # Untyped, ~spoilt, ~lost
             PROVE  IF pos < Len(out)
                    THEN Due(rstack) # <<>> /\ Head(Due(rstack)).kind = out[pos + 1].kind
                    ELSE Due(rstack) = Due(wstack)
  BY DEF Followed
<1>1. pos \in 0..Len(out) /\ Len(out) \in Nat
  BY DEF IInv, Typed, TypeOK
<1>2. PICK st : Matches(st)
  BY DEF IInv, Matched
<1>3. ASSUME pos < Len(out) PROVE Due(rstack) # <<>> /\ Head(Due(rstack)).kind = out[pos + 1].kind
  <2>1. Takes(st[pos], out[pos + 1], st[pos + 1]) /\ st[pos] = Due(rstack)
    BY <1>1, <1>2, <1>3 DEF Matches
  <2> QED BY <2>1 DEF Takes
<1>4. ASSUME ~(pos < Len(out)) PROVE Due(rstack) = Due(wstack)
  <2>1. pos = Len(out)
    BY <1>1, <1>4
  <2> QED BY <1>2, <2>1 DEF Matches
<1> QED BY <1>3, <1>4

(* readData finds every item of a value that was written to its end, and   *)
(* when it is done has read them all.                                      *)
THEOREM DumpsWhole == CsvSpec => []DumpedWhole
<1> SUFFICES ASSUME IInv PROVE DumpedWhole
  BY Invariance, PTL
<1> SUFFICES ASSUME mode = "dump", ~spoilt, Due(wstack) = <<>>
             PROVE  ~lost /\ (rstack = <<>> => pos = Len(out))
  BY DEF DumpedWhole
<1>1. pos \in 0..Len(out) /\ Len(out) \in Nat
  BY DEF IInv, Typed, TypeOK
<1>2. ~lost /\ type # Untyped
  BY DEF IInv, InTurn
<1>3. PICK st : Matches(st)
  BY <1>2 DEF IInv, Matched
<1>4. ASSUME rstack = <<>>, pos < Len(out) PROVE FALSE
  <2>1. Takes(st[pos], out[pos + 1], st[pos + 1]) /\ st[pos] = Due(rstack)
    BY <1>1, <1>3, <1>4 DEF Matches
  <2> QED BY <1>4, <2>1, DueOne DEF Takes
<1> QED BY <1>1, <1>2, <1>4

(* The types protect a reader: as long as there is something to read, it   *)
(* may make any call, and is refused rather than given an item as what it  *)
(* is not; a size it is given is never found to be wrong.                  *)
THEOREM NeverMisread ==
  CsvSpec => [][mode # "write" /\ type # Untyped /\ ~spoilt /\ ~lost /\ pos < Len(out)
               => ~lost' /\ ~spoilt']_vars
<1>1. ASSUME IInv, CsvNext, mode # "write", type # Untyped, ~spoilt, ~lost, pos < Len(out)
      PROVE  ~lost' /\ ~spoilt'
  <2>0. /\ pos \in 0..Len(out) /\ Len(out) \in Nat /\ rstack \in Stacks
    BY <1>1 DEF IInv, Typed, TypeOK
  <2>1. PICK st : Matches(st)
    BY <1>1 DEF IInv, Matched
  <2> DEFINE d    == Due(rstack)
             item == out[pos + 1]
  <2>2. /\ d # <<>> /\ Head(d).kind = item.kind
        /\ mode = "read" /\ item.kind = "array" => Head(d).size \in {0, item.size}
    <3>1. /\ Takes(st[pos], out[pos + 1], st[pos + 1]) /\ st[pos] = Due(rstack)
          /\ mode = "read" => Sized(st[pos], out[pos + 1])
      BY <1>1, <2>0, <2>1 DEF Matches
    <3> QED BY <3>1 DEF Takes, Sized
  <2> HIDE DEF d, item
  <2>3. ASSUME NEW kind, Take(kind), Head(d).kind = kind PROVE ~lost'
    <3>1. Present(kind)
      BY <1>1, <2>2, <2>3 DEF Present, item
    <3> QED BY <1>1, <2>3, <3>1 DEF Take
  <2>4. ASSUME NEW kind, kind # "record", Fits(rstack, kind)
        PROVE  Head(d).kind = kind /\ Head(d) = Head(Opened(rstack))
    BY <1>1, <2>0, <2>4, Fitting DEF d
  <2>5. ASSUME NEW kind \in Scalars, Read(kind) PROVE ~lost' /\ ~spoilt'
    BY <1>1, <2>3, <2>4, <2>5, Kinds DEF Read
  <2>6. ASSUME NEW n \in 0..MaxSize, ReadSize(n) PROVE ~lost' /\ ~spoilt'
    <3>1. Head(d).kind = "array" /\ Head(d) = Head(Opened(rstack))
      BY <2>4, <2>6 DEF ReadSize
    <3>2. Take("array") /\ (Present("array") => n = out[pos + 1].size)
      BY <2>6 DEF ReadSize, TakeSize
    <3>3. Present("array")
      BY <1>1, <2>2, <3>1 DEF Present, item
    <3>4. SizeFits(rstack, n)
      BY <2>2, <2>6, <3>1, <3>2, <3>3 DEF SizeFits, ReadSize, item
    <3>5. spoilt' = spoilt
      BY <2>6, <3>4 DEF ReadSize
    <3> QED BY <1>1, <2>3, <3>1, <3>2, <3>5
  <2>7. ASSUME rstack # <<>>, Head(rstack).kind # "record" PROVE Head(d) = Head(rstack)
    BY <2>0, <2>7, DueFront DEF d
  <2>8. ASSUME Dump PROVE ~lost' /\ ~spoilt'
    <3>1. rstack # <<>> /\ Head(rstack).kind \in Scalars /\ Take(Head(rstack).kind) /\ spoilt' = spoilt
      BY <2>8 DEF Dump
    <3> QED BY <1>1, <2>3, <2>7, <3>1, Kinds
  <2>9. ASSUME NEW n \in 0..MaxSize, DumpSize(n) PROVE ~lost' /\ ~spoilt'
    <3>1. rstack # <<>> /\ Head(rstack).kind = "array" /\ Take("array") /\ spoilt' = spoilt
      BY <2>9 DEF DumpSize, TakeSize
    <3> QED BY <1>1, <2>3, <2>7, <3>1
  <2>10. ~Writes /\ ~Build
    BY <1>1 DEF Writes, Build, Write, RefuseWrite, WriteSize, RefuseSize
  <2>11. ASSUME NEW kind, RefuseRead(kind) \/ Open PROVE ~lost' /\ ~spoilt'
    BY <1>1, <2>11 DEF RefuseRead, Open
  <2>12. ASSUME readCsv PROVE ~lost' /\ ~spoilt'
    BY <1>1, <2>12 DEF readCsv, Cell, OpenRecord, CellSize, GetCell, NoCell, EndRow, rvars
  <2> QED BY <1>1, <2>5, <2>6, <2>8, <2>9, <2>10, <2>11, <2>12 DEF CsvNext, Next, Reads, readData
<1>2. IInv /\ [CsvNext]_allvars =>
        [mode # "write" /\ type # Untyped /\ ~spoilt /\ ~lost /\ pos < Len(out) => ~lost' /\ ~spoilt']_vars
  BY <1>1 DEF allvars, vars
<1> QED BY <1>2, Invariance, PTL DEF CsvSpec

----------------------------------------------------------------------------
(* The names of the columns, and the columns with the kinds of their cells. *)
Path  == Seq(Int)
Entry == [path : Path, kind : Scalars \cup {"array"}]

(* f[i] is the type that the first i steps of the path p lead to from t. *)
Follows(t, p, n, f) == f = [i \in 0..n |-> IF i = 0 THEN t ELSE Within(f[i - 1], p[i])]

(* Such a function exists, and TypeAt is its last value. *)
LEMMA FollowsExists ==
  ASSUME NEW t, NEW p \in Path
  PROVE  \E f : Follows(t, p, Len(p), f)
<1> DEFINE S == {n \in 0..Len(p) : \E f : Follows(t, p, n, f)}
<1>1. Len(p) \in Nat
  BY DEF Path
<1>2. 0 \in S
  <2> DEFINE f == [i \in 0..0 |-> t]
  <2>1. f = [i \in 0..0 |-> IF i = 0 THEN t ELSE Within(f[i - 1], p[i])]
    OBVIOUS
  <2> HIDE DEF f
  <2> QED BY <1>1, <2>1 DEF Follows
<1>3. ASSUME NEW n \in 0..(Len(p) - 1), n \in S PROVE n + 1 \in S
  <2>1. PICK f : Follows(t, p, n, f)
    BY <1>3
  <2> DEFINE g == [i \in 0..(n + 1) |-> IF i <= n THEN f[i] ELSE Within(f[n], p[n + 1])]
  <2>2. n \in Nat /\ n + 1 \in 0..Len(p)
    BY <1>1
  <2>3. ASSUME NEW i \in 0..(n + 1) PROVE g[i] = IF i = 0 THEN t ELSE Within(g[i - 1], p[i])
    <3>1. CASE i <= n
      <4>1. i \in 0..n /\ g[i] = f[i] /\ (i # 0 => g[i - 1] = f[i - 1])
        BY <2>2, <3>1
      <4>2. f[i] = IF i = 0 THEN t ELSE Within(f[i - 1], p[i])
        BY <2>1, <4>1 DEF Follows
      <4> HIDE DEF g
      <4> QED BY <4>1, <4>2
    <3>2. CASE i = n + 1
      <4>1. g[n + 1] = Within(f[n], p[n + 1]) /\ g[n] = f[n] /\ n + 1 # 0 /\ (n + 1) - 1 = n
        BY <2>2
      <4> HIDE DEF g
      <4> QED BY <3>2, <4>1
    <3>3. i <= n \/ i = n + 1
      BY <2>2
    <3> QED BY <3>1, <3>2, <3>3, Zenon
  <2>4. Follows(t, p, n + 1, g)
    BY <2>3 DEF Follows
  <2> HIDE DEF g
  <2> QED BY <2>2, <2>4
<1> HIDE DEF S
<1>4. 0..Len(p) \subseteq S
  BY <1>1, <1>2, <1>3, Stepwise
<1>5. Len(p) \in S
  BY <1>1, <1>4
<1> QED BY <1>5 DEF S

LEMMA FollowsIs ==
  ASSUME NEW t, NEW p \in Path, NEW f, Follows(t, p, Len(p), f)
  PROVE  TypeAt(t, p) = f[Len(p)]
<1> DEFINE L == Len(p)
           D(g) == g = [i \in 0..L |-> IF i = 0 THEN t ELSE Within(g[i - 1], p[i])]
           a == CHOOSE g : D(g)
<1>1. L \in Nat
  BY DEF Path
<1>2. TypeAt(t, p) = a[L]
  BY DEF TypeAt
<1>3. D(f)
  BY DEF Follows
<1>4. D(a)
  BY <1>3, Zenon
<1> HIDE DEF a
<1> DEFINE S == {n \in 0..L : a[n] = f[n]}
<1>5. 0 \in S
  BY <1>1, <1>3, <1>4
<1>6. ASSUME NEW n \in 0..(L - 1), n \in S PROVE n + 1 \in S
  <2>1. n + 1 \in 0..L /\ n + 1 # 0 /\ (n + 1) - 1 = n
    BY <1>1
  <2>2. a[n + 1] = Within(a[n], p[n + 1])
    BY <1>4, <2>1
  <2>3. f[n + 1] = Within(f[n], p[n + 1])
    BY <1>3, <2>1
  <2> QED BY <1>6, <2>1, <2>2, <2>3
<1> HIDE DEF S
<1>7. 0..L \subseteq S
  BY <1>1, <1>5, <1>6, Stepwise
<1>8. a[L] = f[L]
  BY <1>1, <1>7 DEF S
<1> QED BY <1>2, <1>8

(* A path leads to the type itself, or one step further than the path      *)
(* without its last step.                                                  *)
LEMMA TypeAtSteps ==
  ASSUME NEW t
  PROVE  /\ TypeAt(t, <<>>) = t
         /\ \A p \in Path, k \in Int : TypeAt(t, Append(p, k)) = Within(TypeAt(t, p), k)
<1>1. TypeAt(t, <<>>) = t
  <2>1. <<>> \in Path /\ Len(<<>>) = 0
    BY DEF Path
  <2>2. PICK f : Follows(t, <<>>, Len(<<>>), f)
    BY <2>1, FollowsExists
  <2>3. TypeAt(t, <<>>) = f[0]
    BY <2>1, <2>2, FollowsIs
  <2> QED BY <2>1, <2>2, <2>3 DEF Follows
<1>2. ASSUME NEW p \in Path, NEW k \in Int
      PROVE  TypeAt(t, Append(p, k)) = Within(TypeAt(t, p), k)
  <2> DEFINE L == Len(p)
             q == Append(p, k)
  <2>1. /\ L \in Nat /\ q \in Path /\ Len(q) = L + 1
        /\ q[L + 1] = k /\ \A i \in 1..L : q[i] = p[i]
    BY DEF Path
  <2>2. PICK f : Follows(t, p, L, f)
    BY FollowsExists
  <2> HIDE DEF q
  <2> DEFINE g == [i \in 0..(L + 1) |-> IF i <= L THEN f[i] ELSE Within(f[L], k)]
  <2>3. ASSUME NEW i \in 0..(L + 1) PROVE g[i] = IF i = 0 THEN t ELSE Within(g[i - 1], q[i])
    <3>1. CASE i <= L
      <4>1. i \in 0..L /\ g[i] = f[i] /\ (i # 0 => g[i - 1] = f[i - 1] /\ q[i] = p[i])
        BY <2>1, <3>1
      <4>2. f[i] = IF i = 0 THEN t ELSE Within(f[i - 1], p[i])
        BY <2>2, <4>1 DEF Follows
      <4> HIDE DEF g
      <4> QED BY <4>1, <4>2
    <3>2. CASE i = L + 1
      <4>1. g[L + 1] = Within(f[L], k) /\ g[L] = f[L] /\ L + 1 # 0 /\ (L + 1) - 1 = L
        BY <2>1
      <4> HIDE DEF g
      <4> QED BY <2>1, <3>2, <4>1
    <3>3. i <= L \/ i = L + 1
      BY <2>1
    <3> QED BY <3>1, <3>2, <3>3, Zenon
  <2>4. Follows(t, q, Len(q), g)
    BY <2>1, <2>3 DEF Follows
  <2>5. g[L + 1] = Within(f[L], k)
    BY <2>1
  <2> HIDE DEF g
  <2>6. TypeAt(t, q) = g[L + 1]
    BY <2>1, <2>4, FollowsIs
  <2>7. TypeAt(t, p) = f[L]
    BY <2>2, FollowsIs
  <2> QED BY <2>5, <2>6, <2>7 DEF q
<1> QED BY <1>1, <1>2

(* The order of paths is decided where they part. *)
LEMMA PrecedesSteps ==
  ASSUME NEW p \in Path, NEW q \in Path
  PROVE  /\ \A a, b \in Int : a < b => Precedes(Append(p, a), Append(p, b))
         /\ Precedes(p, q) => \A k \in Int : Precedes(Append(p, k), q) /\ Precedes(p, Append(q, k))
<1>1. ASSUME NEW r \in Path, NEW k \in Int, NEW j \in 1..(Len(r) + 1)
      PROVE  SubSeq(Append(r, k), 1, j - 1) = SubSeq(r, 1, j - 1)
  BY DEF Path
<1>2. \A r \in Path, k \in Int : /\ Append(r, k) \in Path /\ Len(Append(r, k)) = Len(r) + 1
                                 /\ DOMAIN r = 1..Len(r) /\ DOMAIN Append(r, k) = 1..(Len(r) + 1)
                                 /\ Append(r, k)[Len(r) + 1] = k /\ Len(r) \in Nat
                                 /\ \A i \in 1..Len(r) : Append(r, k)[i] = r[i]
  BY DEF Path
<1>3. ASSUME NEW a \in Int, NEW b \in Int, a < b PROVE Precedes(Append(p, a), Append(p, b))
  <2> DEFINE j == Len(p) + 1
  <2>1. j \in DOMAIN Append(p, a) \cap DOMAIN Append(p, b)
    BY <1>2
  <2>2. Append(p, a)[j] < Append(p, b)[j]
    BY <1>2, <1>3
  <2>3. SubSeq(Append(p, a), 1, j - 1) = SubSeq(Append(p, b), 1, j - 1)
    BY <1>1, <1>2
  <2> HIDE DEF j
  <2> QED BY <2>1, <2>2, <2>3, Zenon DEF Precedes
<1>4. ASSUME Precedes(p, q), NEW k \in Int PROVE Precedes(Append(p, k), q) /\ Precedes(p, Append(q, k))
  <2>1. PICK j \in DOMAIN p \cap DOMAIN q : SubSeq(p, 1, j - 1) = SubSeq(q, 1, j - 1) /\ p[j] < q[j]
    BY <1>4 DEF Precedes
  <2>2. /\ j \in 1..Len(p) /\ j \in 1..Len(q)
        /\ j \in 1..(Len(p) + 1) /\ j \in 1..(Len(q) + 1)
    BY DEF Path
  <2>3. /\ SubSeq(Append(p, k), 1, j - 1) = SubSeq(p, 1, j - 1) /\ Append(p, k)[j] = p[j]
        /\ SubSeq(Append(q, k), 1, j - 1) = SubSeq(q, 1, j - 1) /\ Append(q, k)[j] = q[j]
    BY <1>1, <1>2, <2>2, ZenonT(60)
  <2>4. j \in DOMAIN Append(p, k) \cap DOMAIN q /\ j \in DOMAIN p \cap DOMAIN Append(q, k)
    BY <1>2, <2>2
  <2>5. Precedes(Append(p, k), q)
    BY <2>1, <2>3, <2>4, Zenon DEF Precedes
  <2>6. Precedes(p, Append(q, k))
    BY <2>1, <2>3, <2>4, Zenon DEF Precedes
  <2> QED BY <2>5, <2>6
<1> QED BY <1>3, <1>4

----------------------------------------------------------------------------
(* The types that nest at most n deep are built from those that nest at    *)
(* most n - 1 deep.                                                        *)
Above(low) ==
  {t \in Parts :
     \/ t.kind \in Scalars
     \/ t.kind = "record" /\ \A k \in DOMAIN t.body : t.body[k] \in low
     \/ t.kind = "array" /\ t.base \in low}

Layered(n, f) ==
  /\ f \in [0..n -> SUBSET Parts]
  /\ f[0] = {t \in Parts : t.kind \in Scalars}
  /\ \A i \in 1..n : f[i] = Above(f[i - 1])

(* The layers of types exist, and shallow is the function of them. *)
LEMMA LayeredExists == \E f : Layered(Depth, f)
<1> DEFINE S == {n \in 0..Depth : \E f : Layered(n, f)}
<1>1. Depth \in Nat
  BY CodecAssumption
<1>2. 0 \in S
  <2> DEFINE f == [i \in 0..0 |-> {t \in Parts : t.kind \in Scalars}]
  <2>1. Layered(0, f)
    BY DEF Layered
  <2> HIDE DEF f
  <2> QED BY <1>1, <2>1
<1>3. ASSUME NEW n \in 0..(Depth - 1), n \in S PROVE n + 1 \in S
  <2>1. PICK f : Layered(n, f)
    BY <1>3
  <2> DEFINE g == [i \in 0..(n + 1) |-> IF i <= n THEN f[i] ELSE Above(f[n])]
  <2>2. n \in Nat /\ n + 1 \in 0..Depth
    BY <1>1
  <2>3. g \in [0..(n + 1) -> SUBSET Parts] /\ g[0] = f[0]
    BY <2>1, <2>2 DEF Layered, Above
  <2>4. ASSUME NEW i \in 1..(n + 1) PROVE g[i] = Above(g[i - 1])
    <3>1. CASE i <= n
      <4>1. i \in 1..n /\ g[i] = f[i] /\ g[i - 1] = f[i - 1]
        BY <2>2, <3>1
      <4> HIDE DEF g
      <4> QED BY <2>1, <4>1 DEF Layered
    <3>2. CASE i = n + 1
      <4>1. g[n + 1] = Above(f[n]) /\ g[n] = f[n] /\ (n + 1) - 1 = n
        BY <2>2
      <4> HIDE DEF g
      <4> QED BY <3>2, <4>1
    <3>3. i <= n \/ i = n + 1
      BY <2>2
    <3> QED BY <3>1, <3>2, <3>3, Zenon
  <2> HIDE DEF g
  <2>5. Layered(n + 1, g)
    BY <2>1, <2>3, <2>4 DEF Layered
  <2> QED BY <2>2, <2>5
<1> HIDE DEF S
<1>4. 0..Depth \subseteq S
  BY <1>1, <1>2, <1>3, Stepwise
<1>5. Depth \in S
  BY <1>1, <1>4
<1> QED BY <1>5 DEF S

LEMMA ShallowIs == Layered(Depth, shallow) /\ shallow[Depth] = Parts
<1> DEFINE L(g, n) == {t \in Parts :
                         \/ t.kind \in Scalars
                         \/ n > 0 /\ t.kind = "record" /\ \A k \in DOMAIN t.body : t.body[k] \in g[n - 1]
                         \/ n > 0 /\ t.kind = "array" /\ t.base \in g[n - 1]}
           D(g) == g = [n \in 0..Depth |-> L(g, n)]
<1>1. Depth \in Nat /\ shallow[Depth] = Parts
  BY CodecAssumption
<1>2. \A g : L(g, 0) = {t \in Parts : t.kind \in Scalars}
  OBVIOUS
<1>3. \A g : \A n \in 1..Depth : L(g, n) = Above(g[n - 1])
  BY DEF Above
<1>4. PICK f : Layered(Depth, f)
  BY LayeredExists
<1>5. D(f)
  <2>1. \A n \in 0..Depth : f[n] = L(f, n)
    <3> SUFFICES ASSUME NEW n \in 0..Depth PROVE f[n] = L(f, n)
      OBVIOUS
    <3>1. n = 0 \/ n \in 1..Depth
      BY <1>1
    <3> HIDE DEF L
    <3> QED BY <1>2, <1>3, <1>4, <3>1 DEF Layered
  <2> HIDE DEF L
  <2>2. f = [n \in 0..Depth |-> f[n]]
    BY <1>4 DEF Layered
  <2> QED BY <2>1, <2>2
<1>6. D(shallow)
  <2>1. shallow = CHOOSE g : D(g)
    BY DEF shallow
  <2> HIDE DEF D
  <2> QED BY <1>5, <2>1
<1>7. Layered(Depth, shallow)
  <2>1. \A n \in 0..Depth : L(shallow, n) \subseteq Parts
    OBVIOUS
  <2> HIDE DEF L
  <2> QED BY <1>1, <1>2, <1>3, <1>6, <2>1 DEF Layered
<1> QED BY <1>1, <1>7

(* A layer contains those below it. *)
LEMMA LayersRise == \A n \in 0..(Depth - 1) : shallow[n] \subseteq shallow[n + 1]
<1> DEFINE N == {n \in 0..Depth : n < Depth => shallow[n] \subseteq shallow[n + 1]}
<1>1. Depth \in Nat
  BY CodecAssumption
<1>2. \A n \in 0..(Depth - 1) : shallow[n + 1] = Above(shallow[n])
  <2> SUFFICES ASSUME NEW n \in 0..(Depth - 1) PROVE shallow[n + 1] = Above(shallow[n])
    OBVIOUS
  <2>1. n + 1 \in 1..Depth /\ (n + 1) - 1 = n
    BY <1>1
  <2> QED BY <2>1, ShallowIs DEF Layered
<1>3. 0 \in N
  <2>1. ASSUME 0 < Depth PROVE shallow[0] \subseteq shallow[0 + 1]
    <3>1. shallow[0 + 1] = Above(shallow[0])
      BY <1>1, <1>2, <2>1
    <3> QED BY <3>1, ShallowIs DEF Layered, Above
  <2> QED BY <1>1, <2>1
<1>4. ASSUME NEW n \in 0..(Depth - 1), n \in N PROVE n + 1 \in N
  <2>1. n + 1 \in 0..Depth /\ shallow[n] \subseteq shallow[n + 1] /\ shallow[n + 1] = Above(shallow[n])
    BY <1>1, <1>2, <1>4
  <2>2. ASSUME n + 1 < Depth PROVE shallow[n + 1] \subseteq shallow[(n + 1) + 1]
    <3>1. n + 1 \in 0..(Depth - 1)
      BY <1>1, <2>2
    <3>2. shallow[(n + 1) + 1] = Above(shallow[n + 1])
      BY <1>2, <3>1
    <3> HIDE DEF N
    <3>3. Above(shallow[n]) \subseteq Above(shallow[n + 1])
      BY <2>1 DEF Above
    <3> QED BY <2>1, <3>2, <3>3
  <2> QED BY <2>1, <2>2
<1> HIDE DEF N
<1>5. 0..Depth \subseteq N
  BY <1>1, <1>3, <1>4, Stepwise
<1> QED BY <1>1, <1>5 DEF N

(* What holds of a type whenever it holds of its parts holds of all types. *)
LEMMA OnParts ==
  ASSUME NEW S, S \subseteq Parts, Above(S) \subseteq S
  PROVE  S = Parts
<1> DEFINE N == {n \in 0..Depth : shallow[n] \subseteq S}
<1>1. Depth \in Nat
  BY CodecAssumption
<1>2. 0 \in N
  <2>1. shallow[0] \subseteq Above(S)
    BY ShallowIs DEF Layered, Above
  <2> QED BY <1>1, <2>1
<1>3. ASSUME NEW n \in 0..(Depth - 1), n \in N PROVE n + 1 \in N
  <2>1. n + 1 \in 1..Depth /\ n + 1 \in 0..Depth /\ (n + 1) - 1 = n
    BY <1>1
  <2>2. shallow[n + 1] = Above(shallow[n])
    BY <2>1, ShallowIs DEF Layered
  <2>3. Above(shallow[n]) \subseteq Above(S)
    BY <1>3 DEF Above
  <2> QED BY <2>1, <2>2, <2>3
<1> HIDE DEF N
<1>4. 0..Depth \subseteq N
  BY <1>1, <1>2, <1>3, Stepwise
<1>5. shallow[Depth] \subseteq S
  BY <1>1, <1>4 DEF N
<1> QED BY <1>5, ShallowIs

(* A type, its members and its elements. *)
LEMMA PartFields ==
  ASSUME NEW t \in Parts
  PROVE  /\ t.kind \in Scalars \cup {"record", "array"}
         /\ t.kind = "record" => /\ t.body \in Stacks /\ DOMAIN t.body = 1..Len(t.body)
                                 /\ \A k \in DOMAIN t.body : t.body[k] \in Parts
         /\ t.kind = "array" => t.base \in Parts /\ t.size \in Nat /\ Elements(t) \in Nat
         /\ t.kind \in Scalars => t.kind # "record" /\ t.kind # "array"
<1>1. /\ t.kind \in Scalars \cup {"record", "array"}
      /\ t.kind = "record" => t.body \in Seq(Parts)
      /\ t.kind = "array" => t.base \in Parts /\ t.size \in Nat
  BY CodecAssumption
<1>2. t.kind \in Scalars => t.kind # "record" /\ t.kind # "array"
  BY CodecAssumption
<1>3. t.kind = "array" => Elements(t) \in Nat
  BY <1>1 DEF Elements
<1>4. ASSUME t.kind = "record" PROVE DOMAIN t.body = 1..Len(t.body) /\ \A k \in DOMAIN t.body : t.body[k] \in Parts
  BY <1>1, <1>4
<1> QED BY <1>1, <1>2, <1>3, <1>4, Zenon DEF Stacks

(* A function of the types that is defined by its values at their parts,   *)
(* first for the types that nest little, then for the others.              *)
Listed(f, t) ==
  CASE t.kind = "record" ->
         FlattenSeq([k \in DOMAIN t.body |-> Under(<<k>>, f[t.body[k]])])
    [] t.kind = "array"  ->
         <<[path |-> <<SIZE>>, kind |-> "array"]>>
         \o FlattenSeq([i \in 1..Elements(t) |-> Under(<<i - 1>>, f[t.base])])
    [] OTHER -> <<[path |-> <<>>, kind |-> t.kind]>>

(* The listing of a type is put together from those of its parts. *)
LEMMA ListingIs == DOMAIN listing = Parts /\ \A t \in Parts : listing[t] = Listed(listing, t)
<1>1. ASSUME NEW low, NEW f, NEW g, NEW t \in Above(low), \A u \in low : f[u] = g[u]
      PROVE  Listed(f, t) = Listed(g, t)
  <2>1. t \in Parts
    BY DEF Above
  <2>2. CASE t.kind = "record"
    <3>1. \A k \in DOMAIN t.body : t.body[k] \in low
      BY <2>1, <2>2, PartFields DEF Above
    <3>2. [k \in DOMAIN t.body |-> Under(<<k>>, f[t.body[k]])] = [k \in DOMAIN t.body |-> Under(<<k>>, g[t.body[k]])]
      BY <1>1, <3>1
    <3> QED BY <2>2, <3>2, Zenon DEF Listed
  <2>3. CASE t.kind = "array"
    <3>1. t.base \in low
      BY <2>1, <2>3, PartFields DEF Above
    <3>2. f[t.base] = g[t.base]
      BY <1>1, <3>1
    <3> QED BY <2>3, <3>2 DEF Listed
  <2>4. CASE t.kind # "record" /\ t.kind # "array"
    BY <2>4 DEF Listed
  <2> QED BY <2>2, <2>3, <2>4
<1> DEFINE Good(n, f) == f = [t \in shallow[n] |-> Listed(f, t)]
           S == {n \in 0..Depth : \E f : Good(n, f)}
<1>2. Depth \in Nat /\ Layered(Depth, shallow)
  BY CodecAssumption, ShallowIs
<1>3. 0 \in S
  <2> DEFINE z == [t \in Parts |-> <<>>]
             f == [t \in shallow[0] |-> Listed(z, t)]
  <2>1. shallow[0] \subseteq Above({})
    BY <1>2 DEF Layered, Above
  <2>2. \A t \in shallow[0] : Listed(z, t) = Listed(f, t)
    <3> SUFFICES ASSUME NEW t \in shallow[0] PROVE Listed(z, t) = Listed(f, t)
      OBVIOUS
    <3> HIDE DEF z, f
    <3> QED BY <1>1, <2>1
  <2>3. Good(0, f)
    BY <2>2
  <2> HIDE DEF f, Good
  <2> QED BY <1>2, <2>3
<1>4. ASSUME NEW n \in 0..(Depth - 1), n \in S PROVE n + 1 \in S
  <2>1. PICK f : Good(n, f)
    BY <1>4
  <2> DEFINE g == [t \in shallow[n + 1] |-> Listed(f, t)]
  <2>2. n + 1 \in 1..Depth /\ n + 1 \in 0..Depth /\ (n + 1) - 1 = n
    BY <1>2
  <2>3. shallow[n + 1] = Above(shallow[n])
    BY <1>2, <2>2 DEF Layered
  <2>4. shallow[n] \subseteq shallow[n + 1]
    BY <1>2, <2>2, LayersRise
  <2>5. \A t \in shallow[n] : f[t] = g[t]
    BY <2>1, <2>4
  <2>6. \A t \in shallow[n + 1] : Listed(f, t) = Listed(g, t)
    <3> SUFFICES ASSUME NEW t \in shallow[n + 1] PROVE Listed(f, t) = Listed(g, t)
      OBVIOUS
    <3> HIDE DEF g
    <3> QED BY <1>1, <2>3, <2>5
  <2>7. Good(n + 1, g)
    BY <2>6
  <2> HIDE DEF g, Good
  <2> QED BY <2>2, <2>7
<1> HIDE DEF S, Good
<1>5. 0..Depth \subseteq S
  BY <1>2, <1>3, <1>4, Stepwise
<1>6. PICK f : f = [t \in Parts |-> Listed(f, t)]
  <2>1. Depth \in S
    BY <1>2, <1>5
  <2> QED BY <2>1, ShallowIs DEF S, Good
<1>7. listing = CHOOSE g : g = [t \in Parts |-> Listed(g, t)]
  BY DEF listing, Listed
<1>8. listing = [t \in Parts |-> Listed(listing, t)]
  BY <1>6, <1>7
<1> QED BY <1>8

----------------------------------------------------------------------------
(* Columns under a path. *)
LEMMA EntryFields ==
  /\ \A e \in Entry : e.path \in Path /\ e.kind \in Scalars \cup {"array"} /\ e = [path |-> e.path, kind |-> e.kind]
  /\ \A p \in Path, k \in Scalars \cup {"array"} : [path |-> p, kind |-> k] \in Entry
BY DEF Entry

(* What putting a path in front of the columns of a list does to them. *)
LEMMA UnderFields ==
  ASSUME NEW p \in Path, NEW l \in Seq(Entry)
  PROVE  /\ Under(p, l) \in Seq(Entry) /\ Len(Under(p, l)) = Len(l) /\ DOMAIN Under(p, l) = 1..Len(l)
         /\ \A i \in 1..Len(l) : Under(p, l)[i] = [path |-> p \o l[i].path, kind |-> l[i].kind]
<1>1. Len(l) \in Nat /\ DOMAIN l = 1..Len(l) /\ \A i \in 1..Len(l) : l[i] \in Entry
  OBVIOUS
<1>2. \A i \in 1..Len(l) : [path |-> p \o l[i].path, kind |-> l[i].kind] \in Entry
  BY <1>1, EntryFields, Words DEF Path
<1>3. Under(p, l) = [i \in 1..Len(l) |-> [path |-> p \o l[i].path, kind |-> l[i].kind]]
  BY <1>1 DEF Under
<1>4. Under(p, l) \in [1..Len(l) -> Entry]
  BY <1>2, <1>3
<1>5. \A i \in 1..Len(l) : Under(p, l)[i] = [path |-> p \o l[i].path, kind |-> l[i].kind]
  BY <1>3
<1> HIDE <1>2
<1> QED BY <1>1, <1>4, <1>5

LEMMA SameColumns ==
  ASSUME NEW a \in Seq(Entry), NEW b \in Seq(Entry), Len(a) = Len(b),
         \A i \in 1..Len(a) : a[i] = b[i]
  PROVE  a = b
OBVIOUS

LEMMA UnderOne ==
  ASSUME NEW p \in Path, NEW x \in Entry
  PROVE  Under(p, <<x>>) = <<[path |-> p \o x.path, kind |-> x.kind]>>
<1> DEFINE y == [path |-> p \o x.path, kind |-> x.kind]
<1>1. y \in Entry
  BY EntryFields, Words DEF Path
<1> HIDE DEF y
<1>2. <<x>> \in Seq(Entry) /\ Len(<<x>>) = 1 /\ <<x>>[1] = x
  OBVIOUS
<1>3. <<y>> \in Seq(Entry) /\ Len(<<y>>) = 1 /\ <<y>>[1] = y
  BY <1>1
<1>4. Under(p, <<x>>) \in Seq(Entry) /\ Len(Under(p, <<x>>)) = 1
  BY <1>2, UnderFields
<1>5. Under(p, <<x>>)[1] = y
  <2>1. Under(p, <<x>>)[1] = [path |-> p \o <<x>>[1].path, kind |-> <<x>>[1].kind]
    <3> DEFINE m == <<x>>
    <3>1. m \in Seq(Entry) /\ 1 \in 1..Len(m)
      BY <1>2
    <3> HIDE DEF m
    <3>2. Under(p, m)[1] = [path |-> p \o m[1].path, kind |-> m[1].kind]
      BY <3>1, UnderFields
    <3> QED BY <3>2 DEF m
  <2> QED BY <1>2, <2>1, Zenon DEF y
<1> QED BY <1>3, <1>4, <1>5, SameColumns DEF y

LEMMA UnderConcat ==
  ASSUME NEW p \in Path, NEW a \in Seq(Entry), NEW b \in Seq(Entry)
  PROVE  Under(p, a \o b) = Under(p, a) \o Under(p, b)
<1> DEFINE m == Len(a)
           n == Len(b)
<1>1. /\ m \in Nat /\ n \in Nat /\ a \o b \in Seq(Entry) /\ Len(a \o b) = m + n
      /\ \A i \in 1..m : (a \o b)[i] = a[i]
      /\ \A i \in (m + 1)..(m + n) : (a \o b)[i] = b[i - m]
  BY ConcatProperties
<1>2. /\ Under(p, a) \in Seq(Entry) /\ Len(Under(p, a)) = m
      /\ Under(p, b) \in Seq(Entry) /\ Len(Under(p, b)) = n
      /\ Under(p, a \o b) \in Seq(Entry) /\ Len(Under(p, a \o b)) = m + n
  BY <1>1, UnderFields, ZenonT(60)
<1> DEFINE v == Under(p, a) \o Under(p, b)
<1>3. /\ v \in Seq(Entry) /\ Len(v) = m + n
      /\ \A i \in 1..m : v[i] = Under(p, a)[i]
      /\ \A i \in (m + 1)..(m + n) : v[i] = Under(p, b)[i - m]
  BY <1>2, ConcatProperties, SMTT(60)
<1> HIDE DEF v
<1>4. ASSUME NEW i \in 1..(m + n) PROVE Under(p, a \o b)[i] = v[i]
  <2>1. Under(p, a \o b)[i] = [path |-> p \o (a \o b)[i].path, kind |-> (a \o b)[i].kind]
    <3>1. \A j \in 1..Len(a \o b) :
            Under(p, a \o b)[j] = [path |-> p \o (a \o b)[j].path, kind |-> (a \o b)[j].kind]
      BY <1>1, UnderFields, ZenonT(60)
    <3>2. i \in 1..Len(a \o b)
      BY <1>1, Zenon
    <3> QED BY <3>1, <3>2, Zenon
  <2>2. CASE i <= m
    <3>1. i \in 1..m
      BY <1>1, <2>2
    <3>2. v[i] = [path |-> p \o a[i].path, kind |-> a[i].kind]
      BY <1>3, <3>1, UnderFields
    <3> QED BY <1>1, <2>1, <3>1, <3>2
  <2>3. CASE ~(i <= m)
    <3>1. i \in (m + 1)..(m + n) /\ i - m \in 1..n
      BY <1>1, <2>3
    <3>2. v[i] = [path |-> p \o b[i - m].path, kind |-> b[i - m].kind]
      BY <1>3, <3>1, UnderFields
    <3> QED BY <1>1, <2>1, <3>1, <3>2
  <2> QED BY <2>2, <2>3
<1> QED BY <1>2, <1>3, <1>4, SameColumns DEF v

LEMMA UnderUnder ==
  ASSUME NEW p \in Path, NEW q \in Path, NEW l \in Seq(Entry)
  PROVE  /\ Under(p, Under(q, l)) = Under(p \o q, l)
         /\ Under(<<>>, l) = l
<1>1. /\ p \o q \in Path /\ <<>> \in Path /\ \A r \in Path : (p \o q) \o r = p \o (q \o r) /\ <<>> \o r = r
  BY Words, SMTT(60) DEF Path
<1>2. /\ Under(q, l) \in Seq(Entry) /\ Len(Under(q, l)) = Len(l)
      /\ Under(p \o q, l) \in Seq(Entry) /\ Len(Under(p \o q, l)) = Len(l)
      /\ Under(<<>>, l) \in Seq(Entry) /\ Len(Under(<<>>, l)) = Len(l)
  BY <1>1, UnderFields
<1>3. Under(p, Under(q, l)) \in Seq(Entry) /\ Len(Under(p, Under(q, l))) = Len(l)
  BY <1>2, UnderFields
<1>4. ASSUME NEW i \in 1..Len(l)
      PROVE  Under(p, Under(q, l))[i] = Under(p \o q, l)[i] /\ Under(<<>>, l)[i] = l[i]
  <2>1. l[i] \in Entry /\ l[i].path \in Path /\ l[i] = [path |-> l[i].path, kind |-> l[i].kind]
    BY EntryFields
  <2>2. Under(q, l)[i] = [path |-> q \o l[i].path, kind |-> l[i].kind]
    BY UnderFields
  <2>3. Under(p, Under(q, l))[i] = [path |-> p \o (q \o l[i].path), kind |-> l[i].kind]
    <3>1. Under(p, Under(q, l))[i] = [path |-> p \o Under(q, l)[i].path, kind |-> Under(q, l)[i].kind]
      <4> DEFINE m == Under(q, l)
      <4>1. m \in Seq(Entry) /\ i \in 1..Len(m)
        BY <1>2
      <4> HIDE DEF m
      <4>2. Under(p, m)[i] = [path |-> p \o m[i].path, kind |-> m[i].kind]
        BY <4>1, UnderFields
      <4> QED BY <4>2 DEF m
    <3>2. Under(q, l)[i].path = q \o l[i].path /\ Under(q, l)[i].kind = l[i].kind
      BY <2>2
    <3> QED BY <3>1, <3>2, Zenon
  <2>4. Under(p \o q, l)[i] = [path |-> (p \o q) \o l[i].path, kind |-> l[i].kind]
    BY <1>1, UnderFields
  <2>5. Under(<<>>, l)[i] = [path |-> <<>> \o l[i].path, kind |-> l[i].kind]
    BY <1>1, UnderFields
  <2> QED BY <1>1, <2>1, <2>3, <2>4, <2>5
<1> QED BY <1>2, <1>3, <1>4, SameColumns

LEMMA UnderFlatten ==
  ASSUME NEW p \in Path, NEW s \in Seq(Seq(Entry))
  PROVE  /\ [i \in 1..Len(s) |-> Under(p, s[i])] \in Seq(Seq(Entry))
         /\ Under(p, FlattenSeq(s)) = FlattenSeq([i \in 1..Len(s) |-> Under(p, s[i])])
<1> DEFINE n == Len(s)
           v == [i \in 1..n |-> Under(p, s[i])]
<1>1. PICK h : Gathers(Entry, s, n, h)
  BY GathersExists
<1>2. n \in Nat /\ \A i \in 1..n : s[i] \in Seq(Entry)
  OBVIOUS
<1>3. \A i \in 1..n : Under(p, s[i]) \in Seq(Entry)
  BY <1>2, UnderFields
<1>4. v \in Seq(Seq(Entry)) /\ Len(v) = n /\ \A i \in 1..n : v[i] = Under(p, s[i])
  BY <1>2, <1>3
<1> DEFINE g == [i \in 0..n |-> Under(p, h[i])]
<1>5. \A i \in 0..n : h[i] \in Seq(Entry) /\ g[i] = Under(p, h[i])
  BY <1>1 DEF Gathers
<1>6. g \in [0..n -> Seq(Entry)]
  BY <1>5, UnderFields
<1>7. g[0] = <<>>
  <2>1. h[0] = <<>> /\ g[0] = Under(p, h[0])
    BY <1>1, <1>2, <1>5 DEF Gathers
  <2>2. Under(p, <<>>) = <<>>
    BY DEF Under
  <2> QED BY <2>1, <2>2
<1> HIDE DEF g, v
<1>8. ASSUME NEW i \in 1..n PROVE g[i] = g[i - 1] \o v[i]
  <2>1. i \in 0..n /\ i - 1 \in 0..n
    BY <1>2
  <2>2. h[i] = h[i - 1] \o s[i]
    BY <1>1 DEF Gathers
  <2>3. h[i - 1] \in Seq(Entry) /\ s[i] \in Seq(Entry)
    BY <1>2, <1>5, <2>1
  <2>4. Under(p, h[i - 1] \o s[i]) = Under(p, h[i - 1]) \o Under(p, s[i])
    BY <2>3, UnderConcat
  <2>5. g[i] = Under(p, h[i]) /\ g[i - 1] = Under(p, h[i - 1]) /\ v[i] = Under(p, s[i])
    BY <1>4, <1>5, <2>1
  <2> QED BY <2>2, <2>4, <2>5, Zenon
<1>9. Gathers(Entry, v, Len(v), g)
  BY <1>4, <1>6, <1>7, <1>8 DEF Gathers
<1>10. FlattenSeq(v) = g[n] /\ FlattenSeq(s) = h[n]
  <2>1. FlattenSeq(v) = g[Len(v)]
    BY <1>4, <1>9, GathersIs
  <2>2. FlattenSeq(s) = h[n]
    BY <1>1, GathersIs
  <2> QED BY <1>4, <2>1, <2>2
<1>11. g[n] = Under(p, h[n])
  BY <1>2, <1>5
<1> QED BY <1>4, <1>10, <1>11 DEF v

LEMMA ListingType == \A t \in Parts : listing[t] \in Seq(Entry)
<1> DEFINE S == {t \in Parts : listing[t] \in Seq(Entry)}
<1>0. \A k \in Int : <<k>> \in Path
  BY DEF Path
<1>1. ASSUME NEW t \in Above(S) PROVE t \in S
  <2>1. t \in Parts /\ listing[t] = Listed(listing, t)
    BY ListingIs DEF Above
  <2>2. CASE t.kind = "record"
    <3> DEFINE v == [k \in DOMAIN t.body |-> Under(<<k>>, listing[t.body[k]])]
    <3>1. t.body \in Stacks /\ DOMAIN t.body = 1..Len(t.body) /\ Len(t.body) \in Nat
      BY <2>1, <2>2, PartFields, StackFields
    <3>2. \A k \in DOMAIN t.body : listing[t.body[k]] \in Seq(Entry)
      BY <2>2, <2>1, PartFields DEF Above
    <3>3. \A k \in DOMAIN t.body : Under(<<k>>, listing[t.body[k]]) \in Seq(Entry)
      <4> SUFFICES ASSUME NEW k \in DOMAIN t.body PROVE Under(<<k>>, listing[t.body[k]]) \in Seq(Entry)
        OBVIOUS
      <4>1. <<k>> \in Path
        BY <1>0, <3>1
      <4> QED BY <3>2, <4>1, UnderFields
    <3>4. v \in Seq(Seq(Entry))
      BY <3>1, <3>3
    <3>5. listing[t] = FlattenSeq(v)
      BY <2>1, <2>2 DEF Listed
    <3> HIDE DEF v
    <3> QED BY <2>1, <3>4, <3>5, FlattenType
  <2>3. CASE t.kind = "array"
    <3> DEFINE v == [i \in 1..Elements(t) |-> Under(<<i - 1>>, listing[t.base])]
               x == [path |-> <<SIZE>>, kind |-> "array"]
    <3>1. Elements(t) \in Nat /\ listing[t.base] \in Seq(Entry)
      BY <2>1, <2>3, PartFields DEF Above
    <3>2. \A i \in 1..Elements(t) : Under(<<i - 1>>, listing[t.base]) \in Seq(Entry)
      <4> SUFFICES ASSUME NEW i \in 1..Elements(t) PROVE Under(<<i - 1>>, listing[t.base]) \in Seq(Entry)
        OBVIOUS
      <4>1. <<i - 1>> \in Path
        BY <1>0, <3>1
      <4> QED BY <3>1, <4>1, UnderFields
    <3>3. v \in Seq(Seq(Entry))
      <4> HIDE DEF x
      <4> DEFINE W == Seq(Entry)
      <4>1. \A i \in 1..Elements(t) : Under(<<i - 1>>, listing[t.base]) \in W
        BY <3>2
      <4> HIDE DEF W
      <4>2. v \in [1..Elements(t) -> W]
        BY <4>1
      <4> HIDE DEF v
      <4>3. v \in Seq(W)
        BY <3>1, <4>2
      <4> QED BY <4>3 DEF W
    <3>4. listing[t] = <<x>> \o FlattenSeq(v)
      BY <2>1, <2>3 DEF Listed
    <3>5. x \in Entry
      BY <1>0, EntryFields DEF SIZE
    <3> HIDE DEF v, x
    <3>6. FlattenSeq(v) \in Seq(Entry) /\ <<x>> \in Seq(Entry)
      BY <3>3, <3>5, FlattenType
    <3>7. <<x>> \o FlattenSeq(v) \in Seq(Entry)
      BY <3>6, Words
    <3> QED BY <2>1, <3>4, <3>7
  <2>4. CASE t.kind # "record" /\ t.kind # "array"
    <3>0. <<>> \in Path
      BY DEF Path
    <3>1. [path |-> <<>>, kind |-> t.kind] \in Entry
      BY <2>1, <2>4, <3>0, PartFields, EntryFields
    <3>2. listing[t] = <<[path |-> <<>>, kind |-> t.kind]>>
      BY <2>1, <2>4 DEF Listed
    <3>3. \A x \in Entry : <<x>> \in Seq(Entry)
      OBVIOUS
    <3>4. listing[t] \in Seq(Entry)
      BY <3>1, <3>2, <3>3, Zenon
    <3> QED BY <2>1, <3>4
  <2> QED BY <2>2, <2>3, <2>4
<1> HIDE DEF S
<1>2. S = Parts
  BY <1>1, OnParts DEF S
<1> QED BY <1>2 DEF S

(* The columns of a type are those of its members under their numbers, or  *)
(* its size and those of its elements under their indices.                 *)
LEMMA ColumnsOf ==
  ASSUME NEW p \in Path, NEW t \in Parts
  PROVE  /\ t.kind = "record" =>
              Under(p, listing[t]) = FlattenSeq([k \in 1..Len(t.body) |-> Under(Append(p, k), listing[t.body[k]])])
         /\ t.kind = "array" =>
              Under(p, listing[t]) =
                <<[path |-> Append(p, SIZE), kind |-> "array"]>>
                \o FlattenSeq([i \in 1..Elements(t) |-> Under(Append(p, i - 1), listing[t.base])])
         /\ t.kind \in Scalars => Under(p, listing[t]) = <<[path |-> p, kind |-> t.kind]>>
<1>0. \A k \in Int : <<k>> \in Path /\ p \o <<k>> = Append(p, k)
  BY DEF Path
<1>1. ASSUME NEW n \in Nat, NEW l, NEW m, \A i \in 1..n : l[i] \in Seq(Entry) /\ m[i] \in Int
      PROVE  /\ [i \in 1..n |-> Under(<<m[i]>>, l[i])] \in Seq(Seq(Entry))
             /\ Under(p, FlattenSeq([i \in 1..n |-> Under(<<m[i]>>, l[i])]))
                  = FlattenSeq([i \in 1..n |-> Under(Append(p, m[i]), l[i])])
  <2> DEFINE v == [i \in 1..n |-> Under(<<m[i]>>, l[i])]
  <2>1. \A i \in 1..n : Under(<<m[i]>>, l[i]) \in Seq(Entry)
    BY <1>0, <1>1, UnderFields
  <2>2. v \in Seq(Seq(Entry)) /\ Len(v) = n /\ \A i \in 1..n : v[i] = Under(<<m[i]>>, l[i])
    BY <2>1
  <2> HIDE DEF v
  <2>3. \A i \in 1..n : Under(p, v[i]) = Under(Append(p, m[i]), l[i])
    <3> SUFFICES ASSUME NEW i \in 1..n PROVE Under(p, v[i]) = Under(Append(p, m[i]), l[i])
      OBVIOUS
    <3>1. <<m[i]>> \in Path /\ l[i] \in Seq(Entry) /\ p \o <<m[i]>> = Append(p, m[i])
      BY <1>0, <1>1
    <3>2. Under(p, Under(<<m[i]>>, l[i])) = Under(p \o <<m[i]>>, l[i])
      BY <3>1, UnderUnder
    <3> QED BY <2>2, <3>1, <3>2, Zenon
  <2>4. [i \in 1..Len(v) |-> Under(p, v[i])] = [i \in 1..n |-> Under(Append(p, m[i]), l[i])]
    BY <2>2, <2>3, Zenon
  <2>5. Under(p, FlattenSeq(v)) = FlattenSeq([i \in 1..n |-> Under(Append(p, m[i]), l[i])])
    BY <2>2, <2>4, UnderFlatten, SMTT(60)
  <2> QED BY <2>2, <2>5 DEF v
<1>2. listing[t] = Listed(listing, t)
  BY ListingIs
<1>3. ASSUME t.kind = "record"
      PROVE  Under(p, listing[t]) = FlattenSeq([k \in 1..Len(t.body) |-> Under(Append(p, k), listing[t.body[k]])])
  <2> DEFINE n == Len(t.body)
             l == [k \in 1..n |-> listing[t.body[k]]]
             m == [k \in 1..n |-> k]
  <2>1. n \in Nat /\ DOMAIN t.body = 1..n /\ \A k \in 1..n : t.body[k] \in Parts
    BY <1>3, PartFields, StackFields
  <2>2. \A i \in 1..n : l[i] \in Seq(Entry) /\ m[i] \in Int /\ l[i] = listing[t.body[i]] /\ m[i] = i
    BY <2>1, ListingType
  <2>3. listing[t] = FlattenSeq([k \in 1..n |-> Under(<<k>>, listing[t.body[k]])])
    BY <1>2, <1>3, <2>1 DEF Listed
  <2> HIDE DEF l, m, n
  <2>4. [k \in 1..n |-> Under(<<k>>, listing[t.body[k]])] = [i \in 1..n |-> Under(<<m[i]>>, l[i])]
    BY <2>2, Zenon
  <2>5. [k \in 1..n |-> Under(Append(p, k), listing[t.body[k]])] = [i \in 1..n |-> Under(Append(p, m[i]), l[i])]
    BY <2>2, Zenon
  <2>6. Under(p, FlattenSeq([i \in 1..n |-> Under(<<m[i]>>, l[i])]))
          = FlattenSeq([i \in 1..n |-> Under(Append(p, m[i]), l[i])])
    BY <1>1, <2>1, <2>2
  <2> QED BY <2>3, <2>4, <2>5, <2>6, Zenon DEF n
<1>4. ASSUME t.kind = "array"
      PROVE  Under(p, listing[t]) =
               <<[path |-> Append(p, SIZE), kind |-> "array"]>>
               \o FlattenSeq([i \in 1..Elements(t) |-> Under(Append(p, i - 1), listing[t.base])])
  <2> DEFINE n == Elements(t)
             l == [k \in 1..n |-> listing[t.base]]
             m == [k \in 1..n |-> k - 1]
             x == [path |-> <<SIZE>>, kind |-> "array"]
             v == [i \in 1..n |-> Under(<<i - 1>>, listing[t.base])]
  <2>1. n \in Nat /\ t.base \in Parts
    BY <1>4, PartFields
  <2>2. \A i \in 1..n : l[i] \in Seq(Entry) /\ m[i] \in Int /\ l[i] = listing[t.base] /\ m[i] = i - 1
    BY <2>1, ListingType
  <2>3. listing[t] = <<x>> \o FlattenSeq(v)
    BY <1>2, <1>4 DEF Listed
  <2>4. x \in Entry
    BY <1>0, EntryFields DEF SIZE
  <2> HIDE DEF l, m, n
  <2>5. v = [i \in 1..n |-> Under(<<m[i]>>, l[i])]
    BY <2>2, Zenon
  <2> HIDE DEF v, x
  <2>6. [k \in 1..n |-> Under(Append(p, k - 1), listing[t.base])] = [i \in 1..n |-> Under(Append(p, m[i]), l[i])]
    BY <2>2, Zenon
  <2>7. /\ v \in Seq(Seq(Entry))
        /\ Under(p, FlattenSeq(v)) = FlattenSeq([i \in 1..n |-> Under(Append(p, m[i]), l[i])])
    <3>1. \A i \in 1..n : l[i] \in Seq(Entry) /\ m[i] \in Int
      BY <2>2
    <3>2. /\ [i \in 1..n |-> Under(<<m[i]>>, l[i])] \in Seq(Seq(Entry))
          /\ Under(p, FlattenSeq([i \in 1..n |-> Under(<<m[i]>>, l[i])]))
               = FlattenSeq([i \in 1..n |-> Under(Append(p, m[i]), l[i])])
      BY <1>1, <2>1, <3>1
    <3> QED BY <2>5, <3>2, Zenon
  <2>8. Under(p, <<x>>) = <<[path |-> Append(p, SIZE), kind |-> "array"]>>
    <3>1. Under(p, <<x>>) = <<[path |-> p \o <<SIZE>>, kind |-> "array"]>>
      <4>1. x.path = <<SIZE>> /\ x.kind = "array"
        BY DEF x
      <4> QED BY <2>4, <4>1, UnderOne
    <3>2. p \o <<SIZE>> = Append(p, SIZE)
      BY <1>0 DEF SIZE
    <3> QED BY <3>1, <3>2
  <2>9. <<x>> \in Seq(Entry) /\ FlattenSeq(v) \in Seq(Entry)
    BY <2>4, <2>7, FlattenType
  <2>10. Under(p, <<x>> \o FlattenSeq(v)) = Under(p, <<x>>) \o Under(p, FlattenSeq(v))
    BY <2>9, UnderConcat
  <2> QED BY <2>3, <2>6, <2>7, <2>8, <2>10, Zenon DEF n
<1>5. ASSUME t.kind \in Scalars PROVE Under(p, listing[t]) = <<[path |-> p, kind |-> t.kind]>>
  <2>1. listing[t] = <<[path |-> <<>>, kind |-> t.kind]>>
    BY <1>2, <1>5, PartFields DEF Listed
  <2>2. p \o <<>> = p
    BY Words DEF Path
  <2>3. Under(p, <<[path |-> <<>>, kind |-> t.kind]>>) = <<[path |-> p \o <<>>, kind |-> t.kind]>>
    <3> DEFINE x == [path |-> <<>>, kind |-> t.kind]
    <3>1. <<>> \in Path
      BY DEF Path
    <3>2. x \in Entry /\ x.path = <<>> /\ x.kind = t.kind
      BY <1>5, <3>1, EntryFields
    <3> HIDE DEF x
    <3>3. Under(p, <<x>>) = <<[path |-> p \o <<>>, kind |-> t.kind]>>
      BY <3>2, UnderOne
    <3> QED BY <3>3 DEF x
  <2> QED BY <2>1, <2>2, <2>3
<1> QED BY <1>3, <1>4, <1>5

----------------------------------------------------------------------------
(* The columns of a row from a place on: those of the types that are due,  *)
(* each under its name.                                                    *)
Covers(ns, ws) == FlattenSeq([i \in 1..Len(ws) |-> Under(ns[i], listing[ws[i]])])

(* What the names and types of two stacks cover is a list of columns. *)
LEMMA CoversParts ==
  ASSUME NEW ns \in Seq(Path), NEW ws \in Stacks, Len(ns) = Len(ws)
  PROVE  /\ [i \in 1..Len(ws) |-> Under(ns[i], listing[ws[i]])] \in Seq(Seq(Entry))
         /\ Covers(ns, ws) \in Seq(Entry)
<1> DEFINE W == Seq(Entry)
           v == [i \in 1..Len(ws) |-> Under(ns[i], listing[ws[i]])]
<1>1. Len(ws) \in Nat /\ \A i \in 1..Len(ws) : ns[i] \in Path /\ ws[i] \in Parts
  BY DEF Stacks
<1>2. \A i \in 1..Len(ws) : Under(ns[i], listing[ws[i]]) \in Seq(Entry)
  BY <1>1, ListingType, UnderFields
<1> HIDE DEF W
<1>3. v \in [1..Len(ws) -> W]
  BY <1>2 DEF W
<1> HIDE DEF v
<1>4. v \in Seq(W)
  BY <1>1, <1>3
<1>5. FlattenSeq(v) \in Seq(Entry)
  BY <1>4, FlattenType DEF W
<1> QED BY <1>4, <1>5 DEF Covers, W, v

LEMMA Joined ==
  ASSUME NEW E, NEW v \in Seq(E), NEW w \in Seq(E), NEW u \in Seq(E), Len(u) = Len(v) + Len(w),
         \A i \in 1..Len(v) : u[i] = v[i],
         \A i \in (Len(v) + 1)..(Len(v) + Len(w)) : u[i] = w[i - Len(v)]
  PROVE  u = v \o w
<1>1. /\ v \o w \in Seq(E) /\ Len(v \o w) = Len(v) + Len(w) /\ Len(v) \in Nat /\ Len(w) \in Nat
      /\ \A i \in 1..Len(v) : (v \o w)[i] = v[i]
      /\ \A i \in (Len(v) + 1)..(Len(v) + Len(w)) : (v \o w)[i] = w[i - Len(v)]
  BY ConcatProperties
<1>2. ASSUME NEW i \in 1..Len(u) PROVE u[i] = (v \o w)[i]
  <2>1. i \in 1..Len(v) \/ i \in (Len(v) + 1)..(Len(v) + Len(w))
    BY <1>1
  <2> QED BY <1>1, <2>1
<1> DEFINE z == v \o w
<1> HIDE DEF z
<1>3. z \in Seq(E) /\ Len(z) = Len(u) /\ \A i \in 1..Len(u) : u[i] = z[i]
  BY <1>1, <1>2 DEF z
<1>4. u = z
  BY <1>3
<1> QED BY <1>4 DEF z

LEMMA JoinedColumns ==
  \A v, w, u \in Seq(Seq(Entry)) :
    /\ Len(u) = Len(v) + Len(w)
    /\ \A i \in 1..Len(v) : u[i] = v[i]
    /\ \A i \in (Len(v) + 1)..(Len(v) + Len(w)) : u[i] = w[i - Len(v)]
    => u = v \o w
<1> DEFINE W == Seq(Entry)
<1> HIDE DEF W
<1>1. \A v, w, u \in Seq(W) :
        /\ Len(u) = Len(v) + Len(w)
        /\ \A i \in 1..Len(v) : u[i] = v[i]
        /\ \A i \in (Len(v) + 1)..(Len(v) + Len(w)) : u[i] = w[i - Len(v)]
        => u = v \o w
  BY Joined
<1> QED BY <1>1 DEF W

(* Stacks behind one another cover what they cover, one behind the other. *)
LEMMA CoversConcat ==
  \A a, b \in Seq(Path), s, r \in Stacks : Len(a) = Len(s) /\ Len(b) = Len(r) =>
    /\ a \o b \in Seq(Path) /\ s \o r \in Stacks /\ Len(a \o b) = Len(s \o r)
    /\ Covers(a \o b, s \o r) = Covers(a, s) \o Covers(b, r)
<1> SUFFICES ASSUME NEW a \in Seq(Path), NEW b \in Seq(Path), NEW s \in Stacks, NEW r \in Stacks,
                    Len(a) = Len(s), Len(b) = Len(r)
             PROVE  /\ a \o b \in Seq(Path) /\ s \o r \in Stacks /\ Len(a \o b) = Len(s \o r)
                    /\ Covers(a \o b, s \o r) = Covers(a, s) \o Covers(b, r)
  BY SMTT(60)
<1> DEFINE C(ns, ws) == [i \in 1..Len(ws) |-> Under(ns[i], listing[ws[i]])]
           m == Len(s)
           n == Len(r)
           p == a \o b
           t == s \o r
<1>1. /\ m \in Nat /\ n \in Nat
      /\ p \in Seq(Path) /\ Len(p) = m + n
      /\ \A i \in 1..m : p[i] = a[i]
      /\ \A i \in (m + 1)..(m + n) : p[i] = b[i - m]
  <2>1. m \in Nat /\ n \in Nat
    BY StackFields
  <2>2. /\ p \in Seq(Path) /\ Len(p) = Len(a) + Len(b)
        /\ \A i \in 1..Len(a) : p[i] = a[i]
        /\ \A i \in (Len(a) + 1)..(Len(a) + Len(b)) : p[i] = b[i - Len(a)]
    <3>1. \A v, w \in Seq(Path) :
            /\ v \o w \in Seq(Path) /\ Len(v \o w) = Len(v) + Len(w)
            /\ \A i \in 1..Len(v) : (v \o w)[i] = v[i]
            /\ \A i \in (Len(v) + 1)..(Len(v) + Len(w)) : (v \o w)[i] = w[i - Len(v)]
      <4> HIDE DEF C, t, p, m, n
      <4> QED BY ConcatProperties
    <3> HIDE DEF C, t, m, n
    <3> QED BY <3>1, Zenon
  <2> HIDE DEF p
  <2> QED BY <2>1, <2>2
<1>2. /\ t \in Stacks /\ Len(t) = m + n
      /\ \A i \in 1..m : t[i] = s[i]
      /\ \A i \in (m + 1)..(m + n) : t[i] = r[i - m]
  BY ConcatProperties DEF Stacks
<1> HIDE DEF p, t
<1>3. /\ C(a, s) \in Seq(Seq(Entry)) /\ C(b, r) \in Seq(Seq(Entry)) /\ C(p, t) \in Seq(Seq(Entry))
  BY <1>1, <1>2, CoversParts, ZenonT(60)
<1>4. Len(C(a, s)) = m /\ Len(C(b, r)) = n /\ Len(C(p, t)) = m + n
  BY <1>1, <1>2
<1>5. C(p, t) = C(a, s) \o C(b, r)
  <2>1. \A i \in 1..m : C(p, t)[i] = C(a, s)[i]
    BY <1>1, <1>2
  <2>2. \A i \in (m + 1)..(m + n) : C(p, t)[i] = C(b, r)[i - m]
    <3> SUFFICES ASSUME NEW i \in (m + 1)..(m + n) PROVE C(p, t)[i] = C(b, r)[i - m]
      OBVIOUS
    <3>1. i \in 1..Len(t) /\ i - m \in 1..n /\ p[i] = b[i - m] /\ t[i] = r[i - m]
      BY <1>1, <1>2
    <3> QED BY <3>1
  <2> HIDE DEF C, m, n
  <2> QED BY <1>3, <1>4, <2>1, <2>2, JoinedColumns, Zenon
<1>6. Covers(p, t) = FlattenSeq(C(p, t)) /\ Covers(a, s) = FlattenSeq(C(a, s)) /\ Covers(b, r) = FlattenSeq(C(b, r))
  BY DEF Covers
<1> HIDE DEF C
<1>7. FlattenSeq(C(a, s) \o C(b, r)) = FlattenSeq(C(a, s)) \o FlattenSeq(C(b, r))
  BY <1>3, FlattenConcat
<1>8. Covers(p, t) = Covers(a, s) \o Covers(b, r)
  BY <1>5, <1>6, <1>7, Zenon
<1> QED BY <1>1, <1>2, <1>8 DEF p, t

LEMMA CoversSplit ==
  ASSUME NEW a \in Seq(Path), NEW b \in Seq(Path), NEW s \in Stacks, NEW r \in Stacks,
         Len(a) = Len(s), Len(b) = Len(r)
  PROVE  Covers(a \o b, s \o r) = Covers(a, s) \o Covers(b, r)
BY CoversConcat, SMTT(60)

LEMMA CoversOne ==
  ASSUME NEW p \in Path, NEW t \in Parts
  PROVE  Covers(<<p>>, <<t>>) = Under(p, listing[t])
<1>1. Under(p, listing[t]) \in Seq(Entry)
  BY ListingType, UnderFields
<1>2. [i \in 1..Len(<<t>>) |-> Under(<<p>>[i], listing[<<t>>[i]])] = <<Under(p, listing[t])>>
  <2> DEFINE F(i) == Under(<<p>>[i], listing[<<t>>[i]])
             u == Under(p, listing[t])
  <2>1. Len(<<t>>) = 1 /\ F(1) = u
    OBVIOUS
  <2> HIDE DEF F, u
  <2>2. [i \in 1..1 |-> F(i)] = <<u>>
    BY <2>1
  <2>3. [i \in 1..Len(<<t>>) |-> F(i)] = <<u>>
    BY <2>1, <2>2, Zenon
  <2> QED BY <2>3 DEF F, u
<1>3. FlattenSeq(<<Under(p, listing[t])>>) = Under(p, listing[t])
  BY <1>1, FlattenType
<1> QED BY <1>2, <1>3, Zenon DEF Covers

LEMMA CoversNone == \A ns : Covers(ns, <<>>) = <<>>
<1> SUFFICES ASSUME NEW ns PROVE Covers(ns, <<>>) = <<>>
  OBVIOUS
<1>1. [i \in 1..Len(<<>>) |-> Under(ns[i], listing[<<>>[i]])] = <<>>
  OBVIOUS
<1>2. FlattenSeq(<<>>) = <<>>
  BY FlattenType
<1> QED BY <1>1, <1>2, Zenon DEF Covers

(* The columns of a type under its name are those of its members, or its   *)
(* size and those of its elements.                                         *)
LEMMA CoversFront ==
  ASSUME NEW ns \in Seq(Path), NEW ws \in Stacks, Len(ns) = Len(ws), ws # <<>>
  PROVE  LET p    == Head(ns)
             t    == Head(ws)
             rest == Covers(Tail(ns), Tail(ws))
         IN  /\ p \in Path /\ t \in Parts /\ rest \in Seq(Entry)
             /\ Tail(ns) \in Seq(Path) /\ Tail(ws) \in Stacks /\ Len(Tail(ns)) = Len(Tail(ws))
             /\ t.kind \in Scalars => Covers(ns, ws) = <<[path |-> p, kind |-> t.kind]>> \o rest
             /\ t.kind = "record" =>
                  Covers(ns, ws) = Covers([k \in 1..Len(t.body) |-> Append(p, k)], t.body) \o rest
             /\ t.kind = "array" =>
                  Covers(ns, ws) =
                    <<[path |-> Append(p, SIZE), kind |-> "array"]>>
                    \o (Covers([i \in 1..Elements(t) |-> Append(p, i - 1)], [i \in 1..Elements(t) |-> t.base])
                        \o rest)
<1> DEFINE p    == Head(ns)
           t    == Head(ws)
           rest == Covers(Tail(ns), Tail(ws))
<1>1. /\ p \in Path /\ Tail(ns) \in Seq(Path) /\ ns = <<p>> \o Tail(ns) /\ <<p>> \in Seq(Path) /\ Len(<<p>>) = 1
      /\ t \in Parts /\ Tail(ws) \in Stacks /\ ws = <<t>> \o Tail(ws) /\ <<t>> \in Stacks /\ Len(<<t>>) = 1
      /\ Len(Tail(ns)) = Len(Tail(ws)) /\ <<p>>[1] = p /\ <<t>>[1] = t
  BY DEF Stacks
<1>2. rest \in Seq(Entry)
  BY <1>1, CoversParts
<1> HIDE DEF p, t, rest
<1>3. Covers(ns, ws) = Covers(<<p>>, <<t>>) \o rest
  <2>1. Covers(<<p>> \o Tail(ns), <<t>> \o Tail(ws)) = Covers(<<p>>, <<t>>) \o Covers(Tail(ns), Tail(ws))
    <3> DEFINE n1 == <<p>>
               n2 == Tail(ns)
               w1 == <<t>>
               w2 == Tail(ws)
    <3>1. n1 \in Seq(Path) /\ n2 \in Seq(Path) /\ w1 \in Stacks /\ w2 \in Stacks
      BY <1>1
    <3>2. Len(n1) = Len(w1) /\ Len(n2) = Len(w2)
      BY <1>1
    <3> HIDE DEF n1, n2, w1, w2
    <3>3. Covers(n1 \o n2, w1 \o w2) = Covers(n1, w1) \o Covers(n2, w2)
      BY <3>1, <3>2, CoversSplit, ZenonT(60)
    <3> QED BY <3>3 DEF n1, n2, w1, w2
  <2> QED BY <1>1, <2>1, Zenon DEF rest
<1>4. Covers(<<p>>, <<t>>) = Under(p, listing[t])
  BY <1>1, CoversOne
<1>5. ASSUME t.kind \in Scalars PROVE Covers(ns, ws) = <<[path |-> p, kind |-> t.kind]>> \o rest
  BY <1>1, <1>3, <1>4, <1>5, ColumnsOf
<1>6. ASSUME t.kind = "record"
      PROVE  Covers(ns, ws) = Covers([k \in 1..Len(t.body) |-> Append(p, k)], t.body) \o rest
  <2> DEFINE n == Len(t.body)
             m == [k \in 1..n |-> Append(p, k)]
  <2>1. \A k \in 1..n : m[k] = Append(p, k)
    OBVIOUS
  <2>2. Covers(m, t.body) = FlattenSeq([k \in 1..n |-> Under(m[k], listing[t.body[k]])])
    BY DEF Covers
  <2> HIDE DEF m
  <2>3. [k \in 1..n |-> Under(m[k], listing[t.body[k]])] = [k \in 1..n |-> Under(Append(p, k), listing[t.body[k]])]
    BY <2>1, Zenon
  <2>4. Under(p, listing[t]) = FlattenSeq([k \in 1..n |-> Under(Append(p, k), listing[t.body[k]])])
    BY <1>1, <1>6, ColumnsOf
  <2>5. Covers(ns, ws) = Covers(m, t.body) \o rest
    BY <1>3, <1>4, <2>2, <2>3, <2>4, Zenon
  <2> QED BY <2>5 DEF m
<1>7. ASSUME t.kind = "array"
      PROVE  Covers(ns, ws) =
               <<[path |-> Append(p, SIZE), kind |-> "array"]>>
               \o (Covers([i \in 1..Elements(t) |-> Append(p, i - 1)], [i \in 1..Elements(t) |-> t.base]) \o rest)
  <2> DEFINE n == Elements(t)
             m == [i \in 1..n |-> Append(p, i - 1)]
             b == [i \in 1..n |-> t.base]
             x == [path |-> Append(p, SIZE), kind |-> "array"]
  <2>1. n \in Nat /\ t.base \in Parts
    BY <1>1, <1>7, PartFields
  <2>2. /\ b \in Stacks /\ Len(b) = n /\ \A i \in 1..n : b[i] = t.base
    BY <2>1 DEF Stacks
  <2>3. \A i \in 1..n : Append(p, i - 1) \in Path
    BY <1>1, <2>1 DEF Path
  <2>4. m \in Seq(Path) /\ Len(m) = n /\ \A i \in 1..n : m[i] = Append(p, i - 1)
    <3> HIDE DEF n, x, b
    <3>1. m \in [1..n -> Path] /\ \A i \in 1..n : m[i] = Append(p, i - 1)
      BY <2>3
    <3> HIDE DEF m
    <3> QED BY <2>1, <3>1
  <2>5. x \in Entry
    <3>1. Append(p, SIZE) \in Path
      BY <1>1 DEF Path, SIZE
    <3> QED BY <3>1, EntryFields
  <2> HIDE DEF m, b, x
  <2>6. [i \in 1..Len(b) |-> Under(m[i], listing[b[i]])] = [i \in 1..n |-> Under(Append(p, i - 1), listing[t.base])]
    BY <2>2, <2>4, Zenon
  <2>7. Under(p, listing[t]) = <<x>> \o FlattenSeq([i \in 1..n |-> Under(Append(p, i - 1), listing[t.base])])
    BY <1>1, <1>7, ColumnsOf DEF x
  <2>8. Under(p, listing[t]) = <<x>> \o Covers(m, b)
    BY <2>6, <2>7, Zenon DEF Covers
  <2>9. Covers(m, b) \in Seq(Entry) /\ <<x>> \in Seq(Entry)
    <3>1. Covers(m, b) \in Seq(Entry)
      BY <2>2, <2>4, CoversParts
    <3>2. <<x>> \in Seq(Entry)
      BY <2>5
    <3> QED BY <3>1, <3>2
  <2>10. \A u, v, w \in Seq(Entry) : (u \o v) \o w = u \o (v \o w)
    BY Words
  <2>11. (<<x>> \o Covers(m, b)) \o rest = <<x>> \o (Covers(m, b) \o rest)
    BY <1>2, <2>9, <2>10, Zenon
  <2>12. Covers(ns, ws) = <<x>> \o (Covers(m, b) \o rest)
    BY <1>3, <1>4, <2>8, <2>11, Zenon
  <2> QED BY <2>12 DEF m, b, x
<1> QED BY <1>1, <1>2, <1>5, <1>6, <1>7 DEF p, t, rest

----------------------------------------------------------------------------
(* A row on its way.  The names lead to the types that are due, and the    *)
(* columns to what was written for them; every column that was read comes  *)
(* before the names, and these come one after the other; and as long as    *)
(* the sizes are the listed ones, the columns that were read and those     *)
(* still to come are the listing.                                          *)
InRow == mode = "csv" \/ cells # <<>>

Done == [k \in DOMAIN cells |-> [path |-> cells[k], kind |-> out[k].kind]]

Leads(t, ns, ws) == Len(ns) = Len(ws) /\ \A i \in 1..Len(ws) : TypeAt(t, ns[i]) = ws[i]

Apart(ns) == \A i, j \in 1..Len(ns) : i < j => Precedes(ns[i], ns[j])

Placed ==
  /\ type \in Parts /\ names \in Seq(Path) /\ cells \in Seq(Path)
  /\ Leads(type, names, wstack)
  /\ Len(cells) = Len(out)
  /\ \A k \in 1..Len(cells) : TypeAt(type, cells[k]).kind = out[k].kind

Ordered ==
  /\ \A k \in 2..Len(cells) : Precedes(cells[k - 1], cells[k])
  /\ Apart(names)
  /\ cells # <<>> => \A i \in 1..Len(names) : Precedes(cells[Len(cells)], names[i])

Complete == (\A k \in DOMAIN out : AsListed(k)) => Done \o Covers(names, wstack) = listing[type]

Row ==
  /\ cells # <<>> => mode \in {"csv", "dump", "failed"}
  /\ cells # <<>> /\ mode = "dump" => wstack = <<>>
  /\ InRow => Placed /\ Ordered /\ Complete

----------------------------------------------------------------------------
(* One turn: the name in front gives way to n names that continue it.      *)
Spliced(ns, n, m) == [i \in 1..n |-> Append(Head(ns), m[i])] \o Tail(ns)

LEMMA PathsJoin ==
  \A v, w \in Seq(Path) :
    /\ v \o w \in Seq(Path) /\ Len(v \o w) = Len(v) + Len(w)
    /\ \A i \in 1..Len(v) : (v \o w)[i] = v[i]
    /\ \A i \in (Len(v) + 1)..(Len(v) + Len(w)) : (v \o w)[i] = w[i - Len(v)]
BY ConcatProperties

(* The children of a name in its place: what stands where. *)
LEMMA SplicedIs ==
  ASSUME NEW ns \in Seq(Path), ns # <<>>, NEW n \in Nat, NEW m \in [1..n -> Int]
  PROVE  /\ Head(ns) \in Path /\ Len(ns) \in Nat \ {0} /\ Head(ns) = ns[1]
         /\ [i \in 1..n |-> Append(Head(ns), m[i])] \in Seq(Path)
         /\ Len([i \in 1..n |-> Append(Head(ns), m[i])]) = n
         /\ Spliced(ns, n, m) \in Seq(Path)
         /\ Len(Spliced(ns, n, m)) = n + (Len(ns) - 1)
         /\ \A i \in 1..n : Spliced(ns, n, m)[i] = Append(Head(ns), m[i])
         /\ \A i \in (n + 1)..(n + (Len(ns) - 1)) :
              i - n + 1 \in 2..Len(ns) /\ Spliced(ns, n, m)[i] = ns[i - n + 1]
<1> DEFINE p == Head(ns)
           ps == [i \in 1..n |-> Append(p, m[i])]
<1>1. /\ p \in Path /\ Len(ns) \in Nat \ {0} /\ p = ns[1]
      /\ Tail(ns) \in Seq(Path) /\ Len(Tail(ns)) = Len(ns) - 1
      /\ \A j \in 1..(Len(ns) - 1) : Tail(ns)[j] = ns[j + 1]
  BY HeadTailProperties
<1> HIDE DEF p
<1>2. \A i \in 1..n : Append(p, m[i]) \in Path
  BY <1>1 DEF Path
<1>3. ps \in [1..n -> Path] /\ \A i \in 1..n : ps[i] = Append(p, m[i])
  BY <1>2
<1> HIDE DEF ps
<1>4. ps \in Seq(Path) /\ Len(ps) = n
  BY <1>3
<1> DEFINE z == ps \o Tail(ns)
<1>5. /\ z \in Seq(Path) /\ Len(z) = Len(ps) + Len(Tail(ns))
      /\ \A i \in 1..Len(ps) : z[i] = ps[i]
      /\ \A i \in (Len(ps) + 1)..(Len(ps) + Len(Tail(ns))) : z[i] = Tail(ns)[i - Len(ps)]
  BY <1>1, <1>4, PathsJoin, Zenon
<1> HIDE DEF z
<1>6. Spliced(ns, n, m) = z
  BY DEF Spliced, z, ps, p
<1>7. /\ z \in Seq(Path) /\ Len(z) = n + (Len(ns) - 1)
      /\ \A i \in 1..n : z[i] = Append(p, m[i])
  BY <1>1, <1>3, <1>4, <1>5
<1>8. ASSUME NEW i \in (n + 1)..(n + (Len(ns) - 1))
      PROVE  i - n + 1 \in 2..Len(ns) /\ z[i] = ns[i - n + 1]
  <2>1. i - n \in 1..(Len(ns) - 1)
    BY <1>1
  <2>2. z[i] = Tail(ns)[i - n]
    BY <1>1, <1>4, <1>5
  <2> QED BY <1>1, <2>1, <2>2
<1> QED BY <1>1, <1>4, <1>6, <1>7, <1>8 DEF ps, p

(* They are in order if the children are: they differ behind it only. *)
LEMMA SplicedApart ==
  ASSUME NEW ns \in Seq(Path), ns # <<>>, NEW n \in Nat, NEW m \in [1..n -> Int],
         \A i, j \in 1..n : i < j => m[i] < m[j], Apart(ns)
  PROVE  /\ Apart(Spliced(ns, n, m))
         /\ \A q \in Path : (\A i \in 1..Len(ns) : Precedes(q, ns[i]))
                              => \A i \in 1..Len(Spliced(ns, n, m)) : Precedes(q, Spliced(ns, n, m)[i])
         /\ \A k \in Int : (\A i \in 1..n : k < m[i]) =>
              \A i \in 1..Len(Spliced(ns, n, m)) : Precedes(Append(Head(ns), k), Spliced(ns, n, m)[i])
<1> DEFINE z == Spliced(ns, n, m)
           p == Head(ns)
<1>1. /\ p \in Path /\ Len(ns) \in Nat \ {0} /\ p = ns[1]
      /\ z \in Seq(Path) /\ Len(z) = n + (Len(ns) - 1)
      /\ \A i \in 1..n : z[i] = Append(p, m[i])
      /\ \A i \in (n + 1)..(n + (Len(ns) - 1)) : i - n + 1 \in 2..Len(ns) /\ z[i] = ns[i - n + 1]
  BY SplicedIs, ZenonT(60)
<1> HIDE DEF z, p
<1>2. \A i \in 1..Len(ns) : ns[i] \in Path
  OBVIOUS
<1>3. \A i \in 1..Len(z) : i \in 1..n \/ i \in (n + 1)..(n + (Len(ns) - 1))
  BY <1>1
<1>4. \A j \in 2..Len(ns) : Precedes(p, ns[j]) /\ j \in 1..Len(ns)
  <2> SUFFICES ASSUME NEW j \in 2..Len(ns) PROVE Precedes(p, ns[j]) /\ j \in 1..Len(ns)
    OBVIOUS
  <2>1. 1 \in 1..Len(ns) /\ j \in 1..Len(ns) /\ 1 < j
    BY <1>1
  <2>2. Precedes(ns[1], ns[j])
    BY <2>1 DEF Apart
  <2> QED BY <1>1, <2>1, <2>2
<1>5. \A j \in 2..Len(ns), k \in Int : Precedes(Append(p, k), ns[j])
  BY <1>1, <1>2, <1>4, PrecedesSteps
<1>6. Apart(z)
  <2> SUFFICES ASSUME NEW i \in 1..Len(z), NEW j \in 1..Len(z), i < j PROVE Precedes(z[i], z[j])
    BY DEF Apart
  <2>1. CASE i \in 1..n /\ j \in 1..n
    <3>1. m[i] \in Int /\ m[j] \in Int /\ m[i] < m[j]
      BY <2>1
    <3> QED BY <1>1, <2>1, <3>1, PrecedesSteps
  <2>2. CASE i \in 1..n /\ j \in (n + 1)..(n + (Len(ns) - 1))
    <3>1. m[i] \in Int
      BY <2>2
    <3> QED BY <1>1, <1>5, <2>2, <3>1
  <2>3. CASE i \in (n + 1)..(n + (Len(ns) - 1)) /\ j \in (n + 1)..(n + (Len(ns) - 1))
    <3>1. i - n + 1 \in 1..Len(ns) /\ j - n + 1 \in 1..Len(ns) /\ i - n + 1 < j - n + 1
      BY <1>1, <2>3
    <3>2. Precedes(ns[i - n + 1], ns[j - n + 1])
      BY <3>1 DEF Apart
    <3> QED BY <1>1, <2>3, <3>2
  <2>4. ~(i \in (n + 1)..(n + (Len(ns) - 1)) /\ j \in 1..n)
    BY <1>1
  <2> QED BY <1>3, <2>1, <2>2, <2>3, <2>4
<1>7. ASSUME NEW q \in Path, \A i \in 1..Len(ns) : Precedes(q, ns[i]), NEW i \in 1..Len(z)
      PROVE  Precedes(q, z[i])
  <2>1. CASE i \in 1..n
    <3>1. m[i] \in Int /\ Precedes(q, p)
      BY <1>1, <1>7, <2>1
    <3> QED BY <1>1, <2>1, <3>1, PrecedesSteps, ZenonT(60)
  <2>2. CASE i \in (n + 1)..(n + (Len(ns) - 1))
    <3>1. i - n + 1 \in 1..Len(ns)
      BY <1>1, <2>2
    <3> QED BY <1>1, <1>7, <2>2, <3>1
  <2> QED BY <1>3, <2>1, <2>2
<1>8. ASSUME NEW k \in Int, \A i \in 1..n : k < m[i], NEW i \in 1..Len(z)
      PROVE  Precedes(Append(p, k), z[i])
  <2>1. CASE i \in 1..n
    <3>1. m[i] \in Int /\ k < m[i]
      BY <1>8, <2>1
    <3>2. Precedes(Append(p, k), Append(p, m[i]))
      BY <1>1, <3>1, PrecedesSteps
    <3> QED BY <1>1, <2>1, <3>2
  <2>2. CASE i \in (n + 1)..(n + (Len(ns) - 1))
    <3>1. i - n + 1 \in 2..Len(ns) /\ z[i] = ns[i - n + 1]
      BY <1>1, <2>2
    <3>2. Precedes(Append(p, k), ns[i - n + 1])
      BY <1>5, <3>1
    <3> QED BY <3>1, <3>2
  <2> QED BY <1>3, <2>1, <2>2
<1> QED BY <1>6, <1>7, <1>8 DEF z, p

(* They lead to the types that are put in the place of the front. *)
LEMMA SplicedLeads ==
  ASSUME NEW ns \in Seq(Path), ns # <<>>, NEW n \in Nat, NEW m \in [1..n -> Int]
  PROVE  \A t : \A ws, ts \in Stacks :
           /\ Leads(t, ns, ws) /\ Len(ts) = n
           /\ \A i \in 1..n : Within(Head(ws), m[i]) = ts[i]
           => /\ Leads(t, Spliced(ns, n, m), ts \o Tail(ws))
              /\ \A k \in Int : TypeAt(t, Append(Head(ns), k)) = Within(Head(ws), k)
<1> DEFINE z == Spliced(ns, n, m)
           p == Head(ns)
<1>1. /\ p \in Path /\ Len(ns) \in Nat \ {0} /\ p = ns[1]
      /\ z \in Seq(Path) /\ Len(z) = n + (Len(ns) - 1)
      /\ \A i \in 1..n : z[i] = Append(p, m[i])
      /\ \A i \in (n + 1)..(n + (Len(ns) - 1)) : i - n + 1 \in 2..Len(ns) /\ z[i] = ns[i - n + 1]
  BY SplicedIs, ZenonT(60)
<1> HIDE DEF z, p
<1> SUFFICES ASSUME NEW t, NEW ws \in Stacks, NEW ts \in Stacks, Leads(t, ns, ws), Len(ts) = n,
                    \A i \in 1..n : Within(Head(ws), m[i]) = ts[i]
             PROVE  /\ Leads(t, z, ts \o Tail(ws))
                    /\ \A k \in Int : TypeAt(t, Append(p, k)) = Within(Head(ws), k)
  BY DEF z, p
<1> DEFINE w == ts \o Tail(ws)
<1>2. /\ Len(ws) = Len(ns) /\ ws # <<>> /\ Head(ws) = ws[1]
      /\ Tail(ws) \in Stacks /\ Len(Tail(ws)) = Len(ws) - 1
      /\ \A j \in 1..(Len(ws) - 1) : Tail(ws)[j] = ws[j + 1]
  BY <1>1, HeadTailProperties DEF Leads, Stacks
<1>3. /\ w \in Stacks /\ Len(w) = n + (Len(ns) - 1)
      /\ \A i \in 1..n : w[i] = ts[i]
      /\ \A i \in (n + 1)..(n + (Len(ns) - 1)) : w[i] = Tail(ws)[i - n]
  BY <1>1, <1>2, ConcatProperties DEF Stacks
<1> HIDE DEF w
<1>4. TypeAt(t, p) = Head(ws)
  BY <1>1, <1>2 DEF Leads
<1>5. \A k \in Int : TypeAt(t, Append(p, k)) = Within(Head(ws), k)
  <2>1. \A q \in Path, k \in Int : TypeAt(t, Append(q, k)) = Within(TypeAt(t, q), k)
    BY TypeAtSteps, Zenon
  <2> QED BY <1>1, <1>4, <2>1, Zenon
<1>6. ASSUME NEW i \in 1..Len(w) PROVE TypeAt(t, z[i]) = w[i]
  <2>1. CASE i \in 1..n
    <3>1. m[i] \in Int
      BY <2>1
    <3> QED BY <1>1, <1>3, <1>5, <2>1, <3>1, ZenonT(60)
  <2>2. CASE i \in (n + 1)..(n + (Len(ns) - 1))
    <3>1. i - n + 1 \in 1..Len(ws) /\ i - n \in 1..(Len(ws) - 1) /\ (i - n) + 1 = i - n + 1
      BY <1>1, <1>2, <2>2
    <3>2. w[i] = ws[i - n + 1]
      BY <1>2, <1>3, <2>2, <3>1
    <3> QED BY <1>1, <2>2, <3>1, <3>2 DEF Leads
  <2>3. i \in 1..n \/ i \in (n + 1)..(n + (Len(ns) - 1))
    BY <1>1, <1>3
  <2> QED BY <2>1, <2>2, <2>3
<1> QED BY <1>1, <1>3, <1>5, <1>6 DEF Leads, w

----------------------------------------------------------------------------
LEMMA ItemKinds == \A item \in Items : item.kind \in Scalars \cup {"array"}
BY DEF Items, Item, SizeItem

(* The columns that were read grow by one. *)
Reads1(c, item) ==
  /\ c \in Path /\ item \in Items /\ TypeAt(type, c).kind = item.kind
  /\ cells' = Append(cells, c) /\ out' = Append(out, item)

LEMMA LongerBy ==
  ASSUME Typed, Placed, type' = type, NEW c, NEW item, Reads1(c, item)
  PROVE  /\ cells' \in Seq(Path) /\ Len(cells) \in Nat /\ Len(cells') = Len(cells) + 1
         /\ Len(out') = Len(out) + 1 /\ Len(out) = Len(cells)
         /\ DOMAIN out = 1..Len(cells) /\ DOMAIN out' = 1..(Len(cells) + 1)
         /\ DOMAIN cells = 1..Len(cells) /\ DOMAIN cells' = 1..(Len(cells) + 1)
         /\ cells'[Len(cells) + 1] = c /\ out'[Len(cells) + 1] = item
         /\ \A k \in 1..Len(cells) : cells'[k] = cells[k] /\ out'[k] = out[k] /\ cells[k] \in Path /\ out[k] \in Items
<1>1. /\ cells \in Seq(Path) /\ out \in Seq(Items) /\ Len(cells) = Len(out) /\ c \in Path /\ item \in Items
      /\ cells' = Append(cells, c) /\ out' = Append(out, item)
  BY DEF Typed, TypeOK, Placed, Reads1
<1>2. \A E : \A s \in Seq(E), x \in E :
        /\ Append(s, x) \in Seq(E) /\ Len(s) \in Nat /\ Len(Append(s, x)) = Len(s) + 1
        /\ DOMAIN s = 1..Len(s) /\ DOMAIN Append(s, x) = 1..(Len(s) + 1)
        /\ Append(s, x)[Len(s) + 1] = x
        /\ \A k \in 1..Len(s) : Append(s, x)[k] = s[k] /\ s[k] \in E
  BY AppendProperties
<1>3. /\ Append(cells, c) \in Seq(Path) /\ Len(cells) \in Nat /\ Len(Append(cells, c)) = Len(cells) + 1
      /\ DOMAIN cells = 1..Len(cells) /\ DOMAIN Append(cells, c) = 1..(Len(cells) + 1)
      /\ Append(cells, c)[Len(cells) + 1] = c
      /\ \A k \in 1..Len(cells) : Append(cells, c)[k] = cells[k] /\ cells[k] \in Path
  BY <1>1, <1>2
<1>4. /\ Len(Append(out, item)) = Len(out) + 1
      /\ DOMAIN out = 1..Len(out) /\ DOMAIN Append(out, item) = 1..(Len(out) + 1)
      /\ Append(out, item)[Len(out) + 1] = item
      /\ \A k \in 1..Len(out) : Append(out, item)[k] = out[k] /\ out[k] \in Items
  BY <1>1, <1>2
<1> HIDE <1>2
<1> QED BY <1>1, <1>3, <1>4

(* How a turn of readCsv keeps the three parts of the invariant. *)
LEMMA PlacedStays ==
  ASSUME Typed, Placed, type' = type, names' \in Seq(Path), Leads(type, names', wstack'),
         UNCHANGED <<cells, out>> \/ \E c, item : Reads1(c, item)
  PROVE  Placed'
<1>1. CASE UNCHANGED <<cells, out>>
  BY <1>1 DEF Placed
<1>2. ASSUME NEW c, NEW item, Reads1(c, item) PROVE Placed'
  <2>1. /\ cells' \in Seq(Path) /\ Len(cells) \in Nat /\ Len(cells') = Len(cells) + 1
        /\ Len(out') = Len(out) + 1 /\ Len(out) = Len(cells)
        /\ cells'[Len(cells) + 1] = c /\ out'[Len(cells) + 1] = item
        /\ \A k \in 1..Len(cells) : cells'[k] = cells[k] /\ out'[k] = out[k]
    BY <1>2, LongerBy
  <2>2. ASSUME NEW k \in 1..Len(cells') PROVE TypeAt(type, cells'[k]).kind = out'[k].kind
    <3>1. k \in 1..Len(cells) \/ k = Len(cells) + 1
      BY <2>1
    <3> QED BY <1>2, <2>1, <3>1 DEF Placed, Reads1
  <2> QED BY <2>1, <2>2 DEF Placed
<1> QED BY <1>1, <1>2

LEMMA OrderedStays ==
  ASSUME Typed, Placed, Ordered, type' = type, Apart(names'),
         \/ /\ UNCHANGED <<cells, out>>
            /\ cells # <<>> => \A i \in 1..Len(names') : Precedes(cells[Len(cells)], names'[i])
         \/ \E c, item : /\ Reads1(c, item)
                         /\ cells # <<>> => Precedes(cells[Len(cells)], c)
                         /\ \A i \in 1..Len(names') : Precedes(c, names'[i])
  PROVE  Ordered'
<1>1. CASE /\ UNCHANGED <<cells, out>>
           /\ cells # <<>> => \A i \in 1..Len(names') : Precedes(cells[Len(cells)], names'[i])
  <2>1. Apart(names)' /\ cells' = cells
    BY <1>1 DEF Apart
  <2> QED BY <1>1, <2>1 DEF Ordered
<1>2. ASSUME NEW c, NEW item, Reads1(c, item),
             cells # <<>> => Precedes(cells[Len(cells)], c),
             \A i \in 1..Len(names') : Precedes(c, names'[i])
      PROVE  Ordered'
  <2>1. /\ cells' \in Seq(Path) /\ Len(cells) \in Nat /\ Len(cells') = Len(cells) + 1
        /\ cells'[Len(cells) + 1] = c
        /\ \A k \in 1..Len(cells) : cells'[k] = cells[k]
        /\ cells \in Seq(Path)
    BY <1>2, LongerBy DEF Placed
  <2>2. ASSUME NEW k \in 2..Len(cells') PROVE Precedes(cells'[k - 1], cells'[k])
    <3>1. CASE k \in 2..Len(cells)
      <4>1. k \in 1..Len(cells) /\ k - 1 \in 1..Len(cells)
        BY <2>1, <3>1
      <4> QED BY <2>1, <3>1, <4>1 DEF Ordered
    <3>2. CASE k = Len(cells) + 1
      <4>1. k - 1 = Len(cells) /\ Len(cells) \in 1..Len(cells) /\ cells # <<>>
        BY <2>1, <3>2
      <4> QED BY <1>2, <2>1, <3>2, <4>1
    <3>3. k \in 2..Len(cells) \/ k = Len(cells) + 1
      BY <2>1
    <3> QED BY <3>1, <3>2, <3>3
  <2>3. \A i \in 1..Len(names') : Precedes(cells'[Len(cells')], names'[i])
    BY <1>2, <2>1
  <2>4. Apart(names)'
    BY DEF Apart
  <2> QED BY <2>2, <2>3, <2>4 DEF Ordered
<1> QED BY <1>1, <1>2

LEMMA DoneColumns ==
  ASSUME NEW cs \in Seq(Path), NEW os \in Seq(Items), Len(cs) = Len(os), NEW d,
         d = [k \in DOMAIN cs |-> [path |-> cs[k], kind |-> os[k].kind]]
  PROVE  /\ d \in Seq(Entry) /\ Len(d) = Len(cs) /\ DOMAIN cs = 1..Len(cs)
         /\ \A k \in 1..Len(cs) : d[k] = [path |-> cs[k], kind |-> os[k].kind]
<1>1. /\ DOMAIN cs = 1..Len(cs) /\ Len(cs) \in Nat
      /\ \A k \in 1..Len(cs) : cs[k] \in Path /\ os[k] \in Items
  OBVIOUS
<1>2. \A k \in 1..Len(cs) : [path |-> cs[k], kind |-> os[k].kind] \in Entry
  BY <1>1, ItemKinds, EntryFields
<1>3. d = [k \in 1..Len(cs) |-> [path |-> cs[k], kind |-> os[k].kind]]
  BY <1>1
<1>4. d \in [1..Len(cs) -> Entry]
  BY <1>2, <1>3
<1>5. \A k \in 1..Len(cs) : d[k] = [path |-> cs[k], kind |-> os[k].kind]
  BY <1>3
<1> QED BY <1>1, <1>4, <1>5

LEMMA CompleteStays ==
  ASSUME Typed, Placed, Complete, type' = type, Placed', Typed', NEW c, NEW item, Reads1(c, item),
         Covers(names', wstack') \in Seq(Entry),
         (item.kind = "array" => item.size = Elements(TypeAt(type, c))) =>
           Covers(names, wstack) = <<[path |-> c, kind |-> item.kind]>> \o Covers(names', wstack')
  PROVE  Complete'
<1> SUFFICES ASSUME \A k \in DOMAIN out' : AsListed(k)'
             PROVE  Done' \o Covers(names', wstack') = listing[type]
  BY DEF Complete, Covers
<1> DEFINE x == [path |-> c, kind |-> item.kind]
           n == Len(cells)
           rest == Covers(names', wstack')
<1>1. /\ n \in Nat /\ Len(cells') = n + 1 /\ DOMAIN out = 1..n /\ DOMAIN out' = 1..(n + 1)
      /\ cells'[n + 1] = c /\ out'[n + 1] = item
      /\ \A k \in 1..n : cells'[k] = cells[k] /\ out'[k] = out[k] /\ out[k] \in Items
  BY LongerBy
<1>2. \A k \in 1..(n + 1) : out'[k].kind = "array" => out'[k].size = Elements(TypeAt(type, cells'[k]))
  BY <1>1 DEF AsListed
<1>3. \A k \in DOMAIN out : AsListed(k)
  BY <1>1, <1>2 DEF AsListed
<1>4. item.kind = "array" => item.size = Elements(TypeAt(type, c))
  BY <1>1, <1>2
<1>5. x \in Entry
  BY ItemKinds, EntryFields DEF Reads1
<1>6. /\ Done \in Seq(Entry) /\ Len(Done) = n
      /\ \A k \in 1..n : Done[k] = [path |-> cells[k], kind |-> out[k].kind]
  <2>1. cells \in Seq(Path) /\ out \in Seq(Items) /\ Len(cells) = Len(out)
    BY DEF Typed, TypeOK, Placed
  <2>2. Done = [k \in DOMAIN cells |-> [path |-> cells[k], kind |-> out[k].kind]]
    BY DEF Done
  <2> QED BY <2>1, <2>2, DoneColumns
<1>7. /\ Done' \in Seq(Entry) /\ Len(Done') = n + 1
      /\ \A k \in 1..(n + 1) : Done'[k] = [path |-> cells'[k], kind |-> out'[k].kind]
  <2>1. cells' \in Seq(Path) /\ out' \in Seq(Items) /\ Len(cells') = Len(out')
    BY DEF Typed, TypeOK, Placed
  <2>2. Done' = [k \in DOMAIN cells' |-> [path |-> cells'[k], kind |-> out'[k].kind]]
    BY DEF Done
  <2>3. /\ Done' \in Seq(Entry) /\ Len(Done') = Len(cells')
        /\ \A k \in 1..Len(cells') : Done'[k] = [path |-> cells'[k], kind |-> out'[k].kind]
    BY <2>1, <2>2, DoneColumns, SMTT(60)
  <2> QED BY <1>1, <2>3
<1>8. Done' = Done \o <<x>>
  <2>1. \A k \in 1..n : Done'[k] = Done[k]
    <3> SUFFICES ASSUME NEW k \in 1..n PROVE Done'[k] = Done[k]
      OBVIOUS
    <3>1. k \in 1..(n + 1) /\ cells'[k] = cells[k] /\ out'[k] = out[k]
      BY <1>1
    <3>2. Done'[k] = [path |-> cells'[k], kind |-> out'[k].kind]
      BY <1>7, <3>1
    <3> QED BY <1>6, <3>1, <3>2, Zenon
  <2>2. Done'[n + 1] = x
    BY <1>1, <1>7
  <2> DEFINE d == Done
             e == Done'
  <2> HIDE DEF d, e, x
  <2>3. e = d \o <<x>>
    BY <1>1, <1>5, <1>6, <1>7, <2>1, <2>2, SMTT(60) DEF d, e
  <2> QED BY <2>3 DEF d, e
<1>9. Done \o Covers(names, wstack) = listing[type]
  BY <1>3 DEF Complete
<1>10. Covers(names, wstack) = <<x>> \o rest
  BY <1>4
<1> HIDE DEF x, rest
<1>11. <<x>> \in Seq(Entry) /\ rest \in Seq(Entry)
  BY <1>5, Words DEF rest
<1>12. \A u, v, w \in Seq(Entry) : (u \o v) \o w = u \o (v \o w)
  BY Words
<1>13. (Done \o <<x>>) \o rest = Done \o (<<x>> \o rest)
  BY <1>6, <1>11, <1>12, Zenon
<1> QED BY <1>8, <1>9, <1>10, <1>13, Zenon DEF rest

----------------------------------------------------------------------------
(* What a turn takes from the stacks. *)
LEMMA TurnIs ==
  ASSUME Typed, Placed, wstack # <<>>
  PROVE  /\ names \in Seq(Path) /\ names # <<>> /\ Len(names) = Len(wstack) /\ wstack \in Stacks
         /\ Head(names) \in Path /\ Turn \in Parts /\ TypeAt(type, Head(names)) = Turn
         /\ Tail(names) \in Seq(Path) /\ Tail(wstack) \in Stacks /\ Len(Tail(names)) = Len(Tail(wstack))
         /\ Head(names) = names[1] /\ 1 \in 1..Len(names)
<1>1. /\ names \in Seq(Path) /\ Len(names) = Len(wstack) /\ wstack \in Stacks
      /\ \A i \in 1..Len(wstack) : TypeAt(type, names[i]) = wstack[i]
  BY DEF Typed, Placed, Leads
<1>2. names # <<>> /\ Len(names) \in Nat \ {0}
  BY <1>1 DEF Stacks
<1>3. Head(names) \in Path /\ Head(names) = names[1] /\ Tail(names) \in Seq(Path) /\ Len(Tail(names)) = Len(names) - 1
  BY <1>1, <1>2, HeadTailProperties
<1>4. /\ Head(wstack) \in Parts /\ Head(wstack) = wstack[1]
      /\ Tail(wstack) \in Stacks /\ Len(Tail(wstack)) = Len(wstack) - 1
  BY <1>1, HeadTailProperties DEF Stacks
<1>5. 1 \in 1..Len(names)
  BY <1>2
<1>6. TypeAt(type, Head(names)) = Turn
  BY <1>1, <1>3, <1>4, <1>5 DEF Turn
<1> QED BY <1>1, <1>2, <1>3, <1>4, <1>5, <1>6 DEF Turn

(* The names n, in ascending order, continue the name in front. *)
LEMMA NamesOn ==
  ASSUME Typed, Placed, Ordered, wstack # <<>>, type' = type,
         NEW n \in Nat, NEW m \in [1..n -> Int], \A i, j \in 1..n : i < j => m[i] < m[j],
         NEW ts \in Stacks, Len(ts) = n, \A i \in 1..n : Within(Turn, m[i]) = ts[i],
         names' = Spliced(names, n, m), wstack' = ts \o Tail(wstack)
  PROVE  /\ names' \in Seq(Path) /\ Leads(type, names', wstack') /\ Apart(names')
         /\ cells # <<>> => \A i \in 1..Len(names') : Precedes(cells[Len(cells)], names'[i])
         /\ \A k \in Int : /\ TypeAt(type, Append(Head(names), k)) = Within(Turn, k)
                           /\ Append(Head(names), k) \in Path
                           /\ cells # <<>> => Precedes(cells[Len(cells)], Append(Head(names), k))
                           /\ (\A i \in 1..n : k < m[i]) =>
                                \A i \in 1..Len(names') : Precedes(Append(Head(names), k), names'[i])
<1>1. /\ names \in Seq(Path) /\ names # <<>> /\ wstack \in Stacks /\ Head(names) \in Path
      /\ Head(names) = names[1] /\ 1 \in 1..Len(names)
  BY TurnIs
<1>2. Apart(names) /\ Leads(type, names, wstack)
  BY DEF Ordered, Placed
<1>3. Spliced(names, n, m) \in Seq(Path)
  BY <1>1, SplicedIs
<1>4. /\ Apart(Spliced(names, n, m))
      /\ \A q \in Path : (\A i \in 1..Len(names) : Precedes(q, names[i]))
                           => \A i \in 1..Len(Spliced(names, n, m)) : Precedes(q, Spliced(names, n, m)[i])
      /\ \A k \in Int : (\A i \in 1..n : k < m[i]) =>
           \A i \in 1..Len(Spliced(names, n, m)) : Precedes(Append(Head(names), k), Spliced(names, n, m)[i])
  BY <1>1, <1>2, SplicedApart
<1>5. /\ Leads(type, Spliced(names, n, m), ts \o Tail(wstack))
      /\ \A k \in Int : TypeAt(type, Append(Head(names), k)) = Within(Turn, k)
  <2>1. \A t : \A ws, us \in Stacks :
           /\ Leads(t, names, ws) /\ Len(us) = n
           /\ \A i \in 1..n : Within(Head(ws), m[i]) = us[i]
           => /\ Leads(t, Spliced(names, n, m), us \o Tail(ws))
              /\ \A k \in Int : TypeAt(t, Append(Head(names), k)) = Within(Head(ws), k)
    BY <1>1, SplicedLeads
  <2> QED BY <1>1, <1>2, <2>1, Zenon DEF Turn
<1>6. cells # <<>> => cells[Len(cells)] \in Path /\ \A i \in 1..Len(names) : Precedes(cells[Len(cells)], names[i])
  <2>1. cells \in Seq(Path)
    BY DEF Placed
  <2> QED BY <2>1 DEF Ordered
<1>7. cells # <<>> => \A i \in 1..Len(names') : Precedes(cells[Len(cells)], names'[i])
  BY <1>4, <1>6, Zenon
<1>8. ASSUME NEW k \in Int
      PROVE  /\ Append(Head(names), k) \in Path
             /\ cells # <<>> => Precedes(cells[Len(cells)], Append(Head(names), k))
  <2>1. Append(Head(names), k) \in Path
    BY <1>1 DEF Path
  <2>2. ASSUME cells # <<>> PROVE Precedes(cells[Len(cells)], Append(Head(names), k))
    <3>1. cells[Len(cells)] \in Path /\ Precedes(cells[Len(cells)], Head(names))
      BY <1>1, <1>6, <2>2
    <3> QED BY <1>1, <3>1, PrecedesSteps
  <2> QED BY <2>1, <2>2
<1> QED BY <1>3, <1>4, <1>5, <1>7, <1>8, Zenon

(* The turns: a record, a cell, the size of an array. *)
LEMMA RecordsRow == Typed /\ Typed' /\ Placed /\ Ordered /\ Complete /\ OpenRecord => Placed' /\ Ordered' /\ Complete'
<1> SUFFICES ASSUME Typed, Typed', Placed, Ordered, Complete, OpenRecord PROVE Placed' /\ Ordered' /\ Complete'
  OBVIOUS
<1> DEFINE n == Len(Turn.body)
           m == [k \in 1..n |-> k]
           ps == [k \in 1..n |-> Append(Head(names), k)]
<1>1. wstack # <<>> /\ Turn.kind = "record" /\ type' = type /\ UNCHANGED <<cells, out>>
  BY DEF OpenRecord
<1>2. /\ Turn \in Parts /\ Head(names) \in Path /\ wstack \in Stacks /\ names \in Seq(Path) /\ names # <<>>
      /\ Len(names) = Len(wstack)
      /\ Tail(names) \in Seq(Path) /\ Tail(wstack) \in Stacks /\ Len(Tail(names)) = Len(Tail(wstack))
  BY <1>1, TurnIs
<1>3. Turn.body \in Stacks /\ DOMAIN Turn.body = 1..n /\ n \in Nat
  BY <1>1, <1>2, PartFields, StackFields
<1>4. wstack' = Turn.body \o Tail(wstack)
  BY <1>1 DEF OpenRecord, Opened, Turn
<1>5. names' = ps \o Tail(names)
  BY <1>3, Zenon DEF OpenRecord
<1>6. m \in [1..n -> Int] /\ (\A i, j \in 1..n : i < j => m[i] < m[j]) /\ \A i \in 1..n : m[i] = i
  BY <1>3
<1>7. \A i \in 1..n : Within(Turn, m[i]) = Turn.body[i]
  <2> SUFFICES ASSUME NEW i \in 1..n PROVE Within(Turn, i) = Turn.body[i]
    BY <1>6
  <2>1. i # SIZE
    BY <1>3 DEF SIZE
  <2> QED BY <1>1, <2>1 DEF Within
<1> HIDE DEF m
<1>8. ps = [i \in 1..n |-> Append(Head(names), m[i])]
  BY <1>6, Zenon
<1>9. names' = Spliced(names, n, m)
  BY <1>5, <1>8, Zenon DEF Spliced
<1>10. ps \in Seq(Path) /\ Len(ps) = n
  <2> HIDE DEF n
  <2>1. \A k \in 1..n : Append(Head(names), k) \in Path
    BY <1>2, <1>3 DEF Path
  <2>2. ps \in [1..n -> Path]
    BY <2>1
  <2> HIDE DEF ps
  <2> QED BY <1>3, <2>2
<1>11. /\ names' \in Seq(Path) /\ Leads(type, names', wstack') /\ Apart(names')
       /\ cells # <<>> => \A i \in 1..Len(names') : Precedes(cells[Len(cells)], names'[i])
  <2> HIDE DEF n, ps
  <2>1. Len(Turn.body) = n
    BY DEF n
  <2> QED BY <1>1, <1>3, <1>4, <1>6, <1>7, <1>9, <2>1, NamesOn
<1>12. Placed'
  BY <1>1, <1>11, PlacedStays
<1>13. Ordered'
  BY <1>1, <1>11, OrderedStays
<1>14. Covers(names', wstack') = Covers(names, wstack)
  <2>1. Covers(names, wstack) = Covers(ps, Turn.body) \o Covers(Tail(names), Tail(wstack))
    BY <1>1, <1>2, CoversFront DEF Turn
  <2> HIDE DEF ps
  <2>2. Covers(ps \o Tail(names), Turn.body \o Tail(wstack))
          = Covers(ps, Turn.body) \o Covers(Tail(names), Tail(wstack))
    BY <1>2, <1>3, <1>10, CoversSplit, ZenonT(60)
  <2> QED BY <1>4, <1>5, <2>1, <2>2, Zenon
<1>15. Complete'
  <2>1. ASSUME \A k \in DOMAIN out' : AsListed(k)' PROVE \A k \in DOMAIN out : AsListed(k)
    BY <1>1, <2>1 DEF AsListed
  <2>2. Done' = Done
    BY <1>1 DEF Done
  <2>3. ASSUME \A k \in DOMAIN out' : AsListed(k)' PROVE Done' \o Covers(names', wstack') = listing[type']
    BY <1>1, <1>14, <2>1, <2>2, <2>3, Zenon DEF Complete
  <2> QED BY <2>3 DEF Complete, Covers
<1> QED BY <1>12, <1>13, <1>15


LEMMA CellsRow == Typed /\ Typed' /\ Placed /\ Ordered /\ Complete /\ Cell => Placed' /\ Ordered' /\ Complete'
<1> SUFFICES ASSUME Typed, Typed', Placed, Ordered, Complete, Cell PROVE Placed' /\ Ordered' /\ Complete'
  OBVIOUS
<1> DEFINE c == Head(names)
           item == Item(Turn.kind)
           m == [k \in 1..0 |-> 0]
<1>1. /\ wstack # <<>> /\ Turn.kind \in Scalars /\ type' = type
      /\ wstack' = Tail(wstack) /\ names' = Tail(names)
      /\ out' = Append(out, item) /\ cells' = Append(cells, Column)
  BY DEF Cell, GetCell
<1>2. /\ Turn \in Parts /\ c \in Path /\ wstack \in Stacks /\ names \in Seq(Path) /\ names # <<>>
      /\ Len(names) = Len(wstack) /\ TypeAt(type, c) = Turn /\ c = names[1] /\ 1 \in 1..Len(names)
      /\ Tail(names) \in Seq(Path) /\ Tail(wstack) \in Stacks /\ Len(Tail(names)) = Len(Tail(wstack))
  BY <1>1, TurnIs
<1>3. Turn.kind # "array" /\ item \in Items /\ item.kind = Turn.kind
  BY <1>1, Kinds
<1> HIDE DEF c, item
<1>4. Reads1(c, item)
  <2>1. Column = c
    BY <1>3 DEF Column, c
  <2> QED BY <1>1, <1>2, <1>3, <2>1 DEF Reads1
<1>5. /\ names' \in Seq(Path) /\ Leads(type, names', wstack') /\ Apart(names')
  <2>1. 0 \in Nat /\ m \in [1..0 -> Int] /\ <<>> \in Stacks /\ Len(<<>>) = 0
    BY DEF Stacks
  <2>2. Spliced(names, 0, m) = Tail(names)
    <3>1. [i \in 1..0 |-> Append(Head(names), m[i])] = <<>>
      OBVIOUS
    <3>2. <<>> \o Tail(names) = Tail(names)
      BY <1>2, Words
    <3> QED BY <3>1, <3>2, Zenon DEF Spliced
  <2>3. <<>> \o Tail(wstack) = Tail(wstack)
    BY <1>2, Words DEF Stacks
  <2>4. /\ \A i, j \in 1..0 : i < j => m[i] < m[j]
        /\ \A i \in 1..0 : Within(Turn, m[i]) = <<>>[i]
    OBVIOUS
  <2> HIDE DEF m
  <2>5. names' = Spliced(names, 0, m) /\ wstack' = <<>> \o Tail(wstack)
    BY <1>1, <2>2, <2>3
  <2> QED BY <1>1, <2>1, <2>4, <2>5, NamesOn
<1>6. Placed'
  BY <1>1, <1>4, <1>5, PlacedStays
<1>7. Ordered'
  <2>1. cells # <<>> => Precedes(cells[Len(cells)], c)
    BY <1>2 DEF Ordered
  <2>2. ASSUME NEW i \in 1..Len(names') PROVE Precedes(c, names'[i])
    <3>1. /\ i + 1 \in 1..Len(names) /\ 1 < i + 1 /\ names'[i] = names[i + 1]
      BY <1>1, <1>2, <2>2
    <3>2. Precedes(names[1], names[i + 1])
      BY <1>2, <3>1 DEF Ordered, Apart
    <3> QED BY <1>2, <3>1, <3>2
  <2> QED BY <1>1, <1>4, <1>5, <2>1, <2>2, OrderedStays
<1>8. Covers(names', wstack') \in Seq(Entry)
  BY <1>1, <1>2, CoversParts
<1>9. Covers(names, wstack) = <<[path |-> c, kind |-> item.kind]>> \o Covers(names', wstack')
  <2>1. Covers(names, wstack) = <<[path |-> c, kind |-> Turn.kind]>> \o Covers(Tail(names), Tail(wstack))
    BY <1>1, <1>2, CoversFront DEF Turn, c
  <2> QED BY <1>1, <1>3, <2>1, Zenon
<1>10. Complete'
  BY <1>1, <1>4, <1>6, <1>8, <1>9, CompleteStays
<1> QED BY <1>6, <1>7, <1>10

LEMMA SizesRow ==
  ASSUME Typed, Typed', Placed, Ordered, Complete, NEW n \in 0..MaxSize, CellSize(n)
  PROVE  Placed' /\ Ordered' /\ Complete'
<1> DEFINE c == Append(Head(names), SIZE)
           item == SizeItem(n)
           m == [k \in 1..n |-> k - 1]
           ps == [k \in 1..n |-> Append(Head(names), k - 1)]
           ts == [k \in 1..n |-> Turn.base]
<1>0. n \in Nat
  BY CodecAssumption
<1>1. /\ wstack # <<>> /\ Turn.kind = "array" /\ type' = type
      /\ wstack' = ts \o Tail(wstack) /\ names' = ps \o Tail(names)
      /\ out' = Append(out, item) /\ cells' = Append(cells, c)
  BY DEF CellSize, GetCell, Column
<1>2. /\ Turn \in Parts /\ Head(names) \in Path /\ wstack \in Stacks /\ names \in Seq(Path) /\ names # <<>>
      /\ Len(names) = Len(wstack)
      /\ Tail(names) \in Seq(Path) /\ Tail(wstack) \in Stacks /\ Len(Tail(names)) = Len(Tail(wstack))
  BY <1>1, TurnIs
<1>3. Turn.base \in Parts
  BY <1>1, <1>2, PartFields
<1>4. item \in Items /\ item.kind = "array" /\ item.size = n
  BY DEF Items, SizeItem
<1>5. ts \in Stacks /\ Len(ts) = n /\ \A k \in 1..n : ts[k] = Turn.base
  BY <1>0, <1>3 DEF Stacks
<1>6. m \in [1..n -> Int] /\ (\A i, j \in 1..n : i < j => m[i] < m[j]) /\ \A i \in 1..n : m[i] = i - 1
  BY <1>0
<1>7. \A i \in 1..n : Within(Turn, m[i]) = ts[i]
  <2> SUFFICES ASSUME NEW i \in 1..n PROVE Within(Turn, i - 1) = Turn.base
    BY <1>5, <1>6
  <2>1. i - 1 # SIZE
    BY <1>0 DEF SIZE
  <2> QED BY <1>1, <2>1 DEF Within
<1>8. ps \in Seq(Path) /\ Len(ps) = n
  <2>1. \A k \in 1..n : Append(Head(names), k - 1) \in Path
    BY <1>0, <1>2 DEF Path
  <2>2. ps \in [1..n -> Path]
    BY <2>1
  <2> HIDE DEF ps
  <2> QED BY <1>0, <2>2
<1>9. ps = [i \in 1..n |-> Append(Head(names), m[i])]
  BY <1>6, Zenon
<1> HIDE DEF m, ts, ps, item
<1>10. names' = Spliced(names, n, m)
  BY <1>1, <1>9, Zenon DEF Spliced
<1>11. /\ names' \in Seq(Path) /\ Leads(type, names', wstack') /\ Apart(names')
       /\ \A k \in Int : /\ TypeAt(type, Append(Head(names), k)) = Within(Turn, k)
                         /\ Append(Head(names), k) \in Path
                         /\ cells # <<>> => Precedes(cells[Len(cells)], Append(Head(names), k))
                         /\ (\A i \in 1..n : k < m[i]) =>
                              \A i \in 1..Len(names') : Precedes(Append(Head(names), k), names'[i])
  BY <1>0, <1>1, <1>5, <1>6, <1>7, <1>10, NamesOn
<1>12. /\ c \in Path /\ TypeAt(type, c) = Turn
       /\ cells # <<>> => Precedes(cells[Len(cells)], c)
       /\ \A i \in 1..Len(names') : Precedes(c, names'[i])
  <2>1. SIZE \in Int /\ (\A i \in 1..n : SIZE < m[i]) /\ Within(Turn, SIZE) = Turn
    BY <1>0, <1>6 DEF SIZE, Within
  <2> QED BY <1>11, <2>1
<1> HIDE DEF c
<1>13. Reads1(c, item)
  BY <1>1, <1>4, <1>12 DEF Reads1
<1>14. Placed'
  BY <1>1, <1>11, <1>13, PlacedStays
<1>15. Ordered'
  BY <1>1, <1>11, <1>12, <1>13, OrderedStays
<1>16. /\ Covers(names', wstack') = Covers(ps, ts) \o Covers(Tail(names), Tail(wstack))
       /\ Covers(names', wstack') \in Seq(Entry)
  <2>1. Covers(ps \o Tail(names), ts \o Tail(wstack)) = Covers(ps, ts) \o Covers(Tail(names), Tail(wstack))
    <3>1. Len(ps) = Len(ts)
      BY <1>5, <1>8
    <3> QED BY <1>2, <1>5, <1>8, <3>1, CoversSplit, ZenonT(60)
  <2>2. Covers(ps, ts) \in Seq(Entry) /\ Covers(Tail(names), Tail(wstack)) \in Seq(Entry)
    BY <1>2, <1>5, <1>8, CoversParts
  <2>3. Covers(ps, ts) \o Covers(Tail(names), Tail(wstack)) \in Seq(Entry)
    BY <2>2, Words
  <2> QED BY <1>1, <2>1, <2>3, Zenon
<1>17. ASSUME n = Elements(Turn)
       PROVE  Covers(names, wstack) = <<[path |-> c, kind |-> item.kind]>> \o Covers(names', wstack')
  <2>1. Covers(names, wstack) =
          <<[path |-> c, kind |-> "array"]>>
          \o (Covers([i \in 1..Elements(Turn) |-> Append(Head(names), i - 1)], [i \in 1..Elements(Turn) |-> Turn.base])
              \o Covers(Tail(names), Tail(wstack)))
    BY <1>1, <1>2, CoversFront DEF Turn, c
  <2>2. Covers(names, wstack)
          = <<[path |-> c, kind |-> "array"]>> \o (Covers(ps, ts) \o Covers(Tail(names), Tail(wstack)))
    BY <1>17, <2>1, Zenon DEF ps, ts
  <2> QED BY <1>4, <1>16, <2>2, Zenon
<1>18. Complete'
  <2>1. (item.kind = "array" => item.size = Elements(TypeAt(type, c))) =>
          Covers(names, wstack) = <<[path |-> c, kind |-> item.kind]>> \o Covers(names', wstack')
    BY <1>4, <1>12, <1>17, Zenon
  <2> QED BY <1>1, <1>13, <1>14, <1>16, <2>1, CompleteStays
<1> QED BY <1>14, <1>15, <1>18

(* Whoever is called once a row was read leaves it alone. *)
LEMMA RowAlone ==
  ASSUME Row, InRow, Next
  PROVE  mode = "dump" /\ UNCHANGED <<type, mode, wstack, out>>
<1>1. mode \in {"csv", "dump", "failed"}
  BY DEF Row, InRow
<1>2. ~Writes /\ ~Build /\ ~Reads
  BY <1>1 DEF Writes, Write, WriteSize, RefuseWrite, RefuseSize, Build, Reads, Read, ReadSize, RefuseRead
<1>3. readData
  BY <1>2 DEF Next
<1> QED BY <1>3 DEF readData, Open, Dump, DumpSize, wvars

LEMMA RowKept ==
  ASSUME Placed, Ordered, Complete, UNCHANGED <<type, wstack, out, names, cells>>
  PROVE  Placed' /\ Ordered' /\ Complete'
<1>1. Placed'
  BY DEF Placed
<1>2. Ordered'
  BY DEF Ordered, Apart
<1>3. Complete'
  <2>1. (\A k \in DOMAIN out : AsListed(k))' = \A k \in DOMAIN out : AsListed(k)
    BY DEF AsListed
  <2>2. Done' = Done /\ Covers(names, wstack)' = Covers(names, wstack)
    BY DEF Done, Covers
  <2> QED BY <2>1, <2>2 DEF Complete
<1> QED BY <1>1, <1>2, <1>3

(* Every step keeps the invariant of the row. *)
LEMMA RowStep == Typed /\ Typed' /\ Row /\ [CsvNext]_allvars => Row'
<1> SUFFICES ASSUME Typed, Typed', Row, [CsvNext]_allvars PROVE Row'
  OBVIOUS
<1>1. CASE UNCHANGED allvars \/ (Next /\ UNCHANGED csvvars)
  <2>1. CASE InRow
    <3>1. UNCHANGED <<type, mode, wstack, out, names, cells>>
      BY <1>1, <2>1, RowAlone DEF allvars, vars, csvvars
    <3>2. Placed' /\ Ordered' /\ Complete'
      BY <2>1, <3>1, RowKept DEF Row
    <3> QED BY <3>1, <3>2 DEF Row
  <2>2. CASE ~InRow
    <3>1. cells = <<>> /\ cells' = <<>> /\ mode # "csv"
      BY <1>1, <2>2 DEF InRow, allvars, csvvars
    <3>2. mode' # "csv"
      BY <1>1, <3>1 DEF allvars, vars, Next, Writes, Write, WriteSize, RefuseWrite, RefuseSize, Build, Reads, Read,
                        ReadSize, RefuseRead, readData, Open, Dump, DumpSize
    <3> QED BY <3>1, <3>2 DEF Row, InRow
  <2> QED BY <2>1, <2>2
<1>2. CASE readCsv
  <2>1. mode = "csv" /\ Placed /\ Ordered /\ Complete
    BY <1>2 DEF readCsv, Cell, OpenRecord, CellSize, NoCell, EndRow, Row, InRow
  <2>2. CASE Cell \/ OpenRecord \/ \E n \in 0..MaxSize : CellSize(n)
    <3>1. mode' = mode
      BY <2>2 DEF Cell, OpenRecord, CellSize, GetCell
    <3>2. Placed' /\ Ordered' /\ Complete'
      BY <2>1, <2>2, CellsRow, RecordsRow, SizesRow
    <3> QED BY <2>1, <3>1, <3>2 DEF Row
  <2>3. CASE NoCell \/ EndRow
    <3>1. /\ UNCHANGED <<type, wstack, out, names, cells>>
          /\ mode' = "failed" \/ (mode' = "dump" /\ wstack = <<>>)
      BY <2>3 DEF NoCell, EndRow, wvars, csvvars
    <3>2. Placed' /\ Ordered' /\ Complete'
      BY <2>1, <3>1, RowKept
    <3> QED BY <3>1, <3>2 DEF Row
  <2> QED BY <1>2, <2>2, <2>3 DEF readCsv
<1> QED BY <1>1, <1>2 DEF CsvNext

LEMMA RowInitially == CsvInit => Row
<1> SUFFICES ASSUME CsvInit PROVE Row
  OBVIOUS
<1>1. CASE Init /\ header = {} /\ names = <<>> /\ cells = <<>>
  BY <1>1 DEF Init, Row, InRow
<1>2. CASE RowInit
  <2>1. /\ type \in Parts /\ mode = "csv" /\ wstack = <<type>> /\ out = <<>> /\ names = <<<<>>>> /\ cells = <<>>
    BY <1>2, CodecAssumption DEF RowInit
  <2>2. <<>> \in Path /\ <<<<>>>> \in Seq(Path) /\ <<>> \in Seq(Path) /\ <<type>> \in Stacks
        /\ Len(<<<<>>>>) = 1 /\ Len(<<type>>) = 1 /\ <<<<>>>>[1] = <<>> /\ <<type>>[1] = type
    BY <2>1 DEF Path, Stacks
  <2>3. TypeAt(type, <<>>) = type
    BY TypeAtSteps
  <2>4. Leads(type, names, wstack)
    BY <2>1, <2>2, <2>3 DEF Leads
  <2>5. Placed
    <3>1. Len(cells) = 0 /\ Len(out) = 0
      BY <2>1
    <3> QED BY <2>1, <2>2, <2>4, <3>1 DEF Placed
  <2>6. Ordered
    <3>1. Len(names) = 1 /\ Len(cells) = 0
      BY <2>1, <2>2
    <3> QED BY <2>1, <3>1 DEF Ordered, Apart
  <2>7. Complete
    <3>1. Covers(names, wstack) = listing[type]
      <4>1. listing[type] \in Seq(Entry) /\ Under(<<>>, listing[type]) = listing[type]
        BY <2>1, <2>2, ListingType, UnderUnder
      <4>2. Covers(<<<<>>>>, <<type>>) = Under(<<>>, listing[type])
        BY <2>1, <2>2, CoversOne
      <4> QED BY <2>1, <4>1, <4>2
    <3>2. Done = <<>>
      BY <2>1 DEF Done
    <3>3. <<>> \o listing[type] = listing[type]
      BY <2>1, ListingType, Words
    <3> QED BY <3>1, <3>2, <3>3 DEF Complete
  <2> QED BY <2>1, <2>5, <2>6, <2>7 DEF Row
<1> QED BY <1>1, <1>2 DEF CsvInit

(* The cells of a row are read in the order of the listing, and become the *)
(* items of the value, whatever sizes the document gives its arrays.       *)
THEOREM RowsInOrder == CsvSpec => []RowInOrder
<1>1. IInv /\ Row => RowInOrder
  <2> SUFFICES ASSUME Typed, Row, cells # <<>>
               PROVE  /\ Len(cells) = Len(out)
                      /\ \A k \in DOMAIN cells : TypeAt(type, cells[k]).kind = out[k].kind
                      /\ \A k \in 2..Len(cells) : Precedes(cells[k - 1], cells[k])
                      /\ mode = "dump" /\ (\A k \in DOMAIN out : AsListed(k)) =>
                           [k \in DOMAIN cells |-> [path |-> cells[k], kind |-> out[k].kind]] = listing[type]
    BY DEF IInv, RowInOrder
  <2>1. Placed /\ Ordered /\ Complete
    BY DEF Row, InRow
  <2>2. Len(cells) = Len(out) /\ DOMAIN cells = 1..Len(cells)
    BY <2>1 DEF Placed
  <2>3. ASSUME mode = "dump", \A k \in DOMAIN out : AsListed(k) PROVE Done = listing[type]
    <3>1. wstack = <<>> /\ Done \o Covers(names, wstack) = listing[type]
      BY <2>1, <2>3 DEF Row, Complete
    <3>2. Covers(names, wstack) = <<>>
      BY <3>1, CoversNone
    <3>3. Done \in Seq(Entry)
      <4>1. cells \in Seq(Path) /\ out \in Seq(Items)
        BY <2>1 DEF Placed, Typed, TypeOK
      <4>2. Done = [k \in DOMAIN cells |-> [path |-> cells[k], kind |-> out[k].kind]]
        BY DEF Done
      <4> QED BY <2>2, <4>1, <4>2, DoneColumns
    <3>4. Done \o <<>> = Done
      BY <3>3, Words
    <3> QED BY <3>1, <3>2, <3>4
  <2> QED BY <2>1, <2>2, <2>3 DEF Placed, Ordered, Done
<1>2. CsvSpec => []Row
  <2>1. IInv /\ IInv' /\ Row /\ [CsvNext]_allvars => Row'
    BY RowStep DEF IInv
  <2> QED BY RowInitially, Invariance, <2>1, PTL DEF CsvSpec
<1> QED BY <1>1, <1>2, Invariance, PTL

----------------------------------------------------------------------------
(* What the encodings of a type are, for all types. *)
Written == {Item(kind) : kind \in Scalars} \cup {SizeItem(n) : n \in Nat}
Text    == Seq(Written)

Sizes(t) == IF t.size = 0 THEN 0..MaxSize ELSE {t.size}

Encoded(f, t) ==
  CASE t.kind = "record" -> Strung([k \in DOMAIN t.body |-> f[t.body[k]]])
    [] t.kind = "array"  ->
         UNION {{<<SizeItem(n)>> \o e : e \in Strung([i \in 1..n |-> f[t.base]])} : n \in Sizes(t)}
    [] OTHER -> {<<Item(t.kind)>>}

(* The encodings of a type are put together from those of its parts. *)
LEMMA EncodingsAre == \A t \in Parts : encodings[t] = Encoded(encodings, t)
<1>1. ASSUME NEW low, NEW f, NEW g, NEW t \in Above(low), \A u \in low : f[u] = g[u]
      PROVE  Encoded(f, t) = Encoded(g, t)
  <2>1. t \in Parts
    BY DEF Above
  <2>2. CASE t.kind = "record"
    <3>1. \A k \in DOMAIN t.body : t.body[k] \in low
      BY <2>1, <2>2, PartFields DEF Above
    <3>2. [k \in DOMAIN t.body |-> f[t.body[k]]] = [k \in DOMAIN t.body |-> g[t.body[k]]]
      BY <1>1, <3>1
    <3> QED BY <2>2, <3>2, Zenon DEF Encoded
  <2>3. CASE t.kind = "array"
    <3>1. t.base \in low
      BY <2>1, <2>3, PartFields DEF Above
    <3>2. f[t.base] = g[t.base]
      BY <1>1, <3>1
    <3> QED BY <2>3, <3>2 DEF Encoded
  <2>4. CASE t.kind # "record" /\ t.kind # "array"
    BY <2>4 DEF Encoded
  <2> QED BY <2>2, <2>3, <2>4
<1> DEFINE Good(n, f) == f = [t \in shallow[n] |-> Encoded(f, t)]
           S == {n \in 0..Depth : \E f : Good(n, f)}
<1>2. Depth \in Nat /\ Layered(Depth, shallow)
  BY CodecAssumption, ShallowIs
<1>3. 0 \in S
  <2> DEFINE z == [t \in Parts |-> <<>>]
             f == [t \in shallow[0] |-> Encoded(z, t)]
  <2>1. shallow[0] \subseteq Above({})
    BY <1>2 DEF Layered, Above
  <2>2. \A t \in shallow[0] : Encoded(z, t) = Encoded(f, t)
    <3> SUFFICES ASSUME NEW t \in shallow[0] PROVE Encoded(z, t) = Encoded(f, t)
      OBVIOUS
    <3> HIDE DEF z, f
    <3> QED BY <1>1, <2>1
  <2>3. Good(0, f)
    BY <2>2
  <2> HIDE DEF f, Good
  <2> QED BY <1>2, <2>3
<1>4. ASSUME NEW n \in 0..(Depth - 1), n \in S PROVE n + 1 \in S
  <2>1. PICK f : Good(n, f)
    BY <1>4
  <2> DEFINE g == [t \in shallow[n + 1] |-> Encoded(f, t)]
  <2>2. n + 1 \in 1..Depth /\ n + 1 \in 0..Depth /\ (n + 1) - 1 = n
    BY <1>2
  <2>3. shallow[n + 1] = Above(shallow[n])
    BY <1>2, <2>2 DEF Layered
  <2>4. shallow[n] \subseteq shallow[n + 1]
    BY <1>2, <2>2, LayersRise
  <2>5. \A t \in shallow[n] : f[t] = g[t]
    BY <2>1, <2>4
  <2>6. \A t \in shallow[n + 1] : Encoded(f, t) = Encoded(g, t)
    <3> SUFFICES ASSUME NEW t \in shallow[n + 1] PROVE Encoded(f, t) = Encoded(g, t)
      OBVIOUS
    <3> HIDE DEF g
    <3> QED BY <1>1, <2>3, <2>5
  <2>7. Good(n + 1, g)
    BY <2>6
  <2> HIDE DEF g, Good
  <2> QED BY <2>2, <2>7
<1> HIDE DEF S, Good
<1>5. 0..Depth \subseteq S
  BY <1>2, <1>3, <1>4, Stepwise
<1>6. PICK f : f = [t \in Parts |-> Encoded(f, t)]
  <2>1. Depth \in S
    BY <1>2, <1>5
  <2> QED BY <2>1, ShallowIs DEF S, Good
<1>7. encodings = CHOOSE g : g = [t \in Parts |-> Encoded(g, t)]
  BY DEF encodings, Encoded, Sizes
<1>8. encodings = [t \in Parts |-> Encoded(encodings, t)]
  BY <1>6, <1>7
<1> QED BY <1>8

(* One text for each of some sets, put together. *)
StrungFrom(W) ==
  \A n \in Nat : \A sets : DOMAIN sets = 1..n /\ (\A i \in 1..n : sets[i] \subseteq W) =>
    \A e : e \in Strung(sets) <=>
             \E c \in Seq(W) : Len(c) = n /\ (\A i \in 1..n : c[i] \in sets[i]) /\ e = FlattenSeq(c)

(* Strung takes one text of each set. *)
LEMMA StrungIs ==
  ASSUME NEW W
  PROVE  StrungFrom(W)
<1> SUFFICES ASSUME NEW n \in Nat, NEW sets, DOMAIN sets = 1..n, \A i \in 1..n : sets[i] \subseteq W
             PROVE  \A e : e \in Strung(sets) <=>
                      \E c \in Seq(W) : Len(c) = n /\ (\A i \in 1..n : c[i] \in sets[i]) /\ e = FlattenSeq(c)
  BY DEF StrungFrom
<1> DEFINE U == UNION {sets[i] : i \in DOMAIN sets}
           C == {c \in [DOMAIN sets -> U] : \A i \in DOMAIN sets : c[i] \in sets[i]}
<1>1. \A c \in C : c \in Seq(W) /\ Len(c) = n /\ \A i \in 1..n : c[i] \in sets[i]
  <2> SUFFICES ASSUME NEW c \in C PROVE c \in Seq(W) /\ Len(c) = n /\ \A i \in 1..n : c[i] \in sets[i]
    OBVIOUS
  <2>1. c \in [1..n -> U] /\ \A i \in 1..n : c[i] \in sets[i]
    OBVIOUS
  <2>2. c \in [1..n -> W]
    BY <2>1
  <2> HIDE DEF C
  <2>3. c \in Seq(W) /\ Len(c) = n
    BY <2>2
  <2> QED BY <2>1, <2>3
<1>2. \A c \in Seq(W) : Len(c) = n /\ (\A i \in 1..n : c[i] \in sets[i]) => c \in C
  <2> SUFFICES ASSUME NEW c \in Seq(W), Len(c) = n, \A i \in 1..n : c[i] \in sets[i] PROVE c \in C
    OBVIOUS
  <2>1. DOMAIN c = 1..n /\ c \in [1..n -> W]
    OBVIOUS
  <2>2. \A i \in 1..n : c[i] \in U
    OBVIOUS
  <2>3. c \in [1..n -> U]
    <3> HIDE DEF U
    <3> QED BY <2>1, <2>2
  <2> QED BY <2>3
<1>3. Strung(sets) = {FlattenSeq(c) : c \in C}
  BY DEF Strung
<1> HIDE DEF C
<1> QED BY <1>1, <1>2, <1>3

LEMMA StrungText == StrungFrom(Text)
<1>1. \A W : StrungFrom(W)
  BY StrungIs
<1> QED BY <1>1

(* The texts of a stack: one of each of its types, put together. *)
Spelt(s, e) ==
  \E c \in Seq(Text) : Len(c) = Len(s) /\ (\A i \in 1..Len(s) : c[i] \in encodings[s[i]]) /\ e = FlattenSeq(c)

LEMMA WrittenItems ==
  /\ Items \subseteq Written
  /\ \A item \in Items : item.kind \in Scalars => item = Item(item.kind)
  /\ \A item \in Items : item.kind = "array" => item.size \in 0..MaxSize /\ item = SizeItem(item.size)
  /\ \A n \in Nat : SizeItem(n) \in Written /\ SizeItem(n).size = n
  /\ \A kind \in Scalars : Item(kind) \in Written
<1>1. MaxSize \in Nat /\ "array" \notin Scalars
  BY CodecAssumption
<1>2. Items \subseteq Written
  <2>1. 0..MaxSize \subseteq Nat
    BY <1>1
  <2> QED BY <2>1 DEF Items, Written
<1>3. ASSUME NEW item \in Items
      PROVE  /\ item.kind \in Scalars => item = Item(item.kind)
             /\ item.kind = "array" => item.size \in 0..MaxSize /\ item = SizeItem(item.size)
  <2>1. CASE \E kind \in Scalars : item = Item(kind)
    BY <1>1, <2>1 DEF Item
  <2>2. CASE \E n \in 0..MaxSize : item = SizeItem(n)
    BY <1>1, <2>2 DEF SizeItem
  <2> QED BY <2>1, <2>2 DEF Items
<1>4. \A n \in Nat : SizeItem(n) \in Written /\ SizeItem(n).size = n
  BY DEF Written, SizeItem
<1>5. \A kind \in Scalars : Item(kind) \in Written
  BY DEF Written
<1> QED BY <1>2, <1>3, <1>4, <1>5

(* An encoding is a text. *)
LEMMA EncodingsText == \A t \in Parts : encodings[t] \subseteq Text
<1> DEFINE S == {t \in Parts : encodings[t] \subseteq Text}
<1>1. ASSUME NEW n \in Nat, NEW sets, DOMAIN sets = 1..n, \A i \in 1..n : sets[i] \subseteq Text
      PROVE  Strung(sets) \subseteq Text
  <2> SUFFICES ASSUME NEW e \in Strung(sets) PROVE e \in Text
    OBVIOUS
  <2>0. \A d : d \in Strung(sets) <=>
                 \E c \in Seq(Text) : Len(c) = n /\ (\A i \in 1..n : c[i] \in sets[i]) /\ d = FlattenSeq(c)
    BY <1>1, StrungText DEF StrungFrom
  <2>1. PICK c \in Seq(Text) : e = FlattenSeq(c)
    BY <2>0
  <2> QED BY <2>1, FlattenType DEF Text
<1>2. ASSUME NEW t \in Above(S) PROVE t \in S
  <2>1. t \in Parts /\ encodings[t] = Encoded(encodings, t)
    BY EncodingsAre DEF Above
  <2>2. CASE t.kind = "record"
    <3>1. /\ Len(t.body) \in Nat /\ DOMAIN t.body = 1..Len(t.body)
          /\ \A k \in 1..Len(t.body) : encodings[t.body[k]] \subseteq Text
      BY <2>1, <2>2, PartFields, StackFields DEF Above
    <3> DEFINE sets == [k \in DOMAIN t.body |-> encodings[t.body[k]]]
    <3>2. DOMAIN sets = 1..Len(t.body) /\ \A i \in 1..Len(t.body) : sets[i] \subseteq Text
      BY <3>1
    <3>3. encodings[t] = Strung(sets)
      BY <2>1, <2>2 DEF Encoded
    <3> HIDE DEF sets, S
    <3>4. Strung(sets) \subseteq Text
      BY <1>1, <3>1, <3>2
    <3> QED BY <2>1, <3>3, <3>4 DEF S
  <2>3. CASE t.kind = "array"
    <3>1. t.size \in Nat /\ encodings[t.base] \subseteq Text
      BY <2>1, <2>3, PartFields DEF Above
    <3>2. Sizes(t) \subseteq Nat
      BY <3>1, CodecAssumption DEF Sizes
    <3>3. ASSUME NEW n \in Sizes(t), NEW e \in Strung([i \in 1..n |-> encodings[t.base]])
          PROVE  <<SizeItem(n)>> \o e \in Text
      <4> DEFINE sets == [i \in 1..n |-> encodings[t.base]]
      <4>1. n \in Nat /\ DOMAIN sets = 1..n /\ \A i \in 1..n : sets[i] \subseteq Text
        BY <3>1, <3>2
      <4> HIDE DEF sets
      <4>2. Strung(sets) \subseteq Text
        BY <1>1, <4>1
      <4>3. e \in Text
        BY <4>2 DEF sets
      <4>4. SizeItem(n) \in Written
        BY <4>1, WrittenItems
      <4>5. <<SizeItem(n)>> \in Text
        BY <4>4 DEF Text
      <4> QED BY <4>3, <4>5, Words DEF Text
    <3>4. encodings[t] =
            UNION {{<<SizeItem(n)>> \o e : e \in Strung([i \in 1..n |-> encodings[t.base]])} : n \in Sizes(t)}
      BY <2>1, <2>3 DEF Encoded
    <3> HIDE DEF S
    <3>5. encodings[t] \subseteq Text
      <4> SUFFICES ASSUME NEW d \in encodings[t] PROVE d \in Text
        OBVIOUS
      <4>1. PICK n \in Sizes(t) : d \in {<<SizeItem(n)>> \o e : e \in Strung([i \in 1..n |-> encodings[t.base]])}
        BY <3>4
      <4>2. PICK e \in Strung([i \in 1..n |-> encodings[t.base]]) : d = <<SizeItem(n)>> \o e
        BY <4>1
      <4> QED BY <3>3, <4>2, Zenon
    <3> QED BY <2>1, <3>5 DEF S
  <2>4. CASE t.kind # "record" /\ t.kind # "array"
    <3>1. encodings[t] = {<<Item(t.kind)>>} /\ t.kind \in Scalars
      BY <2>1, <2>4, PartFields DEF Encoded
    <3>2. Item(t.kind) \in Written
      BY <3>1, WrittenItems
    <3>3. \A x \in Written : {<<x>>} \subseteq Text
      BY DEF Text
    <3>4. encodings[t] \subseteq Text
      BY <3>1, <3>2, <3>3, Zenon
    <3> QED BY <2>1, <3>4
  <2> QED BY <2>2, <2>3, <2>4
<1> HIDE DEF S
<1>3. S = Parts
  BY <1>2, OnParts DEF S
<1> QED BY <1>3 DEF S


LEMMA SpeltNone == \A e : Spelt(<<>>, e) <=> e = <<>>
<1>1. <<>> \in Seq(Text) /\ Len(<<>>) = 0 /\ \A c \in Seq(Text) : Len(c) = 0 => c = <<>>
  <2> DEFINE W == Text
  <2> HIDE DEF W
  <2>1. <<>> \in Seq(W) /\ Len(<<>>) = 0 /\ \A c \in Seq(W) : Len(c) = 0 => c = <<>>
    OBVIOUS
  <2> QED BY <2>1 DEF W
<1>2. FlattenSeq(<<>>) = <<>>
  BY FlattenType
<1>3. 1..0 = {}
  OBVIOUS
<1> QED BY <1>1, <1>2, <1>3, Zenon DEF Spelt

LEMMA SpeltOne == \A t \in Parts : \A e : Spelt(<<t>>, e) <=> e \in encodings[t]
<1> SUFFICES ASSUME NEW t \in Parts, NEW e PROVE Spelt(<<t>>, e) <=> e \in encodings[t]
  OBVIOUS
<1>1. Len(<<t>>) = 1 /\ <<t>>[1] = t
  OBVIOUS
<1>2. \A x \in Text : FlattenSeq(<<x>>) = x
  BY FlattenType DEF Text
<1>3. ASSUME Spelt(<<t>>, e) PROVE e \in encodings[t]
  <2>1. PICK c \in Seq(Text) : Len(c) = 1 /\ c[1] \in encodings[t] /\ e = FlattenSeq(c)
    BY <1>1, <1>3 DEF Spelt
  <2>2. c = <<c[1]>> /\ c[1] \in Text
    <3> DEFINE W == Text
    <3> HIDE DEF W
    <3>1. \A d \in Seq(W) : Len(d) = 1 => d = <<d[1]>> /\ d[1] \in W
      OBVIOUS
    <3> QED BY <2>1, <3>1 DEF W
  <2> QED BY <1>2, <2>1, <2>2
<1>4. ASSUME e \in encodings[t] PROVE Spelt(<<t>>, e)
  <2>1. e \in Text
    BY <1>4, EncodingsText
  <2> DEFINE c == <<e>>
  <2>2. c \in Seq(Text) /\ Len(c) = 1 /\ c[1] = e
    BY <2>1
  <2>3. FlattenSeq(c) = e
    BY <1>2, <2>1
  <2> HIDE DEF c
  <2>4. \A i \in 1..1 : i = 1
    OBVIOUS
  <2> QED BY <1>1, <1>4, <2>2, <2>3, <2>4, Zenon DEF Spelt
<1> QED BY <1>3, <1>4

Cuts(E) ==
  \A m, n \in Nat : \A c \in Seq(E) : Len(c) = m + n =>
    \E a, b \in Seq(E) : /\ c = a \o b /\ Len(a) = m /\ Len(b) = n
                         /\ \A i \in 1..m : a[i] = c[i]
                         /\ \A i \in 1..n : b[i] = c[m + i]

(* A sequence can be cut anywhere. *)
LEMMA CutAt == ASSUME NEW E PROVE Cuts(E)
<1> SUFFICES ASSUME NEW m \in Nat, NEW n \in Nat, NEW c \in Seq(E), Len(c) = m + n
             PROVE  \E a, b \in Seq(E) : /\ c = a \o b /\ Len(a) = m /\ Len(b) = n
                                         /\ \A i \in 1..m : a[i] = c[i]
                                         /\ \A i \in 1..n : b[i] = c[m + i]
  BY DEF Cuts
<1> DEFINE a == [i \in 1..m |-> c[i]]
           b == [i \in 1..n |-> c[m + i]]
<1>1. \A i \in 1..(m + n) : c[i] \in E
  OBVIOUS
<1>2. a \in Seq(E) /\ Len(a) = m /\ \A i \in 1..m : a[i] = c[i]
  <2>1. \A i \in 1..m : c[i] \in E
    BY <1>1
  <2> QED BY <2>1
<1>3. b \in Seq(E) /\ Len(b) = n /\ \A i \in 1..n : b[i] = c[m + i]
  <2>1. \A i \in 1..n : c[m + i] \in E
    BY <1>1
  <2> QED BY <2>1
<1> HIDE DEF a, b
<1>4. ASSUME NEW i \in (m + 1)..(m + n) PROVE c[i] = b[i - m]
  <2>1. i - m \in 1..n /\ m + (i - m) = i
    OBVIOUS
  <2> QED BY <1>3, <2>1
<1>5. c = a \o b
  BY <1>2, <1>3, <1>4, Joined
<1> QED BY <1>2, <1>3, <1>5

LEMMA CutTexts == Cuts(Text)
<1>1. \A E : Cuts(E)
  BY CutAt
<1> QED BY <1>1

LEMMA JoinTexts ==
  \A a, b \in Seq(Text) :
    /\ a \o b \in Seq(Text) /\ Len(a \o b) = Len(a) + Len(b) /\ Len(a) \in Nat /\ Len(b) \in Nat
    /\ \A i \in 1..Len(a) : (a \o b)[i] = a[i]
    /\ \A i \in (Len(a) + 1)..(Len(a) + Len(b)) : (a \o b)[i] = b[i - Len(a)]
    /\ FlattenSeq(a \o b) = FlattenSeq(a) \o FlattenSeq(b)
    /\ FlattenSeq(a) \in Text
<1> DEFINE W == Text
<1>1. \A a, b \in Seq(Text) : FlattenSeq(a \o b) = FlattenSeq(a) \o FlattenSeq(b) /\ FlattenSeq(a) \in Text
  BY FlattenConcat, FlattenType DEF Text
<1> HIDE DEF W
<1>2. \A a, b \in Seq(W) :
        /\ a \o b \in Seq(W) /\ Len(a \o b) = Len(a) + Len(b) /\ Len(a) \in Nat /\ Len(b) \in Nat
        /\ \A i \in 1..Len(a) : (a \o b)[i] = a[i]
        /\ \A i \in (Len(a) + 1)..(Len(a) + Len(b)) : (a \o b)[i] = b[i - Len(a)]
  BY ConcatProperties
<1>3. \A a, b \in Seq(Text) :
        /\ a \o b \in Seq(Text) /\ Len(a \o b) = Len(a) + Len(b) /\ Len(a) \in Nat /\ Len(b) \in Nat
        /\ \A i \in 1..Len(a) : (a \o b)[i] = a[i]
        /\ \A i \in (Len(a) + 1)..(Len(a) + Len(b)) : (a \o b)[i] = b[i - Len(a)]
  BY <1>2 DEF W
<1> QED BY <1>1, <1>3, Zenon

LEMMA StacksJoin ==
  \A s, r \in Stacks :
    /\ s \o r \in Stacks /\ Len(s \o r) = Len(s) + Len(r) /\ Len(s) \in Nat /\ Len(r) \in Nat
    /\ \A i \in 1..Len(s) : (s \o r)[i] = s[i]
    /\ \A i \in 1..Len(r) : (s \o r)[Len(s) + i] = r[i]
BY ConcatProperties DEF Stacks

Splits(s, r, e) == \E u, v \in Text : Spelt(s, u) /\ Spelt(r, v) /\ e = u \o v

(* The texts of two stacks one behind the other fall apart into theirs. *)
LEMMA SpeltConcat ==
  ASSUME NEW s \in Stacks, NEW r \in Stacks, NEW e
  PROVE  Spelt(s \o r, e) <=> Splits(s, r, e)
<1> DEFINE m == Len(s)
           n == Len(r)
           p == s \o r
<1>1. /\ m \in Nat /\ n \in Nat /\ Len(p) = m + n
      /\ \A i \in 1..m : p[i] = s[i]
      /\ \A i \in 1..n : p[m + i] = r[i]
  BY StacksJoin
<1> HIDE DEF p, m, n
<1>2. ASSUME Spelt(p, e) PROVE \E u, v \in Text : Spelt(s, u) /\ Spelt(r, v) /\ e = u \o v
  <2>1. PICK c \in Seq(Text) : Len(c) = m + n /\ (\A i \in 1..(m + n) : c[i] \in encodings[p[i]]) /\ e = FlattenSeq(c)
    BY <1>1, <1>2, Zenon DEF Spelt
  <2>2. PICK a \in Seq(Text), b \in Seq(Text) :
          /\ c = a \o b /\ Len(a) = m /\ Len(b) = n
          /\ \A i \in 1..m : a[i] = c[i]
          /\ \A i \in 1..n : b[i] = c[m + i]
    BY <1>1, <2>1, CutTexts, Zenon DEF Cuts
  <2>3. \A i \in 1..m : a[i] \in encodings[s[i]]
    <3> SUFFICES ASSUME NEW i \in 1..m PROVE a[i] \in encodings[s[i]]
      OBVIOUS
    <3>1. i \in 1..(m + n)
      BY <1>1
    <3> QED BY <1>1, <2>1, <2>2, <3>1, Zenon
  <2>4. \A i \in 1..n : b[i] \in encodings[r[i]]
    <3> SUFFICES ASSUME NEW i \in 1..n PROVE b[i] \in encodings[r[i]]
      OBVIOUS
    <3>1. m + i \in 1..(m + n)
      BY <1>1
    <3>2. c[m + i] \in encodings[p[m + i]]
      BY <2>1, <3>1, Zenon
    <3>3. c[m + i] = b[i] /\ p[m + i] = r[i]
      BY <1>1, <2>2, Zenon
    <3> QED BY <3>2, <3>3
  <2>5. Spelt(s, FlattenSeq(a)) /\ Spelt(r, FlattenSeq(b))
    BY <2>2, <2>3, <2>4, Zenon DEF Spelt, m, n
  <2>6. e = FlattenSeq(a) \o FlattenSeq(b) /\ FlattenSeq(a) \in Text /\ FlattenSeq(b) \in Text
    BY <2>1, <2>2, JoinTexts, Zenon
  <2> QED BY <2>5, <2>6, Zenon
<1>3. ASSUME NEW u, NEW v, Spelt(s, u), Spelt(r, v), e = u \o v PROVE Spelt(p, e)
  <2>1. PICK a \in Seq(Text) : Len(a) = m /\ (\A i \in 1..m : a[i] \in encodings[s[i]]) /\ u = FlattenSeq(a)
    BY <1>3, Zenon DEF Spelt, m
  <2>2. PICK b \in Seq(Text) : Len(b) = n /\ (\A i \in 1..n : b[i] \in encodings[r[i]]) /\ v = FlattenSeq(b)
    BY <1>3, Zenon DEF Spelt, n
  <2> DEFINE c == a \o b
  <2>3. /\ c \in Seq(Text) /\ Len(c) = m + n
        /\ \A i \in 1..m : c[i] = a[i]
        /\ \A i \in (m + 1)..(m + n) : c[i] = b[i - m]
        /\ e = FlattenSeq(c)
    <3>1. /\ a \o b \in Seq(Text) /\ Len(a \o b) = Len(a) + Len(b)
          /\ \A i \in 1..Len(a) : (a \o b)[i] = a[i]
          /\ \A i \in (Len(a) + 1)..(Len(a) + Len(b)) : (a \o b)[i] = b[i - Len(a)]
          /\ FlattenSeq(a \o b) = FlattenSeq(a) \o FlattenSeq(b)
      BY JoinTexts, Zenon
    <3> HIDE DEF c
    <3>2. /\ c \in Seq(Text) /\ Len(c) = Len(a) + Len(b)
          /\ \A i \in 1..Len(a) : c[i] = a[i]
          /\ \A i \in (Len(a) + 1)..(Len(a) + Len(b)) : c[i] = b[i - Len(a)]
          /\ FlattenSeq(c) = FlattenSeq(a) \o FlattenSeq(b)
      BY <3>1, Zenon DEF c
    <3>3. Len(a) = m /\ Len(b) = n /\ e = FlattenSeq(a) \o FlattenSeq(b)
      BY <1>3, <2>1, <2>2
    <3> QED BY <3>2, <3>3, Zenon
  <2> HIDE DEF c
  <2>4. ASSUME NEW i \in 1..(m + n) PROVE c[i] \in encodings[p[i]]
    <3>1. CASE i \in 1..m
      BY <1>1, <2>1, <2>3, <3>1, Zenon
    <3>2. CASE i \in (m + 1)..(m + n)
      <4>1. i - m \in 1..n /\ m + (i - m) = i
        BY <1>1, <3>2
      <4>2. p[i] = r[i - m]
        <5>1. p[m + (i - m)] = r[i - m]
          BY <1>1, <4>1, Zenon
        <5> QED BY <4>1, <5>1
      <4>3. c[i] = b[i - m] /\ b[i - m] \in encodings[r[i - m]]
        BY <2>2, <2>3, <3>2, <4>1, Zenon
      <4> QED BY <4>2, <4>3
    <3>3. i \in 1..m \/ i \in (m + 1)..(m + n)
      BY <1>1
    <3> QED BY <3>1, <3>2, <3>3
  <2> QED BY <1>1, <2>3, <2>4, Zenon DEF Spelt
<1> QED BY <1>2, <1>3, Zenon DEF p, Splits


(* The texts of a record are those of its members; those of an array start *)
(* with a size it may have.                                                *)
LEMMA SpeltInside ==
  ASSUME NEW t \in Parts
  PROVE  /\ t.kind = "record" => \A e : Spelt(t.body, e) <=> e \in encodings[t]
         /\ t.kind = "array" => \A e : e \in encodings[t] <=>
              \E n \in Sizes(t), v \in Text :
                /\ Spelt([i \in 1..n |-> t.base], v)
                /\ e = <<SizeItem(n)>> \o v
         /\ t.kind \in Scalars => encodings[t] = {<<Item(t.kind)>>}
<1>1. encodings[t] = Encoded(encodings, t)
  BY EncodingsAre
<1>2. ASSUME NEW s \in Stacks, NEW sets, sets = [i \in 1..Len(s) |-> encodings[s[i]]]
      PROVE  \A e : e \in Strung(sets) <=> Spelt(s, e)
  <2>1. Len(s) \in Nat /\ \A i \in 1..Len(s) : encodings[s[i]] \subseteq Text
    BY StackFields, EncodingsText
  <2>2. DOMAIN sets = 1..Len(s) /\ \A i \in 1..Len(s) : sets[i] = encodings[s[i]]
    BY <1>2
  <2>3. \A i \in 1..Len(s) : sets[i] \subseteq Text
    BY <2>1, <2>2, Zenon
  <2>4. \A e : e \in Strung(sets) <=>
                 \E c \in Seq(Text) : Len(c) = Len(s) /\ (\A i \in 1..Len(s) : c[i] \in sets[i]) /\ e = FlattenSeq(c)
    BY <2>1, <2>2, <2>3, StrungText DEF StrungFrom
  <2>5. \A c : (\A i \in 1..Len(s) : c[i] \in sets[i]) <=> (\A i \in 1..Len(s) : c[i] \in encodings[s[i]])
    BY <2>2, Zenon
  <2> QED BY <2>4, <2>5, Zenon DEF Spelt
<1>3. ASSUME t.kind = "record", NEW e PROVE Spelt(t.body, e) <=> e \in encodings[t]
  <2>1. t.body \in Stacks /\ DOMAIN t.body = 1..Len(t.body)
    BY <1>3, PartFields
  <2> DEFINE sets == [i \in 1..Len(t.body) |-> encodings[t.body[i]]]
  <2>2. encodings[t] = Strung(sets)
    BY <1>1, <1>3, <2>1 DEF Encoded
  <2>3. \A d : d \in Strung(sets) <=> Spelt(t.body, d)
    BY <1>2, <2>1
  <2> HIDE DEF sets
  <2> QED BY <2>2, <2>3, Zenon
<1>4. ASSUME t.kind = "array", NEW e
      PROVE  e \in encodings[t] <=>
               \E n \in Sizes(t), v \in Text : Spelt([i \in 1..n |-> t.base], v) /\ e = <<SizeItem(n)>> \o v
  <2>1. t.base \in Parts /\ Sizes(t) \subseteq Nat
    BY <1>4, PartFields, CodecAssumption DEF Sizes
  <2>2. ASSUME NEW n \in Sizes(t)
        PROVE  /\ \A d : d \in Strung([i \in 1..n |-> encodings[t.base]]) <=> Spelt([i \in 1..n |-> t.base], d)
               /\ \A d \in Strung([i \in 1..n |-> encodings[t.base]]) : d \in Text
    <3> DEFINE s == [i \in 1..n |-> t.base]
    <3>1. n \in Nat /\ s \in Stacks /\ Len(s) = n /\ \A i \in 1..n : s[i] = t.base
      BY <2>1 DEF Stacks
    <3> HIDE DEF s
    <3>2. [i \in 1..n |-> encodings[t.base]] = [i \in 1..Len(s) |-> encodings[s[i]]]
      BY <3>1, Zenon
    <3>3. \A d : d \in Strung([i \in 1..n |-> encodings[t.base]]) <=> Spelt(s, d)
      BY <1>2, <3>1, <3>2
    <3>4. \A d : Spelt(s, d) => d \in Text
      BY JoinTexts, Zenon DEF Spelt
    <3> QED BY <3>3, <3>4, Zenon DEF s
  <2> DEFINE F(n) == {<<SizeItem(n)>> \o d : d \in Strung([i \in 1..n |-> encodings[t.base]])}
  <2>3. encodings[t] = UNION {F(n) : n \in Sizes(t)}
    BY <1>1, <1>4 DEF Encoded
  <2>4. e \in encodings[t] <=>
          \E n \in Sizes(t) : \E d \in Strung([i \in 1..n |-> encodings[t.base]]) : e = <<SizeItem(n)>> \o d
    <3>1. \A n : e \in F(n) <=> \E d \in Strung([i \in 1..n |-> encodings[t.base]]) : e = <<SizeItem(n)>> \o d
      OBVIOUS
    <3> HIDE DEF F
    <3>2. e \in encodings[t] <=> \E n \in Sizes(t) : e \in F(n)
      BY <2>3
    <3> QED BY <3>1, <3>2, Zenon
  <2> HIDE <2>3
  <2>5. \A n \in Sizes(t) : (\E d \in Strung([i \in 1..n |-> encodings[t.base]]) : e = <<SizeItem(n)>> \o d)
                              <=> (\E d \in Text : Spelt([i \in 1..n |-> t.base], d) /\ e = <<SizeItem(n)>> \o d)
    BY <2>2, Zenon
  <2> QED BY <2>4, <2>5, Zenon
<1>5. ASSUME t.kind \in Scalars PROVE encodings[t] = {<<Item(t.kind)>>}
  BY <1>1, <1>5, PartFields DEF Encoded
<1> QED BY <1>3, <1>4, <1>5, Zenon

(* What holds of the empty stack, and of a stack with a type before it     *)
(* whenever it holds of the stack, holds of all stacks of such types.      *)
LEMMA OnStacks ==
  ASSUME NEW P, NEW G, <<>> \in G, \A x \in P : \A s \in Seq(P) : s \in G => <<x>> \o s \in G
  PROVE  Seq(P) \subseteq G
<1> SUFFICES ASSUME NEW s0 \in Seq(P) PROVE s0 \in G
  OBVIOUS
<1> DEFINE L == Len(s0)
           N == {n \in 0..L : \A s \in Seq(P) : Len(s) = n => s \in G}
<1>1. L \in Nat
  OBVIOUS
<1>2. 0 \in N
  BY <1>1
<1>3. ASSUME NEW n \in 0..(L - 1), n \in N PROVE n + 1 \in N
  <2>1. ASSUME NEW s \in Seq(P), Len(s) = n + 1 PROVE s \in G
    <3>1. s # <<>>
      BY <1>1, <2>1
    <3>2. Head(s) \in P /\ Tail(s) \in Seq(P) /\ Len(Tail(s)) = n /\ s = <<Head(s)>> \o Tail(s)
      BY <1>1, <2>1, <3>1
    <3>3. Tail(s) \in G
      BY <1>3, <3>2
    <3> QED BY <3>2, <3>3
  <2> QED BY <1>1, <2>1
<1> HIDE DEF N
<1>4. 0..L \subseteq N
  BY <1>1, <1>2, <1>3, Stepwise
<1>5. L \in N
  BY <1>1, <1>4
<1> QED BY <1>5 DEF N

(* The texts of a stack are those of what it stands for. *)
SameTexts == {s \in Stacks : \A e : Spelt(Due(s), e) <=> Spelt(s, e)}

LEMMA SameTextsJoin ==
  ASSUME NEW x \in Parts, NEW s \in Stacks, <<x>> \in SameTexts, s \in SameTexts
  PROVE  <<x>> \o s \in SameTexts
<1>1. <<x>> \in Stacks /\ <<x>> \o s \in Stacks /\ Due(<<x>>) \in Stacks /\ Due(s) \in Stacks
  BY Algebra, DueType
<1>2. Due(<<x>> \o s) = Due(<<x>>) \o Due(s)
  BY <1>1, DueConcat
<1>3. ASSUME NEW e PROVE Spelt(Due(<<x>>) \o Due(s), e) <=> Spelt(<<x>> \o s, e)
  <2>1. Spelt(Due(<<x>>) \o Due(s), e) <=> Splits(Due(<<x>>), Due(s), e)
    BY <1>1, SpeltConcat
  <2>2. Spelt(<<x>> \o s, e) <=> Splits(<<x>>, s, e)
    BY <1>1, SpeltConcat
  <2>3. \A u : (Spelt(Due(<<x>>), u) <=> Spelt(<<x>>, u)) /\ (Spelt(Due(s), u) <=> Spelt(s, u))
    BY DEF SameTexts
  <2> QED BY <2>1, <2>2, <2>3, Zenon DEF Splits
<1> QED BY <1>1, <1>2, <1>3, Zenon DEF SameTexts

(* Opening the records of a stack changes nothing in its texts. *)
LEMMA SpeltDue == \A s \in Stacks : \A e : Spelt(Due(s), e) <=> Spelt(s, e)
<1> DEFINE S == {t \in Parts : <<t>> \in SameTexts}
<1>1. <<>> \in SameTexts
  BY Algebra, DueOne DEF SameTexts
<1>2. ASSUME NEW P, P \subseteq S PROVE Seq(P) \subseteq SameTexts
  <2>1. P \subseteq Parts /\ \A x \in P : <<x>> \in SameTexts
    BY <1>2
  <2>2. \A s \in Seq(P) : s \in Stacks
    BY <2>1 DEF Stacks
  <2> HIDE DEF S
  <2>3. \A x \in P : \A s \in Seq(P) : s \in SameTexts => <<x>> \o s \in SameTexts
    BY <2>1, <2>2, SameTextsJoin
  <2> QED BY <1>1, <2>3, OnStacks
<1>3. ASSUME NEW t \in Above(S) PROVE t \in S
  <2>1. t \in Parts /\ <<t>> \in Stacks
    BY Algebra DEF Above
  <2>2. CASE t.kind = "record"
    <3>1. t.body \in Seq(S)
      <4>1. t.body \in Seq(Parts) /\ \A k \in DOMAIN t.body : t.body[k] \in S
        BY <2>1, <2>2, PartFields DEF Above, Stacks
      <4> HIDE DEF S
      <4>2. DOMAIN t.body = 1..Len(t.body) /\ Len(t.body) \in Nat /\ t.body = [k \in 1..Len(t.body) |-> t.body[k]]
        BY <4>1
      <4> QED BY <4>1, <4>2
    <3>2. t.body \in SameTexts
      BY <1>2, <3>1
    <3>3. Due(<<t>>) = Due(t.body)
      BY <2>1, <2>2, DueOne
    <3>4. \A e : (Spelt(t.body, e) <=> e \in encodings[t]) /\ (Spelt(<<t>>, e) <=> e \in encodings[t])
      BY <2>1, <2>2, SpeltInside, SpeltOne, Zenon
    <3>5. \A e : Spelt(Due(t.body), e) <=> Spelt(t.body, e)
      BY <3>2 DEF SameTexts
    <3> QED BY <2>1, <3>3, <3>4, <3>5, Zenon DEF SameTexts
  <2>3. CASE t.kind # "record"
    <3>1. Due(<<t>>) = <<t>>
      BY <2>1, <2>3, DueOne
    <3> QED BY <2>1, <3>1 DEF SameTexts
  <2> QED BY <2>2, <2>3
<1> HIDE DEF S
<1>4. S = Parts
  BY <1>3, OnParts DEF S
<1>5. Stacks \subseteq SameTexts
  BY <1>2, <1>4 DEF Stacks
<1> QED BY <1>5 DEF SameTexts

(* Every stack has a text. *)
LEMMA SpeltSome == \A s \in Stacks : \E e \in Text : Spelt(s, e)
<1> DEFINE S == {t \in Parts : \E e \in Text : e \in encodings[t]}
           G == {s \in Stacks : \E e \in Text : Spelt(s, e)}
<1>1. <<>> \in G
  <2>1. <<>> \in Text /\ Spelt(<<>>, <<>>) /\ <<>> \in Stacks
    BY SpeltNone, Algebra DEF Text
  <2> QED BY <2>1
<1>2. ASSUME NEW P, P \subseteq S PROVE Seq(P) \subseteq G
  <2>1. P \subseteq Parts
    BY <1>2
  <2>2. \A s \in Seq(P) : s \in Stacks
    BY <2>1 DEF Stacks
  <2>3. ASSUME NEW x \in P, NEW s \in Seq(P), s \in G PROVE <<x>> \o s \in G
    <3>1. PICK v \in Text : Spelt(s, v)
      BY <2>3
    <3>2. PICK u \in Text : u \in encodings[x]
      BY <1>2
    <3>3. x \in Parts /\ <<x>> \in Stacks /\ s \in Stacks /\ <<x>> \o s \in Stacks
      BY <2>1, <2>2, Algebra
    <3>4. Spelt(<<x>>, u)
      BY <3>2, <3>3, SpeltOne
    <3>5. Spelt(<<x>> \o s, u \o v)
      BY <3>1, <3>3, <3>4, SpeltConcat DEF Splits
    <3>6. u \o v \in Text
      BY Words DEF Text
    <3> QED BY <3>3, <3>5, <3>6
  <2> HIDE DEF G, S
  <2> QED BY <1>1, <2>3, OnStacks
<1>3. ASSUME NEW t \in Above(S) PROVE t \in S
  <2>1. t \in Parts
    BY DEF Above
  <2>2. CASE t.kind = "record"
    <3>1. t.body \in Seq(S)
      <4>1. t.body \in Seq(Parts) /\ \A k \in DOMAIN t.body : t.body[k] \in S
        BY <2>1, <2>2, PartFields DEF Above, Stacks
      <4> HIDE DEF S
      <4>2. DOMAIN t.body = 1..Len(t.body) /\ Len(t.body) \in Nat /\ t.body = [k \in 1..Len(t.body) |-> t.body[k]]
        BY <4>1
      <4> QED BY <4>1, <4>2
    <3>2. t.body \in G
      BY <1>2, <3>1
    <3>3. PICK e \in Text : Spelt(t.body, e)
      BY <3>2
    <3>4. e \in encodings[t]
      BY <2>1, <2>2, <3>3, SpeltInside, Zenon
    <3> QED BY <2>1, <3>4
  <2>3. CASE t.kind = "array"
    <3>1. t.base \in S /\ t.size \in Nat /\ MaxSize \in Nat
      BY <2>1, <2>3, PartFields, CodecAssumption DEF Above
    <3>2. t.size \in Sizes(t) /\ t.size \in Nat
      BY <3>1 DEF Sizes
    <3> DEFINE b == [i \in 1..t.size |-> t.base]
    <3>3. b \in Seq(S)
      <4> HIDE DEF S
      <4> QED BY <3>1
    <3>4. b \in G
      BY <1>2, <3>3
    <3>5. PICK v \in Text : Spelt(b, v)
      BY <3>4
    <3> HIDE DEF S, G
    <3>6. <<SizeItem(t.size)>> \o v \in encodings[t]
      BY <2>1, <2>3, <3>2, <3>5, SpeltInside, Zenon
    <3>7. <<SizeItem(t.size)>> \o v \in Text
      BY <2>1, <3>6, EncodingsText
    <3> QED BY <2>1, <3>6, <3>7 DEF S
  <2>4. CASE t.kind \in Scalars
    <3>1. <<Item(t.kind)>> \in encodings[t]
      BY <2>1, <2>4, SpeltInside
    <3>2. <<Item(t.kind)>> \in Text
      BY <2>1, <3>1, EncodingsText
    <3> QED BY <2>1, <3>1, <3>2
  <2> QED BY <2>1, <2>2, <2>3, <2>4, PartFields
<1> HIDE DEF S, G
<1>4. S = Parts
  BY <1>3, OnParts DEF S
<1>5. Stacks \subseteq G
  BY <1>2, <1>4 DEF Stacks
<1> QED BY <1>5 DEF G


(* Nothing is put together from nothing only. *)
LEMMA Emptied == \A u, v \in Text : u \o v = <<>> => u = <<>> /\ v = <<>>
<1> SUFFICES ASSUME NEW u \in Text, NEW v \in Text, u \o v = <<>> PROVE u = <<>> /\ v = <<>>
  OBVIOUS
<1>1. Len(u) \in Nat /\ Len(v) \in Nat /\ Len(u \o v) = Len(u) + Len(v)
  BY Words DEF Text
<1>2. Len(u) = 0 /\ Len(v) = 0
  BY <1>1
<1> QED BY <1>2 DEF Text

(* A stack with nothing to say is one of which nothing is due. *)
LEMMA SpeltSilent == \A s \in Stacks : Spelt(s, <<>>) => Due(s) = <<>>
<1> DEFINE S == {t \in Parts : Spelt(<<t>>, <<>>) => Due(<<t>>) = <<>>}
           G == {s \in Stacks : Spelt(s, <<>>) => Due(s) = <<>>}
<1>1. <<>> \in G
  BY Algebra, DueOne
<1>2. ASSUME NEW P, P \subseteq S PROVE Seq(P) \subseteq G
  <2>1. P \subseteq Parts
    BY <1>2
  <2>2. \A s \in Seq(P) : s \in Stacks
    BY <2>1 DEF Stacks
  <2>3. ASSUME NEW x \in P, NEW s \in Seq(P), s \in G PROVE <<x>> \o s \in G
    <3>1. x \in Parts /\ <<x>> \in Stacks /\ s \in Stacks /\ <<x>> \o s \in Stacks
      BY <2>1, <2>2, Algebra
    <3>2. Due(<<x>> \o s) = Due(<<x>>) \o Due(s)
      BY <3>1, DueConcat
    <3>3. ASSUME Spelt(<<x>> \o s, <<>>) PROVE Due(<<x>> \o s) = <<>>
      <4>1. Splits(<<x>>, s, <<>>)
        BY <3>1, <3>3, SpeltConcat
      <4>2. PICK u \in Text, v \in Text : Spelt(<<x>>, u) /\ Spelt(s, v) /\ <<>> = u \o v
        BY <4>1 DEF Splits
      <4>3. u = <<>> /\ v = <<>>
        BY <4>2, Emptied
      <4>4. Due(<<x>>) = <<>> /\ Due(s) = <<>>
        BY <1>2, <2>3, <4>2, <4>3
      <4> QED BY <3>2, <4>4
    <3> QED BY <3>1, <3>3
  <2> HIDE DEF G, S
  <2> QED BY <1>1, <2>3, OnStacks
<1>3. ASSUME NEW t \in Above(S) PROVE t \in S
  <2>1. t \in Parts
    BY DEF Above
  <2>2. Spelt(<<t>>, <<>>) <=> <<>> \in encodings[t]
    BY <2>1, SpeltOne
  <2>3. CASE t.kind = "record"
    <3>1. t.body \in Seq(S)
      <4>1. t.body \in Seq(Parts) /\ \A k \in DOMAIN t.body : t.body[k] \in S
        BY <2>1, <2>3, PartFields DEF Above, Stacks
      <4> HIDE DEF S
      <4>2. DOMAIN t.body = 1..Len(t.body) /\ Len(t.body) \in Nat /\ t.body = [k \in 1..Len(t.body) |-> t.body[k]]
        BY <4>1
      <4> QED BY <4>1, <4>2
    <3>2. Spelt(t.body, <<>>) => Due(t.body) = <<>>
      BY <1>2, <3>1
    <3>3. Spelt(t.body, <<>>) <=> <<>> \in encodings[t]
      BY <2>1, <2>3, SpeltInside, Zenon
    <3>4. Due(<<t>>) = Due(t.body)
      BY <2>1, <2>3, DueOne
    <3> QED BY <2>1, <2>2, <3>2, <3>3, <3>4
  <2>4. CASE t.kind = "array"
    <3>1. ASSUME <<>> \in encodings[t] PROVE FALSE
      <4>0. \A e : e \in encodings[t] <=>
                   \E n \in Sizes(t), v \in Text :
                     Spelt([i \in 1..n |-> t.base], v) /\ e = <<SizeItem(n)>> \o v
        BY <2>1, <2>4, SpeltInside, Zenon
      <4>1. PICK n \in Sizes(t), v \in Text : <<>> = <<SizeItem(n)>> \o v
        BY <3>1, <4>0, Zenon
      <4>2. n \in Nat
        <5>1. t.size \in Nat /\ MaxSize \in Nat
          BY <2>1, <2>4, PartFields, CodecAssumption
        <5> QED BY <5>1 DEF Sizes
      <4>3. <<SizeItem(n)>> \in Text
        <5>1. \A x \in Written : <<x>> \in Text
          BY DEF Text
        <5> QED BY <4>2, <5>1, WrittenItems
      <4>4. <<SizeItem(n)>> = <<>>
        BY <4>1, <4>3, Emptied
      <4> QED BY <4>4
    <3> QED BY <2>1, <2>2, <3>1
  <2>5. CASE t.kind \in Scalars
    <3>1. encodings[t] = {<<Item(t.kind)>>}
      BY <2>1, <2>5, SpeltInside
    <3>2. \A x : <<>> # <<x>>
      OBVIOUS
    <3>3. ~(<<>> \in encodings[t])
      BY <3>1, <3>2, Zenon
    <3> QED BY <2>1, <2>2, <3>3
  <2> QED BY <2>1, <2>3, <2>4, <2>5, PartFields
<1> HIDE DEF S, G
<1>4. S = Parts
  BY <1>3, OnParts DEF S
<1>5. Stacks \subseteq G
  BY <1>2, <1>4 DEF Stacks
<1> QED BY <1>5 DEF G

(* Texts that begin with one item each are equal in both parts or in none. *)
LEMMA Cancelled ==
  \A a, b \in Written : \A v, w \in Text : <<a>> \o v = <<b>> \o w => a = b /\ v = w
<1> SUFFICES ASSUME NEW a \in Written, NEW b \in Written, NEW v \in Text, NEW w \in Text, <<a>> \o v = <<b>> \o w
             PROVE  a = b /\ v = w
  OBVIOUS
<1>1. \A x \in Written : \A u \in Text : Head(<<x>> \o u) = x /\ Tail(<<x>> \o u) = u
  BY DEF Text
<1> QED BY <1>1

(* An item that takes what is due to what is due next begins the texts of  *)
(* the one that go on like those of the other.                             *)
LEMMA SpeltTaken ==
  ASSUME NEW d \in Stacks, NEW item \in Items, NEW r, Takes(d, item, r), Sized(d, item), NEW e \in Text
  PROVE  Spelt(d, <<item>> \o e) <=> Spelt(r, e)
<1> DEFINE x == Head(d)
           q == Tail(d)
<1>1. /\ x \in Parts /\ q \in Stacks /\ d = <<x>> \o q /\ <<x>> \in Stacks
      /\ x.kind = item.kind /\ item.kind \in Scalars \cup {"array"}
  BY Foremost, Algebra, ItemKinds DEF Takes
<1> HIDE DEF x, q
<1>2. Spelt(d, <<item>> \o e) <=> Splits(<<x>>, q, <<item>> \o e)
  BY <1>1, SpeltConcat
<1>3. \A u : Spelt(<<x>>, u) <=> u \in encodings[x]
  BY <1>1, SpeltOne
<1>4. item \in Written /\ <<item>> \in Text /\ <<item>> \o e \in Text
  <2>1. item \in Written
    BY WrittenItems
  <2>2. <<item>> \in Text
    BY <2>1 DEF Text
  <2> QED BY <2>1, <2>2, Words DEF Text
<1>5. CASE item.kind \in Scalars
  <2>1. r = q
    BY <1>5, CodecAssumption DEF Takes, q
  <2>2. encodings[x] = {<<item>>}
    <3>1. item = Item(item.kind)
      BY <1>5, WrittenItems
    <3> QED BY <1>1, <1>5, <3>1, SpeltInside
  <2>3. ASSUME Splits(<<x>>, q, <<item>> \o e) PROVE Spelt(q, e)
    <3>1. PICK u \in Text, v \in Text : Spelt(<<x>>, u) /\ Spelt(q, v) /\ <<item>> \o e = u \o v
      BY <2>3 DEF Splits
    <3>2. u = <<item>>
      BY <1>3, <2>2, <3>1
    <3>3. v = e
      BY <1>4, <3>1, <3>2, Cancelled
    <3> QED BY <3>1, <3>3
  <2>4. ASSUME Spelt(q, e) PROVE Splits(<<x>>, q, <<item>> \o e)
    <3>1. Spelt(<<x>>, <<item>>)
      BY <1>3, <2>2
    <3> QED BY <1>4, <2>4, <3>1 DEF Splits
  <2> QED BY <1>2, <2>1, <2>3, <2>4
<1>6. CASE item.kind = "array"
  <2> DEFINE n == item.size
             b == [i \in 1..n |-> x.base]
  <2>1. n \in 0..MaxSize /\ item = SizeItem(n) /\ MaxSize \in Nat /\ n \in Nat
    BY <1>6, WrittenItems, CodecAssumption
  <2>2. x.base \in Parts /\ x.size \in {0, n} /\ x.size \in Nat
    <3>1. x.size \in {0, n}
      BY <1>6 DEF Sized, x
    <3> QED BY <1>1, <1>6, <3>1, PartFields
  <2>3. n \in Sizes(x) /\ Sizes(x) \subseteq Nat
    BY <2>1, <2>2 DEF Sizes
  <2>4. b \in Stacks
    BY <2>1, <2>2 DEF Stacks
  <2>5. r = Due(b) \o q
    BY <1>6 DEF Takes, x, q
  <2>6. \A u : u \in encodings[x] <=>
                 \E m \in Sizes(x), v \in Text : Spelt([i \in 1..m |-> x.base], v) /\ u = <<SizeItem(m)>> \o v
    BY <1>1, <1>6, SpeltInside, Zenon
  <2> HIDE DEF b
  <2>7. Due(b) \in Stacks /\ \A u : Spelt(Due(b), u) <=> Spelt(b, u)
    BY <2>4, DueType, SpeltDue
  <2>8. Spelt(r, e) <=> Splits(Due(b), q, e)
    BY <1>1, <2>5, <2>7, SpeltConcat
  <2>9. ASSUME Splits(<<x>>, q, <<item>> \o e) PROVE Splits(Due(b), q, e)
    <3>1. PICK u \in Text, v \in Text : Spelt(<<x>>, u) /\ Spelt(q, v) /\ <<item>> \o e = u \o v
      BY <2>9 DEF Splits
    <3>2. PICK m \in Sizes(x), w \in Text : Spelt([i \in 1..m |-> x.base], w) /\ u = <<SizeItem(m)>> \o w
      BY <1>3, <2>6, <3>1, Zenon
    <3>3. m \in Nat /\ SizeItem(m) \in Written /\ SizeItem(m).size = m /\ SizeItem(n).size = n
      BY <2>1, <2>3, WrittenItems
    <3>4. (<<SizeItem(m)>> \o w) \o v = <<SizeItem(m)>> \o (w \o v) /\ w \o v \in Text
      <4>1. <<SizeItem(m)>> \in Text
        BY <3>3 DEF Text
      <4> QED BY <4>1, Words DEF Text
    <3>5. <<item>> \o e = <<SizeItem(m)>> \o (w \o v)
      BY <3>1, <3>2, <3>4, Zenon
    <3>6. item = SizeItem(m) /\ e = w \o v
      <4> DEFINE z == w \o v
                 k == SizeItem(m)
      <4>1. z \in Text /\ <<item>> \o e = <<k>> \o z /\ k \in Written
        BY <3>3, <3>4, <3>5
      <4> HIDE DEF z, k
      <4>2. \A b2 \in Written : \A v2, w2 \in Text : <<item>> \o v2 = <<b2>> \o w2 => item = b2 /\ v2 = w2
        BY <1>4, Cancelled, Zenon
      <4>3. item = k /\ e = z
        BY <4>1, <4>2, Zenon
      <4> QED BY <4>3 DEF z, k
    <3>7. m = n
      BY <2>1, <3>3, <3>6
    <3>8. Spelt(b, w)
      BY <3>2, <3>7 DEF b
    <3> QED BY <2>7, <3>1, <3>6, <3>8, Zenon DEF Splits
  <2>10. ASSUME Splits(Due(b), q, e) PROVE Splits(<<x>>, q, <<item>> \o e)
    <3>1. PICK w \in Text, v \in Text : Spelt(b, w) /\ Spelt(q, v) /\ e = w \o v
      BY <2>7, <2>10, Zenon DEF Splits
    <3>2. <<item>> \o w \in encodings[x]
      <4>1. Spelt([i \in 1..n |-> x.base], w)
        BY <3>1 DEF b
      <4>2. <<item>> \o w = <<SizeItem(n)>> \o w
        BY <2>1
      <4> QED BY <2>3, <2>6, <4>1, <4>2, Zenon
    <3>3. <<item>> \o w \in Text /\ (<<item>> \o w) \o v = <<item>> \o (w \o v)
      BY <1>4, Words DEF Text
    <3>4. Spelt(<<x>>, <<item>> \o w)
      BY <1>3, <3>2
    <3>5. <<item>> \o e = (<<item>> \o w) \o v
      BY <3>1, <3>3
    <3> QED BY <3>1, <3>3, <3>4, <3>5, Zenon DEF Splits
  <2> QED BY <1>2, <2>8, <2>9, <2>10
<1> QED BY <1>1, <1>5, <1>6

----------------------------------------------------------------------------
(* What goes on after the items written is what is due to the writer.      *)
Continues(t, w, o) == \A e \in Text : o \o e \in encodings[t] <=> Spelt(Due(w), e)

Conforming ==
  type # Untyped /\ ~spoilt /\ cells = <<>> => type \in Parts /\ Continues(type, wstack, out)

LEMMA ItemsText == \A o \in Seq(Items) : o \in Text
<1>1. Items \subseteq Written
  BY WrittenItems
<1> QED BY <1>1 DEF Text

LEMMA Appended ==
  ASSUME NEW o \in Seq(Items), NEW item \in Items, NEW e \in Text
  PROVE  <<item>> \o e \in Text /\ Append(o, item) \o e = o \o (<<item>> \o e)
<1>1. item \in Written /\ o \in Text
  BY WrittenItems, ItemsText
<1>2. <<item>> \in Text /\ Append(o, item) = o \o <<item>>
  BY <1>1 DEF Text
<1> QED BY <1>1, <1>2, Words DEF Text

(* An item that fits takes the texts that go on to those of the rest. *)
LEMMA ContinuesOn ==
  ASSUME NEW t, NEW w \in Stacks, NEW v \in Stacks, NEW o \in Seq(Items), NEW item \in Items,
         Continues(t, w, o), Takes(Due(w), item, Due(v)), Sized(Due(w), item)
  PROVE  Continues(t, v, Append(o, item))
<1> SUFFICES ASSUME NEW e \in Text PROVE Append(o, item) \o e \in encodings[t] <=> Spelt(Due(v), e)
  BY DEF Continues
<1>1. <<item>> \o e \in Text /\ Append(o, item) \o e = o \o (<<item>> \o e)
  BY Appended
<1>2. o \o (<<item>> \o e) \in encodings[t] <=> Spelt(Due(w), <<item>> \o e)
  BY <1>1, Zenon DEF Continues
<1>3. Due(w) \in Stacks
  BY DueType
<1>4. Spelt(Due(w), <<item>> \o e) <=> Spelt(Due(v), e)
  BY <1>3, SpeltTaken
<1> QED BY <1>1, <1>2, <1>4, Zenon

(* It stays true of what writes nothing: that opens a record at most. *)
LEMMA ConformingKept ==
  ASSUME Conforming, UNCHANGED <<type, out>>, cells' = <<>> => cells = <<>>, spoilt => spoilt',
         wstack \in Stacks, wstack' \in {wstack, Opened(wstack)}
  PROVE  Conforming'
<1>1. Due(wstack') = Due(wstack)
  BY DueOpened
<1> QED BY <1>1 DEF Conforming, Continues

LEMMA ConformingWrites == IInv /\ Conforming /\ Writes /\ UNCHANGED cells => Conforming'
<1> SUFFICES ASSUME IInv, Conforming, Writes, UNCHANGED cells PROVE Conforming'
  OBVIOUS
<1>0. wstack \in Stacks /\ out \in Seq(Items)
  BY DEF IInv, Typed, TypeOK
<1>1. ASSUME NEW item \in Items, out' = Append(out, item), UNCHANGED <<type, spoilt>>,
             type # Untyped => wstack' \in Stacks /\ Takes(Due(wstack), item, Due(wstack')) /\ Sized(Due(wstack), item)
      PROVE  Conforming'
  BY <1>0, <1>1, ContinuesOn DEF Conforming
<1>2. ASSUME NEW kind \in Scalars, Write(kind) PROVE Conforming'
  <2>1. out' = Append(out, Item(kind)) /\ UNCHANGED <<type, spoilt>>
    BY <1>2 DEF Write
  <2> QED BY <1>1, <1>2, <2>1, Kinds, WriteTakes
<1>3. ASSUME NEW n \in 0..MaxSize, WriteSize(n) PROVE Conforming'
  <2>1. out' = Append(out, SizeItem(n)) /\ UNCHANGED <<type, spoilt>> /\ SizeItem(n) \in Items
    BY <1>3 DEF WriteSize, Items
  <2> QED BY <1>1, <1>3, <2>1, SizeTakes
<1>4. ASSUME NEW kind, RefuseWrite(kind) PROVE Conforming'
  BY <1>0, <1>4, ConformingKept DEF RefuseWrite
<1>5. ASSUME NEW n \in 0..MaxSize, RefuseSize(n) PROVE Conforming'
  BY <1>5 DEF RefuseSize, Conforming
<1> QED BY <1>2, <1>3, <1>4, <1>5 DEF Writes

(* Every step keeps it. *)
LEMMA ConformingStep == IInv /\ Conforming /\ [CsvNext]_allvars => Conforming'
<1> SUFFICES ASSUME IInv, Conforming, [CsvNext]_allvars PROVE Conforming'
  OBVIOUS
<1>0. wstack \in Stacks /\ spoilt \in BOOLEAN /\ cells' \in {cells, Append(cells, Column)}
  BY DEF IInv, Typed, TypeOK, CsvNext, readCsv, Cell, OpenRecord, CellSize, GetCell, NoCell, EndRow, csvvars, allvars
<1>1. CASE Writes /\ UNCHANGED csvvars
  BY <1>1, ConformingWrites DEF csvvars
<1>2. CASE ((Build \/ Reads \/ readData) /\ UNCHANGED csvvars) \/ UNCHANGED allvars
  <2>1. UNCHANGED <<type, out, wstack, cells>> /\ (spoilt => spoilt')
    BY <1>2 DEF Build, Reads, Read, RefuseRead, ReadSize, readData, Open, Dump, DumpSize, csvvars, allvars, vars, wvars
  <2> QED BY <1>0, <2>1, ConformingKept
<1>3. CASE OpenRecord \/ NoCell \/ EndRow
  <2>1. UNCHANGED <<type, out, cells, spoilt>> /\ wstack' \in {wstack, Opened(wstack)}
    BY <1>3 DEF OpenRecord, NoCell, EndRow, csvvars, wvars
  <2> QED BY <1>0, <2>1, ConformingKept
<1>4. CASE Cell \/ \E n \in 0..MaxSize : CellSize(n)
  <2>1. cells' # <<>>
    BY <1>4 DEF Cell, CellSize, GetCell
  <2> QED BY <2>1 DEF Conforming
<1> QED BY <1>1, <1>2, <1>3, <1>4 DEF CsvNext, Next, readCsv

LEMMA ConformingInitially == CsvInit => Conforming
<1> SUFFICES ASSUME CsvInit, type # Untyped PROVE type \in Parts /\ Continues(type, wstack, out)
  BY DEF Conforming
<1>1. type \in Parts /\ wstack = <<type>> /\ out = <<>>
  BY CodecAssumption DEF CsvInit, Init, RowInit
<1>2. <<type>> \in Stacks
  BY <1>1, Algebra
<1>3. ASSUME NEW e \in Text PROVE out \o e \in encodings[type] <=> Spelt(Due(wstack), e)
  <2>1. out \o e = e
    BY <1>1, Words DEF Text
  <2>2. Spelt(Due(<<type>>), e) <=> Spelt(<<type>>, e)
    BY <1>2, SpeltDue
  <2> QED BY <1>1, <2>1, <2>2, SpeltOne, Zenon
<1> QED BY <1>1, <1>3 DEF Continues

(* What a typed writer has taken can always be completed to an encoding of *)
(* its type, and is one exactly when nothing is due any more, for types of *)
(* any shape: the stack says all there is to say about what may follow.    *)
THEOREM WriterConforms == CsvSpec => []Conforms
<1>1. IInv /\ Conforming => Conforms
  <2> SUFFICES ASSUME IInv, type \in Parts, Continues(type, wstack, out)
               PROVE  /\ \E e \in encodings[type] : IsPrefix(out, e)
                      /\ Due(wstack) = <<>> <=> out \in encodings[type]
    BY DEF Conforming, Conforms
  <2>1. wstack \in Stacks /\ Due(wstack) \in Stacks /\ out \in Text
    BY DueType, ItemsText DEF IInv, Typed, TypeOK
  <2>2. \E e \in encodings[type] : IsPrefix(out, e)
    <3>1. PICK e \in Text : Spelt(Due(wstack), e)
      BY <2>1, SpeltSome
    <3>2. out \o e \in encodings[type]
      BY <3>1 DEF Continues
    <3>3. IsPrefix(out, out \o e)
      BY <2>1 DEF IsPrefix, Text
    <3> QED BY <3>2, <3>3
  <2>3. <<>> \in Text /\ out \o <<>> = out
    BY <2>1, Words DEF Text
  <2>4. out \in encodings[type] <=> Spelt(Due(wstack), <<>>)
    BY <2>3, Zenon DEF Continues
  <2>5. Due(wstack) = <<>> => Spelt(Due(wstack), <<>>)
    BY SpeltNone
  <2>6. Spelt(Due(wstack), <<>>) => Due(wstack) = <<>>
    <3>1. Spelt(Due(wstack), <<>>) <=> Spelt(wstack, <<>>)
      BY <2>1, SpeltDue
    <3> QED BY <2>1, <3>1, SpeltSilent
  <2> QED BY <2>2, <2>4, <2>5, <2>6
<1>2. CsvSpec => []Conforming
  BY ConformingInitially, ConformingStep, Invariance, PTL DEF CsvSpec
<1> QED BY <1>1, <1>2, Invariance, PTL
============================================================================
