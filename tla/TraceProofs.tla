---------------------------- MODULE TraceProofs ----------------------------
(***************************************************************************)
(* Facts about the meaning of a formula that the proofs about the loops    *)
(* use: the meaning over instants is the meaning over the visible rows.    *)
(***************************************************************************)
EXTENDS Trace, TLAPS

AllOps == FutureOps \cup PastOps

(* The fields of a call, as the provers need them. *)
LEMMA CallFields ==
  ASSUME NEW c \in CallsOf(AllOps)
  PROVE  /\ c.op \in AllOps
         /\ c.lhs \in [Row -> BOOLEAN] /\ c.rhs \in [Row -> BOOLEAN]
         /\ c.lo # None => c.lo \in Int
         /\ c.hi # None => c.hi \in Int
         /\ c.time \in [Row -> Int]
         /\ \A i, j \in Row : i <= j => c.time[i] <= c.time[j]
         /\ c.start \in 1..N /\ c.start \in Row
         /\ Now(c) \in Int
<1>1. c \in [op : AllOps, lhs : Operands, rhs : Operands, lo : Bounds, hi : Bounds,
             time : Traces, start : 1..N]
  BY DEF CallsOf
<1>2. c.op \in AllOps /\ c.lhs \in Operands /\ c.rhs \in Operands /\ c.lo \in Bounds
      /\ c.hi \in Bounds /\ c.time \in Traces /\ c.start \in 1..N
  BY <1>1
<1>3. c.time \in [Row -> Time] /\ \A i, j \in Row : i <= j => c.time[i] <= c.time[j]
  BY <1>2 DEF Traces
<1>4. c.time \in [Row -> Int]
  BY <1>3, TraceAssumption
<1>5. c.start \in Row
  BY <1>2, TraceAssumption DEF Row
<1> QED
  BY <1>2, <1>3, <1>4, <1>5, TraceAssumption DEF Bounds, Now

(* An instant of a row that is looked at first comes first, unless both    *)
(* are the same row.                                                       *)
LEMMA InstantsOrdered ==
  ASSUME NEW c \in CallsOf(AllOps), NEW i \in Reach(c), NEW j \in Reach(c),
         NEW t \in Instants(c, i), NEW u \in Instants(c, j)
  PROVE  /\ t \in Int /\ u \in Int
         /\ Nearer(c, j, i) => Nearer(c, u, t)
         /\ Nearer(c, u, t) => Nearer(c, j, i) \/ j = i
<1> DEFINE past == c.op \in PastOps
<1>1. i \in Row /\ j \in Row /\ N \in Nat
  BY CallFields, TraceAssumption DEF Reach, Row
<1>2. /\ past => i - 1 \in Row /\ j - 1 \in Row
      /\ ~past => i + 1 \in Row /\ j + 1 \in Row
  BY CallFields, TraceAssumption DEF Reach, Row
<1>3. t \in Int /\ u \in Int
  BY <1>1, <1>2, CallFields DEF Instants, Covered
<1>4. CASE past
  <2>1. /\ c.time[i - 1] <= t /\ t < c.time[i]
        /\ c.time[j - 1] <= u /\ u < c.time[j]
    BY <1>1, <1>2, <1>4, CallFields DEF Instants, Covered
  <2>2. i < j => c.time[i] <= c.time[j - 1]
    BY <1>1, <1>2, <1>4, CallFields DEF Row
  <2>3. j < i => c.time[j] <= c.time[i - 1]
    BY <1>1, <1>2, <1>4, CallFields DEF Row
  <2>4. c.time[i - 1] \in Int /\ c.time[j - 1] \in Int /\ c.time[i] \in Int /\ c.time[j] \in Int
    BY <1>1, <1>2, <1>4, CallFields
  <2> QED BY <1>1, <1>3, <1>4, <2>1, <2>2, <2>3, <2>4 DEF Nearer, Row
<1>5. CASE ~past
  <2>1. /\ c.time[i] <= t /\ t < c.time[i + 1]
        /\ c.time[j] <= u /\ u < c.time[j + 1]
    BY <1>1, <1>2, <1>5, CallFields DEF Instants, Covered
  <2>2. i < j => c.time[i + 1] <= c.time[j]
    BY <1>1, <1>2, <1>5, CallFields DEF Row
  <2>3. j < i => c.time[j + 1] <= c.time[i]
    BY <1>1, <1>2, <1>5, CallFields DEF Row
  <2>4. c.time[i + 1] \in Int /\ c.time[j + 1] \in Int /\ c.time[i] \in Int /\ c.time[j] \in Int
    BY <1>1, <1>2, <1>5, CallFields
  <2> QED BY <1>1, <1>3, <1>5, <2>1, <2>2, <2>3, <2>4 DEF Nearer, Row
<1> QED BY <1>4, <1>5

(* A visible row has a first instant in the window: the later of the       *)
(* row's start and the window's for a future operator, the last instant    *)
(* before the earlier of their ends for a past one.                        *)
LEMMA FirstInstant ==
  ASSUME NEW c \in CallsOf(AllOps), NEW i \in Reach(c), Instants(c, i) # {}
  PROVE  \E t \in Instants(c, i) : \A u \in Instants(c, i) : ~Nearer(c, u, t)
<1>0. PICK v \in Instants(c, i) : TRUE
  OBVIOUS
<1>1. i \in Row /\ N \in Nat
  BY CallFields, TraceAssumption DEF Reach, Row
<1>2. CASE c.op \in PastOps
  <2> DEFINE end == IF c.lo = None THEN c.time[i] ELSE Earlier(c.time[i], Now(c) - c.lo)
  <2>1. i - 1 \in Row
    BY <1>1, <1>2, CallFields DEF Reach, Row
  <2>2. end \in Int /\ c.time[i] \in Int /\ c.time[i - 1] \in Int
    BY <1>1, <2>1, CallFields DEF Earlier
  <2>3. \A u \in Instants(c, i) : u \in Int /\ u <= end - 1
    BY <1>1, <1>2, <2>1, <2>2, CallFields DEF Instants, Covered, InWindow, Earlier
  <2>4. end - 1 \in Instants(c, i)
    BY <1>0, <1>1, <1>2, <2>1, <2>2, <2>3, CallFields DEF Instants, Covered, InWindow, Earlier
  <2> QED BY <1>2, <2>2, <2>3, <2>4 DEF Nearer
<1>3. CASE c.op \notin PastOps
  <2> DEFINE first == IF c.lo = None THEN c.time[i] ELSE Later(c.time[i], Now(c) + c.lo)
  <2>1. i + 1 \in Row
    BY <1>1, <1>3, CallFields DEF Reach, Row
  <2>2. first \in Int /\ c.time[i] \in Int /\ c.time[i + 1] \in Int
    BY <1>1, <2>1, CallFields DEF Later
  <2>3. \A u \in Instants(c, i) : u \in Int /\ first <= u
    BY <1>1, <1>3, <2>1, <2>2, CallFields DEF Instants, Covered, InWindow, Later
  <2>4. first \in Instants(c, i)
    BY <1>0, <1>1, <1>3, <2>1, <2>2, <2>3, CallFields DEF Instants, Covered, InWindow, Later
  <2> QED BY <1>3, <2>2, <2>3, <2>4 DEF Nearer
<1> QED BY <1>2, <1>3

(***************************************************************************)
(* THEOREM: a windowed formula may be decided row by row.  Looking only at *)
(* the rows that have an instant in the window, in the order the loop      *)
(* visits them, gives the truth value over the window's instants.  It is   *)
(* why a loop over rows can evaluate a formula about continuous time.      *)
(***************************************************************************)
THEOREM TimedIsRows ==
  ASSUME NEW c \in CallsOf(AllOps), Bounded(c)
  PROVE  MeaningTimed(c) = MeaningRows(c, Visible(c))
<1> DEFINE V == Visible(c)
<1>1. V = {i \in Reach(c) : Instants(c, i) # {}}
  BY DEF Visible
<1>2. UntilTimed(c) <=> UntilRows(c, V)
  <2>1. ASSUME UntilTimed(c) PROVE UntilRows(c, V)
    <3>0. PICK i \in Reach(c) : \E t \in Instants(c, i) :
            c.rhs[i] /\ \A j \in Reach(c) : \A u \in Instants(c, j) : Nearer(c, u, t) => c.lhs[j]
      BY <2>1 DEF UntilTimed
    <3>1. PICK t \in Instants(c, i) :
            c.rhs[i] /\ \A j \in Reach(c) : \A u \in Instants(c, j) : Nearer(c, u, t) => c.lhs[j]
      BY <3>0
    <3>2. i \in V
      BY <1>1, <3>1
    <3>3. ASSUME NEW j \in V, Nearer(c, j, i) PROVE c.lhs[j]
      <4>1. PICK u \in Instants(c, j) : TRUE
        BY <1>1
      <4>2. Nearer(c, u, t)
        BY <1>1, <3>3, InstantsOrdered
      <4> QED BY <1>1, <3>1, <4>2
    <3> QED BY <3>1, <3>2, <3>3 DEF UntilRows
  <2>2. ASSUME UntilRows(c, V) PROVE UntilTimed(c)
    <3>1. PICK i \in V : c.rhs[i] /\ \A j \in V : Nearer(c, j, i) => c.lhs[j]
      BY <2>2 DEF UntilRows
    <3>2. PICK t \in Instants(c, i) : \A u \in Instants(c, i) : ~Nearer(c, u, t)
      BY <1>1, FirstInstant
    <3>3. ASSUME NEW j \in Reach(c), NEW u \in Instants(c, j), Nearer(c, u, t)
          PROVE  c.lhs[j]
      <4>1. Nearer(c, j, i)
        BY <1>1, <3>2, <3>3, InstantsOrdered
      <4> QED BY <1>1, <3>1, <4>1
    <3> QED BY <1>1, <3>1, <3>3 DEF UntilTimed
  <2> QED BY <2>1, <2>2
<1>3. ReleaseTimed(c) <=> ReleaseRows(c, V)
  <2>1. ASSUME ReleaseTimed(c) PROVE ReleaseRows(c, V)
    <3> SUFFICES ASSUME NEW i \in V, ~c.rhs[i]
                 PROVE  \E j \in V : Nearer(c, j, i) /\ c.lhs[j]
      BY DEF ReleaseRows
    <3>1. PICK t \in Instants(c, i) : \A u \in Instants(c, i) : ~Nearer(c, u, t)
      BY <1>1, FirstInstant
    <3>2. PICK j \in Reach(c) : \E u \in Instants(c, j) : Nearer(c, u, t) /\ c.lhs[j]
      BY <1>1, <2>1 DEF ReleaseTimed
    <3>3. PICK u \in Instants(c, j) : Nearer(c, u, t) /\ c.lhs[j]
      BY <3>2
    <3>4. Nearer(c, j, i)
      BY <1>1, <3>1, <3>3, InstantsOrdered
    <3> QED BY <1>1, <3>3, <3>4
  <2>2. ASSUME ReleaseRows(c, V) PROVE ReleaseTimed(c)
    <3> SUFFICES ASSUME NEW i \in Reach(c), NEW t \in Instants(c, i), ~c.rhs[i]
                 PROVE  \E j \in Reach(c) : \E u \in Instants(c, j) : Nearer(c, u, t) /\ c.lhs[j]
      BY DEF ReleaseTimed
    <3>1. PICK j \in V : Nearer(c, j, i) /\ c.lhs[j]
      BY <1>1, <2>2 DEF ReleaseRows
    <3>2. PICK u \in Instants(c, j) : TRUE
      BY <1>1
    <3>3. Nearer(c, u, t)
      BY <1>1, <3>1, InstantsOrdered
    <3> QED BY <1>1, <3>1, <3>3
  <2> QED BY <2>1, <2>2
<1>4. (\A i \in Reach(c) : Instants(c, i) # {} => c.lhs[i]) <=> \A i \in V : c.lhs[i]
  BY <1>1
<1>5. (\E i \in Reach(c) : Instants(c, i) # {} /\ c.lhs[i]) <=> \E i \in V : c.lhs[i]
  BY <1>1
<1> HIDE DEF V
<1> QED BY <1>2, <1>3, <1>4, <1>5 DEF MeaningTimed, MeaningRows, V

(***************************************************************************)
(* Both meanings in one: what a loop has to compute.                       *)
(***************************************************************************)
COROLLARY MeaningIsRows ==
  ASSUME NEW c \in CallsOf(AllOps)
  PROVE  Meaning(c) = MeaningRows(c, Visible(c))
<1>1. CASE Bounded(c)
  BY <1>1, TimedIsRows DEF Meaning
<1>2. CASE ~Bounded(c)
  <2>1. Visible(c) = Reach(c)
    BY <1>2 DEF Visible
  <2> QED BY <1>2, <2>1 DEF Meaning
<1> QED BY <1>1, <1>2
----------------------------------------------------------------------------
(* Neither operand of the row has the value that decides. *)
Undecided(c, i) == c.rhs[i] # RhsV(c.op) /\ c.lhs[i] # LhsV(c.op)

(* The four kinds of operators and the values the compiler passes for them.*)
LEMMA OpKinds ==
  ASSUME NEW op \in AllOps
  PROVE  \/ op \in {"Us", "Ss"} /\ RhsV(op) = TRUE /\ LhsV(op) = FALSE /\ EndV(op) = FALSE
         \/ op \in {"Uw", "Sw"} /\ RhsV(op) = TRUE /\ LhsV(op) = FALSE /\ EndV(op) = TRUE
         \/ op \in {"Rs", "Ts"} /\ RhsV(op) = FALSE /\ LhsV(op) = TRUE /\ EndV(op) = FALSE
         \/ op \in {"Rw", "Tw"} /\ RhsV(op) = FALSE /\ LhsV(op) = TRUE /\ EndV(op) = TRUE
BY DEF AllOps, FutureOps, PastOps, RhsV, LhsV, EndV

(* A formula none of whose visible rows decides has the value endV. *)
LEMMA NoDecision ==
  ASSUME NEW c \in CallsOf(AllOps), NEW V \in SUBSET Row, \A i \in V : Undecided(c, i)
  PROVE  MeaningRows(c, V) = EndV(c.op)
<1>1. c.op \in AllOps /\ \A i \in V : c.lhs[i] \in BOOLEAN /\ c.rhs[i] \in BOOLEAN
  BY CallFields
<1>2. CASE c.op \in {"Us", "Ss"} \/ c.op \in {"Uw", "Sw"}
  <2>1. RhsV(c.op) = TRUE /\ LhsV(c.op) = FALSE
    BY <1>2 DEF RhsV, LhsV
  <2>2. \A i \in V : ~c.rhs[i] /\ c.lhs[i]
    BY <1>1, <2>1 DEF Undecided
  <2>3. ~UntilRows(c, V) /\ \A i \in V : c.lhs[i]
    BY <2>2 DEF UntilRows
  <2>4. MeaningRows(c, V) <=> c.op \in {"Uw", "Sw"}
    BY <1>2, <2>3 DEF MeaningRows
  <2> QED BY <1>1, <1>2, <2>4, OpKinds DEF MeaningRows
<1>3. CASE c.op \in {"Rs", "Ts"} \/ c.op \in {"Rw", "Tw"}
  <2>1. RhsV(c.op) = FALSE /\ LhsV(c.op) = TRUE
    BY <1>3 DEF RhsV, LhsV
  <2>2. \A i \in V : c.rhs[i] /\ ~c.lhs[i]
    BY <1>1, <2>1 DEF Undecided
  <2>3. ReleaseRows(c, V) /\ ~\E i \in V : c.lhs[i]
    BY <2>2 DEF ReleaseRows
  <2>4. MeaningRows(c, V) <=> c.op \in {"Rw", "Tw"}
    BY <1>3, <2>3 DEF MeaningRows
  <2> QED BY <1>1, <1>3, <2>4, OpKinds DEF MeaningRows
<1> QED BY <1>1, <1>2, <1>3, OpKinds

(* The first row that decides gives its verdict: rhsV if rhs decides, lhsV *)
(* if lhs does.                                                            *)
LEMMA Decision ==
  ASSUME NEW c \in CallsOf(AllOps), NEW V \in SUBSET Row, NEW i \in V,
         \A j \in V : Nearer(c, j, i) => Undecided(c, j)
  PROVE  /\ c.rhs[i] = RhsV(c.op) => MeaningRows(c, V) = RhsV(c.op)
         /\ c.rhs[i] # RhsV(c.op) /\ c.lhs[i] = LhsV(c.op) => MeaningRows(c, V) = LhsV(c.op)
<1>1. /\ c.op \in AllOps
      /\ \A j \in V : j \in Int /\ c.lhs[j] \in BOOLEAN /\ c.rhs[j] \in BOOLEAN
  BY CallFields, TraceAssumption DEF Row
<1>2. \A j \in V : Nearer(c, j, i) \/ j = i \/ Nearer(c, i, j)
  BY <1>1 DEF Nearer
<1>3. ~Nearer(c, i, i)
  BY <1>1 DEF Nearer
<1>4. CASE c.op \in {"Us", "Ss"} \/ c.op \in {"Uw", "Sw"}
  <2>1. RhsV(c.op) = TRUE /\ LhsV(c.op) = FALSE
    BY <1>4 DEF RhsV, LhsV
  <2>2. \A j \in V : Nearer(c, j, i) => ~c.rhs[j] /\ c.lhs[j]
    BY <1>1, <2>1 DEF Undecided
  <2>3. c.rhs[i] => UntilRows(c, V)
    BY <2>2 DEF UntilRows
  <2>4. ~c.rhs[i] /\ ~c.lhs[i] => ~UntilRows(c, V) /\ ~\A j \in V : c.lhs[j]
    BY <1>2, <2>2 DEF UntilRows
  <2> QED BY <1>1, <1>4, <2>1, <2>3, <2>4 DEF MeaningRows
<1>5. CASE c.op \in {"Rs", "Ts"} \/ c.op \in {"Rw", "Tw"}
  <2>1. RhsV(c.op) = FALSE /\ LhsV(c.op) = TRUE
    BY <1>5 DEF RhsV, LhsV
  <2>2. \A j \in V : Nearer(c, j, i) => c.rhs[j] /\ ~c.lhs[j]
    BY <1>1, <2>1 DEF Undecided
  <2>3. ~c.rhs[i] => ~ReleaseRows(c, V)
    BY <2>2 DEF ReleaseRows
  <2>4. c.rhs[i] /\ c.lhs[i] => ReleaseRows(c, V) /\ \E j \in V : c.lhs[j]
    BY <1>2, <2>2 DEF ReleaseRows
  <2> QED BY <1>1, <1>5, <2>1, <2>3, <2>4 DEF MeaningRows
<1> QED BY <1>1, <1>4, <1>5, OpKinds
=============================================================================
