--------------------------- MODULE DatabaseProofs --------------------------
(***************************************************************************)
(* Proofs about Database: readDB follows the records of Writer, for files  *)
(* of any length, any names, values and times, any width of the numbers,   *)
(* and wherever the file is cut off.                                       *)
(***************************************************************************)
EXTENDS Database, FiniteSetTheorems, SequenceTheorems, TLAPS

Data == Names \cup Payloads \cup {Banner(1), Banner(2)}

Meant == [what : ROOT..PUSH_CONF, id : Nat, name : Names \cup {None},
          time : Times \cup {None}, data : Data]

(* The words of a record in front of its bytes. *)
Skip(line) == IF line.what = PUSH_PROP THEN 3 ELSE 2

(* The words w[b + 1], w[b + 2] ... are the record of a line. *)
RecordAt(w, b, line) ==
  /\ w[b + 1] = Info(line.what, Given(line.id))
  /\ w[b + 2] = Len(line.data) + (Skip(line) - 2)
  /\ line.what = PUSH_PROP => w[b + 3] = line.time
  /\ \A j \in 1..Len(line.data) : w[b + Skip(line) + j] = line.data[j]

(* Those of the first n lines that declare a property, and their number. *)
Decls(lines, n) == {i \in 1..n : lines[i].what = DECL_PROP}

Count(lines, n) == Cardinality(Decls(lines, n))

Typed ==
  /\ TypeOK
  /\ log \in Seq(Meant) /\ file \in Seq(Nat) /\ ends \in Seq(Nat) /\ Len(ends) = Len(log)
  /\ visible \in Nat /\ pos \in Nat
  /\ shown \in Seq([what : Nat, id : Nat, name : Seq(Nat) \cup {None},
                    time : Times \cup {None}, data : Seq(Nat)])
  /\ prop2name \in Seq(Seq(Nat))

(* The file is the records of the lines that were logged, end to end.      *)
Logged ==
  /\ EndOf(Len(log)) = Len(file)
  /\ \A i, j \in 0..Len(log) : i <= j => EndOf(i) <= EndOf(j)
  /\ \A i \in 1..Len(log) :
       /\ log[i].time \in (IF log[i].what = PUSH_PROP THEN Times ELSE {None})
       /\ EndOf(i) = EndOf(i - 1) + Skip(log[i]) + Len(log[i].data)
       /\ RecordAt(file, EndOf(i - 1), log[i])

(* The k-th line that declares a property declares the k-th property, and  *)
(* data is pushed for properties that were declared before.                *)
Declared ==
  /\ Len(props) = Count(log, Len(log))
  /\ \A i \in Decls(log, Len(log)) : log[i].data = props[Count(log, i)]
  /\ \A i \in 1..Len(log) : log[i].what = PUSH_PROP =>
       log[i].id \in 1..Count(log, i) /\ log[i].name = props[log[i].id]

(* readDB is as far as it has printed, and knows the properties declared   *)
(* so far by the numbers the writer gave them.                             *)
Followed ==
  /\ \A i \in 1..Len(shown) : Written(shown[i]) = Written(log[i])
  /\ rstate = "reading" =>
       /\ pos = EndOf(Len(shown))
       /\ Len(prop2name) = 1 + Count(log, Len(shown)) /\ prop2name[1] = Dash
       /\ \A m \in 1..Count(log, Len(shown)) : prop2name[m + 1] = props[m]

Named == \A i \in 1..Len(shown) : NamedByNumber(i)

IInv == Typed /\ Logged /\ Declared /\ Followed /\ Named

----------------------------------------------------------------------------
(* The info word gives back what was put in it. *)
LEMMA InfoWord ==
  ASSUME NEW what \in ROOT..PUSH_CONF, NEW id \in 0..(IdSpan - 1)
  PROVE  Info(what, id) \in Nat /\ What(Info(what, id)) = what /\ Indx(Info(what, id)) = id
<1>1. IdSpan \in Nat \ {0} /\ what \in 1..6
  BY DatabaseAssumption DEF ROOT, PUSH_CONF
<1>2. CASE what = 1
  BY <1>1, <1>2 DEF Info, What, Indx
<1>3. CASE what = 2
  BY <1>1, <1>3 DEF Info, What, Indx
<1>4. CASE what = 3
  BY <1>1, <1>4 DEF Info, What, Indx
<1>5. CASE what = 4
  BY <1>1, <1>5 DEF Info, What, Indx
<1>6. CASE what = 5
  BY <1>1, <1>6 DEF Info, What, Indx
<1>7. CASE what = 6
  BY <1>1, <1>7 DEF Info, What, Indx
<1> QED BY <1>1, <1>2, <1>3, <1>4, <1>5, <1>6, <1>7

(* A number as it is written: at most what was given, the same below the   *)
(* span, and not changed by being written again.                           *)
LEMMA GivenNumber ==
  ASSUME NEW size \in Nat
  PROVE  /\ Given(size) \in 0..(IdSpan - 1) /\ Given(size) \in Nat /\ Given(size) <= size
         /\ size < IdSpan => Given(size) = size
         /\ Given(Given(size)) = Given(size)
<1>1. IdSpan \in Nat \ {0}
  BY DatabaseAssumption
<1>2. Given(size) \in 0..(IdSpan - 1) /\ Given(size) \in Nat /\ Given(size) <= size
  BY <1>1 DEF Given
<1>3. \A n \in Nat : n < IdSpan => Given(n) = n
  BY <1>1 DEF Given
<1> QED BY <1>1, <1>2, <1>3

LEMMA DataType == Data \subseteq Seq(Nat)
<1>1. \A k \in Nat : <<k>> \in Seq(Nat)
  OBVIOUS
<1>2. Banner(1) \in Seq(Nat) /\ Banner(2) \in Seq(Nat)
  BY <1>1 DEF Banner
<1> QED BY <1>2, DatabaseAssumption DEF Data

LEMMA MeantFields ==
  ASSUME NEW line \in Meant
  PROVE  /\ line.what \in ROOT..PUSH_CONF /\ line.what \in 1..6 /\ line.id \in Nat
         /\ line.name \in Names \cup {None} /\ line.time \in Times \cup {None}
         /\ line.data \in Data /\ line.data \in Seq(Nat) /\ Len(line.data) \in Nat
         /\ Given(line.id) \in 0..(IdSpan - 1)
         /\ Skip(line) \in 2..3
<1>1. /\ line.what \in ROOT..PUSH_CONF /\ line.id \in Nat
      /\ line.name \in Names \cup {None} /\ line.time \in Times \cup {None} /\ line.data \in Data
  BY DEF Meant
<1>2. line.data \in Seq(Nat)
  BY <1>1, DataType
<1> QED BY <1>1, <1>2, GivenNumber, LenProperties DEF ROOT, PUSH_CONF, Skip

(* What stands where in a sequence and another behind it. *)
LEMMA Behind ==
  ASSUME NEW s \in Seq(Nat), NEW t \in Seq(Nat)
  PROVE  /\ s \o t \in Seq(Nat) /\ Len(s \o t) = Len(s) + Len(t)
         /\ Len(s) \in Nat /\ Len(t) \in Nat
         /\ \A i \in 1..Len(s) : (s \o t)[i] = s[i]
         /\ \A i \in 1..Len(t) : (s \o t)[Len(s) + i] = t[i]
<1>1. /\ s \o t \in Seq(Nat) /\ Len(s \o t) = Len(s) + Len(t)
      /\ \A i \in 1 .. Len(s) + Len(t) : (s \o t)[i] = IF i <= Len(s) THEN s[i] ELSE t[i - Len(s)]
  BY ConcatProperties
<1>2. Len(s) \in Nat /\ Len(t) \in Nat
  BY LenProperties
<1> QED BY <1>1, <1>2

(* The words of a record. *)
LEMMA PlainWords ==
  ASSUME NEW line \in Meant, line.what # PUSH_PROP
  PROVE  LET words == Words(Info(line.what, Given(line.id)), line.data)
         IN  /\ words \in Seq(Nat) /\ Len(words) = Skip(line) + Len(line.data)
             /\ RecordAt(words, 0, line)
<1> DEFINE info  == Info(line.what, Given(line.id))
           data  == line.data
           head  == <<info, Len(data)>>
           words == head \o data
<1>1. data \in Seq(Nat) /\ Len(data) \in Nat /\ Skip(line) = 2
  BY MeantFields DEF Skip
<1>2. info \in Nat
  BY MeantFields, InfoWord
<1>3. /\ head \in Seq(Nat) /\ Len(head) = 2
      /\ head[1] = info /\ head[2] = Len(data)
  <2> HIDE DEF info, data
  <2> QED BY <1>1, <1>2
<1>4. /\ words \in Seq(Nat) /\ Len(words) = Len(head) + Len(data)
      /\ \A i \in 1..Len(head) : words[i] = head[i]
      /\ \A i \in 1..Len(data) : words[Len(head) + i] = data[i]
  <2> HIDE DEF data, head
  <2> QED BY <1>1, <1>3, Behind
<1>5. words = Words(Info(line.what, Given(line.id)), line.data)
  BY DEF Words
<1> HIDE DEF head, words
<1>6. RecordAt(words, 0, line)
  <2>1. words[1] = info /\ words[2] = Len(data)
    BY <1>3, <1>4
  <2>2. \A j \in 1..Len(data) : words[2 + j] = data[j]
    BY <1>3, <1>4
  <2> QED BY <1>1, <2>1, <2>2 DEF RecordAt
<1> QED BY <1>1, <1>3, <1>4, <1>5, <1>6

LEMMA DataWords ==
  ASSUME NEW line \in Meant, line.what = PUSH_PROP, line.time \in Nat
  PROVE  LET words == TimedWords(Info(line.what, Given(line.id)), line.time, line.data)
         IN  /\ words \in Seq(Nat) /\ Len(words) = Skip(line) + Len(line.data)
             /\ RecordAt(words, 0, line)
<1> DEFINE info  == Info(line.what, Given(line.id))
           data  == line.data
           head  == <<info, Len(data) + 1, line.time>>
           words == head \o data
<1>1. data \in Seq(Nat) /\ Len(data) \in Nat /\ Skip(line) = 3
  BY MeantFields DEF Skip
<1>2. info \in Nat
  BY MeantFields, InfoWord
<1>3. /\ head \in Seq(Nat) /\ Len(head) = 3
      /\ head[1] = info /\ head[2] = Len(data) + 1 /\ head[3] = line.time
  <2> HIDE DEF info, data
  <2> QED BY <1>1, <1>2
<1>4. /\ words \in Seq(Nat) /\ Len(words) = Len(head) + Len(data)
      /\ \A i \in 1..Len(head) : words[i] = head[i]
      /\ \A i \in 1..Len(data) : words[Len(head) + i] = data[i]
  <2> HIDE DEF data, head
  <2> QED BY <1>1, <1>3, Behind
<1>5. words = TimedWords(Info(line.what, Given(line.id)), line.time, line.data)
  BY DEF TimedWords
<1> HIDE DEF head, words
<1>6. RecordAt(words, 0, line)
  <2>1. words[1] = info /\ words[2] = Len(data) + 1 /\ words[3] = line.time
    BY <1>3, <1>4
  <2>2. \A j \in 1..Len(data) : words[3 + j] = data[j]
    BY <1>3, <1>4
  <2> QED BY <1>1, <2>1, <2>2 DEF RecordAt
<1> QED BY <1>1, <1>3, <1>4, <1>5, <1>6

(* The numbers of declarations. *)
LEMMA CountStep ==
  ASSUME NEW lines, NEW n \in Nat
  PROVE  /\ Count(lines, 0) = 0
         /\ Count(lines, n) \in Nat
         /\ Count(lines, n + 1) =
              IF lines[n + 1].what = DECL_PROP THEN Count(lines, n) + 1 ELSE Count(lines, n)
         /\ \A m \in 0..n : Count(lines, m) \in Nat /\ Count(lines, m) <= Count(lines, n)
<1>1. Decls(lines, 0) = {}
  BY DEF Decls
<1>2. \A m \in Nat : IsFiniteSet(Decls(lines, m)) /\ Cardinality(Decls(lines, m)) \in Nat
  <2> SUFFICES ASSUME NEW m \in Nat
               PROVE  IsFiniteSet(Decls(lines, m)) /\ Cardinality(Decls(lines, m)) \in Nat
    OBVIOUS
  <2>1. IsFiniteSet(1..m)
    BY FS_Interval
  <2>2. Decls(lines, m) \subseteq 1..m
    BY DEF Decls
  <2> QED BY <2>1, <2>2, FS_Subset, FS_CardinalityType
<1>3. \A m \in 0..n : Cardinality(Decls(lines, m)) <= Cardinality(Decls(lines, n))
  <2> SUFFICES ASSUME NEW m \in 0..n
               PROVE  Cardinality(Decls(lines, m)) <= Cardinality(Decls(lines, n))
    OBVIOUS
  <2>1. Decls(lines, m) \subseteq Decls(lines, n)
    BY DEF Decls
  <2> QED BY <1>2, <2>1, FS_Subset
<1>4. CASE lines[n + 1].what = DECL_PROP
  <2>1. Decls(lines, n + 1) = Decls(lines, n) \cup {n + 1} /\ n + 1 \notin Decls(lines, n)
    BY <1>4 DEF Decls
  <2>2. Cardinality(Decls(lines, n + 1)) = Cardinality(Decls(lines, n)) + 1
    BY <1>2, <2>1, FS_AddElement
  <2> QED BY <1>1, <1>2, <1>3, <1>4, <2>2, FS_EmptySet DEF Count
<1>5. CASE lines[n + 1].what # DECL_PROP
  <2>1. Decls(lines, n + 1) = Decls(lines, n)
    BY <1>5 DEF Decls
  <2> QED BY <1>1, <1>2, <1>3, <1>5, <2>1, FS_EmptySet DEF Count
<1> QED BY <1>4, <1>5

(* The line that declares a property is counted itself. *)
LEMMA Counted ==
  ASSUME NEW lines, NEW n \in Nat, NEW i \in Decls(lines, n)
  PROVE  i \in 1..n /\ Count(lines, i) \in 1..Count(lines, n)
<1>1. i \in 1..n /\ lines[i].what = DECL_PROP
  BY DEF Decls
<1>2. PICK k \in Nat : i = k + 1
  BY <1>1
<1>3. Count(lines, k + 1) = Count(lines, k) + 1 /\ Count(lines, k) \in Nat
  BY <1>1, <1>2, CountStep
<1>4. Count(lines, i) \in Nat /\ Count(lines, i) <= Count(lines, n) /\ Count(lines, n) \in Nat
  BY <1>1, CountStep
<1> QED BY <1>1, <1>2, <1>3, <1>4

(* Counting looks at the first lines only. *)
LEMMA CountSame ==
  ASSUME NEW lines, NEW more, NEW n \in Nat, \A i \in 1..n : more[i] = lines[i]
  PROVE  /\ \A m \in 0..n : Decls(more, m) = Decls(lines, m)
         /\ \A m \in 0..n : Count(more, m) = Count(lines, m)
<1>1. \A m \in 0..n : Decls(more, m) = Decls(lines, m)
  BY DEF Decls
<1> QED BY <1>1 DEF Count

(* The words of a record that ends inside a file are in the file. *)
LEMMA Within ==
  \A b, e, f, n \in Nat, s \in 2..3 :
    e = b + s + n /\ e <= f => \A k \in 1..(s + n) : b + k \in 1..f
OBVIOUS

(* The length of a record is counted from where it starts. *)
LEMMA Sums == \A b, n \in Nat, s \in 2..3 : b + (s + n) = b + s + n
OBVIOUS

(* A record is where its words are. *)
LEMMA RecordMoves ==
  ASSUME NEW line \in Meant, NEW w, NEW b \in Nat, NEW v, NEW c \in Nat,
         RecordAt(w, b, line),
         \A k \in 1..(Skip(line) + Len(line.data)) : v[c + k] = w[b + k]
  PROVE  RecordAt(v, c, line)
<1>1. Len(line.data) \in Nat /\ Skip(line) \in 2..3 /\ (line.what = PUSH_PROP => Skip(line) = 3)
  BY MeantFields DEF Skip
<1>2. v[c + 1] = w[b + 1] /\ v[c + 2] = w[b + 2] /\ (line.what = PUSH_PROP => v[c + 3] = w[b + 3])
  BY <1>1, SMTT(60)
<1>3. \A j \in 1..Len(line.data) : v[c + Skip(line) + j] = w[b + Skip(line) + j]
  <2> SUFFICES ASSUME NEW j \in 1..Len(line.data)
               PROVE  v[c + Skip(line) + j] = w[b + Skip(line) + j]
    OBVIOUS
  <2>1. CASE Skip(line) = 2
    <3>1. 2 + j \in 1..(2 + Len(line.data)) /\ c + (2 + j) = c + 2 + j /\ b + (2 + j) = b + 2 + j
      BY <1>1
    <3> QED BY <2>1, <3>1
  <2>2. CASE Skip(line) = 3
    <3>1. 3 + j \in 1..(3 + Len(line.data)) /\ c + (3 + j) = c + 3 + j /\ b + (3 + j) = b + 3 + j
      BY <1>1
    <3> QED BY <2>2, <3>1
  <2> QED BY <1>1, <2>1, <2>2
<1> QED BY <1>2, <1>3 DEF RecordAt

----------------------------------------------------------------------------
(* A record written at the end, with the line it was meant to be, keeps    *)
(* the invariant.                                                          *)
LEMMA Appended ==
  ASSUME IInv, NEW line \in Meant, NEW words \in Seq(Nat),
         Len(words) = Skip(line) + Len(line.data), RecordAt(words, 0, line),
         line.time \in (IF line.what = PUSH_PROP THEN Times ELSE {None}),
         Writes(line, words),
         types' \in Nat, props' \in Seq(Names), confs' \in Seq(Names),
         props' = IF line.what = DECL_PROP THEN Append(props, line.data) ELSE props,
         line.what = PUSH_PROP => line.id \in 1..Len(props) /\ line.name = props[line.id]
  PROVE  IInv'
<1>1. /\ log \in Seq(Meant) /\ Len(log) \in Nat /\ file \in Seq(Nat) /\ Len(file) \in Nat
      /\ ends \in Seq(Nat) /\ Len(ends) = Len(log) /\ props \in Seq(Names) /\ Len(props) \in Nat
      /\ Len(shown) \in Nat /\ Len(shown) <= Len(log)
      /\ visible \in Nat /\ visible <= Len(file)
  BY LenProperties DEF IInv, Typed, TypeOK
<1>2. /\ log' \in Seq(Meant) /\ Len(log') = Len(log) + 1 /\ log'[Len(log) + 1] = line
      /\ \A i \in 1..Len(log) : log'[i] = log[i]
  BY <1>1, AppendProperties DEF Writes
<1>a. 0..Len(log') = 0..(Len(log) + 1) /\ 1..Len(log') = 1..(Len(log) + 1)
  BY <1>2, Zenon
<1>3. /\ file' \in Seq(Nat) /\ Len(file') = Len(file) + Len(words)
      /\ \A i \in 1..Len(file) : file'[i] = file[i]
      /\ \A i \in 1..Len(words) : file'[Len(file) + i] = words[i]
      /\ Len(words) \in Nat /\ Len(file') \in Nat
  <2>1. file' = file \o words
    BY DEF Writes
  <2>2. /\ file \o words \in Seq(Nat) /\ Len(file \o words) = Len(file) + Len(words)
        /\ Len(words) \in Nat
        /\ \A i \in 1..Len(file) : (file \o words)[i] = file[i]
        /\ \A i \in 1..Len(words) : (file \o words)[Len(file) + i] = words[i]
    BY <1>1, Behind
  <2>3. file' \in Seq(Nat) /\ Len(file') = Len(file) + Len(words)
    BY <2>1, <2>2
  <2>4. /\ \A i \in 1..Len(file) : file'[i] = file[i]
        /\ \A i \in 1..Len(words) : file'[Len(file) + i] = words[i]
    BY <2>1, <2>2, Zenon
  <2> QED BY <1>1, <2>2, <2>3, <2>4
<1>4. /\ ends' \in Seq(Nat) /\ Len(ends') = Len(log') /\ ends'[Len(log) + 1] = Len(file')
      /\ \A i \in 1..Len(log) : ends'[i] = ends[i]
  <2>1. ends' = Append(ends, Len(file'))
    BY DEF Writes
  <2>2. /\ ends' \in Seq(Nat) /\ Len(ends') = Len(ends) + 1 /\ ends'[Len(ends) + 1] = Len(file')
        /\ \A i \in 1..Len(ends) : ends'[i] = ends[i]
    BY <1>1, <1>3, <2>1, AppendProperties, SMTT(60)
  <2>3. Len(ends) = Len(log) /\ Len(log') = Len(log) + 1
    BY <1>1, <1>2
  <2> QED BY <2>2, <2>3, Zenon
<1>5. /\ \A n \in Nat : n = Len(log) + 1 => EndOf(n)' = Len(file')
      /\ \A n \in 0..Len(log) : EndOf(n)' = EndOf(n)
  <2>1. \A n \in Nat : n = Len(log) + 1 => EndOf(n)' = Len(file')
    BY <1>1, <1>2, <1>4 DEF EndOf
  <2>2. \A n \in 0..Len(log) : EndOf(n)' = EndOf(n)
    BY <1>1, <1>4 DEF EndOf
  <2> QED BY <2>1, <2>2
<1>6. /\ wstate' = wstate /\ visible' = visible /\ rstate' = rstate /\ pos' = pos
      /\ prop2name' = prop2name /\ shown' = shown
  BY DEF Writes, rvars
<1>e. /\ Len(file) \in Nat /\ Len(file') \in Nat /\ Len(file) <= Len(file')
      /\ Len(log) \in Nat /\ Len(log') \in Nat /\ Len(log) <= Len(log')
  <2>1. Len(file) \in Nat /\ Len(words) \in Nat /\ Len(file') = Len(file) + Len(words)
    BY <1>1, <1>3
  <2>2. Len(log) \in Nat /\ Len(log') = Len(log) + 1
    BY <1>1, <1>2
  <2> QED BY <2>1, <2>2, SMTT(60)
<1>7. Typed'
  <2>1. TypeOK'
    <3>1. \A i \in DOMAIN file' : file'[i] \in Nat
      BY <1>3, SMTT(60)
    <3>2. visible' <= Len(file') /\ Len(shown') <= Len(log')
      <4>1. /\ visible \in Nat /\ visible <= Len(file) /\ Len(shown) \in Nat /\ Len(shown) <= Len(log)
        BY <1>1
      <4>2. visible <= Len(file') /\ Len(shown) <= Len(log')
        BY <1>e, <4>1, SMTT(60)
      <4> QED BY <1>6, <4>2, Zenon
    <3>3. /\ wstate' \in {"open", "closed", "crashed"}
          /\ rstate' \in {"reading", "ended", "exited", "aborted"}
          /\ 0 <= pos' /\ pos' <= visible'
      BY <1>6 DEF IInv, Typed, TypeOK
    <3> QED BY <3>1, <3>2, <3>3 DEF TypeOK
  <2> QED BY <1>1, <1>2, <1>3, <1>4, <1>6, <2>1 DEF IInv, Typed
<1>8. Logged'
  <2>1. EndOf(Len(log)) = Len(file)
    BY DEF IInv, Logged
  <2>2. EndOf(Len(log))' = Len(file')
    BY <1>1, <1>2, <1>5
  <2>3. \A n \in 0..Len(log) : EndOf(n) \in Nat /\ EndOf(n) <= Len(file)
    <3>1. \A n \in 0..Len(log) : EndOf(n) \in Nat
      BY <1>1, SMTT(60) DEF EndOf
    <3> QED BY <1>1, <2>1, <3>1, SMTT(60) DEF IInv, Logged
  <2>4. (\A i, j \in 0..Len(log) : i <= j => EndOf(i) <= EndOf(j))'
    <3> SUFFICES ASSUME NEW i \in 0..Len(log'), NEW j \in 0..Len(log'), i <= j
                 PROVE  EndOf(i)' <= EndOf(j)'
      OBVIOUS
    <3>1. CASE j = Len(log) + 1
      <4>1. EndOf(j)' = Len(file')
        BY <1>1, <1>5, <3>1
      <4>2. CASE i = Len(log) + 1
        BY <1>e, <3>1, <4>1, <4>2
      <4>3. CASE i \in 0..Len(log)
        <5>1. EndOf(i)' = EndOf(i) /\ EndOf(i) \in Nat /\ EndOf(i) <= Len(file)
          BY <1>5, <2>3, <4>3
        <5>2. EndOf(i) <= Len(file')
          BY <1>e, <5>1
        <5> QED BY <4>1, <5>1, <5>2, Zenon
      <4>4. i = Len(log) + 1 \/ i \in 0..Len(log)
        BY <1>e, <1>a, SMTT(60)
      <4> QED BY <4>2, <4>3, <4>4
    <3>2. CASE j \in 0..Len(log)
      <4>1. i \in 0..Len(log)
        BY <1>e, <3>2
      <4>2. EndOf(i) <= EndOf(j)
        BY <3>2, <4>1 DEF IInv, Logged
      <4> QED BY <1>5, <3>2, <4>1, <4>2
    <3>3. j = Len(log) + 1 \/ j \in 0..Len(log)
      BY <1>e, <1>a
    <3> QED BY <3>1, <3>2, <3>3
  <2>5. ASSUME NEW i \in 1..Len(log)
        PROVE  /\ log'[i].time \in (IF log'[i].what = PUSH_PROP THEN Times ELSE {None})
               /\ EndOf(i)' = EndOf(i - 1)' + Skip(log'[i]) + Len(log'[i].data)
               /\ \A b \in Nat : b = EndOf(i - 1)' => RecordAt(file', b, log'[i])
    <3>1. i \in 0..Len(log) /\ i - 1 \in 0..Len(log) /\ log'[i] = log[i] /\ log[i] \in Meant
      <4>1. i \in 0..Len(log) /\ i - 1 \in 0..Len(log)
        BY <1>e
      <4> QED BY <1>1, <1>2, <4>1, ElementOfSeq
    <3>2. EndOf(i)' = EndOf(i) /\ EndOf(i - 1)' = EndOf(i - 1)
      BY <1>5, <3>1
    <3>3. /\ log[i].time \in (IF log[i].what = PUSH_PROP THEN Times ELSE {None})
          /\ EndOf(i) = EndOf(i - 1) + Skip(log[i]) + Len(log[i].data)
          /\ RecordAt(file, EndOf(i - 1), log[i])
      BY DEF IInv, Logged
    <3>4. EndOf(i - 1) \in Nat /\ EndOf(i) <= Len(file)
      BY <2>3, <3>1
    <3>5. RecordAt(file', EndOf(i - 1), log[i])
      <4> DEFINE l == log[i]
                 b == EndOf(i - 1)
                 e == EndOf(i)
                 n == Len(l.data)
      <4>1. /\ b \in Nat /\ e \in Nat /\ e = b + Skip(l) + n /\ e <= Len(file)
            /\ Skip(l) \in 2..3 /\ n \in Nat
        BY <2>3, <3>1, <3>3, <3>4, MeantFields
      <4>3. l \in Meant /\ RecordAt(file, b, l)
        BY <3>1, <3>3
      <4>2. \A k \in 1..(Skip(l) + n) : file'[b + k] = file[b + k]
        <5> HIDE DEF l, b, e, n
        <5>1. \A k \in 1..(Skip(l) + n) : b + k \in 1..Len(file)
          BY <1>e, <4>1, Within, Zenon
        <5> QED BY <1>3, <5>1, Zenon
      <4> HIDE DEF l, b, e
      <4>4. RecordAt(file', b, l)
        BY <4>1, <4>2, <4>3, RecordMoves
      <4> QED BY <4>4 DEF l, b
    <3> QED BY <3>1, <3>2, <3>3, <3>5
  <2>6. ASSUME NEW i \in Nat, i = Len(log) + 1
        PROVE  /\ log'[i].time \in (IF log'[i].what = PUSH_PROP THEN Times ELSE {None})
               /\ EndOf(i)' = EndOf(i - 1)' + Skip(log'[i]) + Len(log'[i].data)
               /\ \A b \in Nat : b = EndOf(i - 1)' => RecordAt(file', b, log'[i])
    <3>1. log'[i] = line /\ i - 1 = Len(log) /\ i - 1 \in 0..Len(log)
      BY <1>1, <1>2, <2>6
    <3>2. EndOf(i)' = Len(file') /\ EndOf(i - 1)' = Len(file)
      BY <1>5, <2>1, <2>6, <3>1
    <3>3. Skip(line) \in 2..3 /\ Len(line.data) \in Nat
      BY MeantFields
    <3>4. RecordAt(file', Len(file), line)
      <4>1. \A k \in 1..Len(words) : file'[Len(file) + k] = words[0 + k]
        <5>1. \A k \in 1..Len(words) : 0 + k = k
          BY <1>3
        <5> QED BY <1>3, <5>1, Zenon
      <4>2. \A k \in 1..(Skip(line) + Len(line.data)) : file'[Len(file) + k] = words[0 + k]
        BY <4>1, Zenon
      <4> QED BY <1>e, <4>2, RecordMoves
    <3>5. Len(file') = Len(file) + Skip(line) + Len(line.data)
      <4>1. Len(file) + (Skip(line) + Len(line.data)) = Len(file) + Skip(line) + Len(line.data)
        BY <1>e, <3>3, Sums, ZenonT(60)
      <4>2. Len(file') = Len(file) + Len(words)
        BY <1>3
      <4> QED BY <4>1, <4>2, Zenon
    <3> QED BY <3>1, <3>2, <3>4, <3>5
  <2>7. (\A i \in 1..Len(log) :
           /\ log[i].time \in (IF log[i].what = PUSH_PROP THEN Times ELSE {None})
           /\ EndOf(i) = EndOf(i - 1) + Skip(log[i]) + Len(log[i].data)
           /\ RecordAt(file, EndOf(i - 1), log[i]))'
    <3> SUFFICES ASSUME NEW i \in 1..Len(log')
                 PROVE  /\ log'[i].time \in (IF log'[i].what = PUSH_PROP THEN Times ELSE {None})
                        /\ EndOf(i)' = EndOf(i - 1)' + Skip(log'[i]) + Len(log'[i].data)
                        /\ RecordAt(file', EndOf(i - 1)', log'[i])
      OBVIOUS
    <3>1. i - 1 \in 0..Len(log) /\ (i \in 1..Len(log) \/ (i \in Nat /\ i = Len(log) + 1))
      BY <1>e, <1>a
    <3>2. EndOf(i - 1)' \in Nat
      BY <1>5, <2>3, <3>1
    <3> QED BY <2>5, <2>6, <3>1, <3>2
  <2> QED BY <2>2, <2>4, <2>7 DEF Logged
<1>b. /\ \A n \in 0..Len(log) : Decls(log', n) = Decls(log, n) /\ Count(log', n) = Count(log, n)
      /\ \A n \in 0..Len(log) : Count(log, n) \in Nat /\ Count(log, n) <= Len(props)
      /\ Count(log, Len(log)) = Len(props)
      /\ Count(log', Len(log) + 1) = IF line.what = DECL_PROP THEN Len(props) + 1 ELSE Len(props)
  <2>1. /\ \A n \in 0..Len(log) : Decls(log', n) = Decls(log, n) /\ Count(log', n) = Count(log, n)
    BY <1>1, <1>2, CountSame, ZenonT(60)
  <2>2. Count(log, Len(log)) = Len(props)
    BY DEF IInv, Declared
  <2>3. \A n \in 0..Len(log) : Count(log, n) \in Nat /\ Count(log, n) <= Count(log, Len(log))
    BY <1>1, CountStep
  <2>4. Count(log', Len(log) + 1)
          = IF log'[Len(log) + 1].what = DECL_PROP THEN Count(log', Len(log)) + 1 ELSE Count(log', Len(log))
    BY <1>1, CountStep
  <2>5. Count(log', Len(log)) = Len(props)
    <3>1. Len(log) \in 0..Len(log)
      BY <1>1
    <3> QED BY <2>1, <2>2, <3>1
  <2>6. Count(log', Len(log) + 1) = IF line.what = DECL_PROP THEN Len(props) + 1 ELSE Len(props)
    BY <1>2, <2>4, <2>5
  <2> QED BY <2>1, <2>2, <2>3, <2>6
<1>c. /\ Len(props') = IF line.what = DECL_PROP THEN Len(props) + 1 ELSE Len(props)
      /\ \A k \in 1..Len(props) : props'[k] = props[k]
      /\ line.what = DECL_PROP => props'[Len(props) + 1] = line.data
  <2>1. CASE line.what = DECL_PROP
    <3>1. props' = Append(props, line.data)
      BY <2>1
    <3>2. line.data \in Seq(Nat) /\ props \in Seq(Seq(Nat))
      BY <1>1, MeantFields, DatabaseAssumption
    <3> QED BY <1>1, <2>1, <3>1, <3>2, AppendProperties
  <2>2. CASE line.what # DECL_PROP
    BY <1>1, <2>2
  <2> QED BY <2>1, <2>2
<1>9. Declared'
  <2>1. Len(props') = Count(log', Len(log'))
    BY <1>2, <1>b, <1>c
  <2>2. ASSUME NEW i \in Decls(log', Len(log'))
        PROVE  log'[i].data = props'[Count(log', i)]
    <3>1. i \in 1..Len(log') /\ log'[i].what = DECL_PROP
      BY DEF Decls
    <3>2. CASE i = Len(log) + 1
      BY <1>2, <1>b, <1>c, <3>1, <3>2
    <3>a. i = Len(log) + 1 \/ i \in 1..Len(log)
      BY <1>e, <1>a, <3>1
    <3>3. CASE i \in 1..Len(log)
      <4>1. i \in Decls(log, Len(log)) /\ i \in 0..Len(log)
        BY <1>1, <1>2, <3>1, <3>3 DEF Decls
      <4>2. Count(log, i) \in 1..Len(props)
        BY <1>1, <1>b, <4>1, Counted
      <4>3. log[i].data = props[Count(log, i)]
        BY <4>1 DEF IInv, Declared
      <4> QED BY <1>2, <1>b, <1>c, <3>3, <4>1, <4>2, <4>3
    <3> QED BY <3>a, <3>2, <3>3
  <2>3. ASSUME NEW i \in 1..Len(log'), log'[i].what = PUSH_PROP
        PROVE  log'[i].id \in 1..Count(log', i) /\ log'[i].name = props'[log'[i].id]
    <3>1. CASE i = Len(log) + 1
      <4>1. log'[i] = line /\ line.what = PUSH_PROP
        BY <1>2, <2>3, <3>1
      <4>2. Count(log', i) = Len(props) /\ line.id \in 1..Len(props)
        BY <1>b, <3>1, <4>1 DEF PUSH_PROP, DECL_PROP
      <4> QED BY <1>c, <4>1, <4>2
    <3>2. CASE i \in 1..Len(log)
      <4>1. log'[i] = log[i] /\ i \in 0..Len(log) /\ Count(log', i) = Count(log, i)
        BY <1>1, <1>2, <1>b, <3>2
      <4>2. log[i].id \in 1..Count(log, i) /\ log[i].name = props[log[i].id]
        BY <2>3, <3>2, <4>1 DEF IInv, Declared
      <4>3. log[i].id \in 1..Len(props)
        <5>1. Count(log, i) \in Nat /\ Count(log, i) <= Len(props) /\ Len(props) \in Nat
          BY <1>1, <1>b, <4>1
        <5> QED BY <4>2, <5>1, SMTT(60)
      <4> QED BY <1>c, <4>1, <4>2, <4>3
    <3>3. i = Len(log) + 1 \/ i \in 1..Len(log)
      BY <1>e, <1>a, SMTT(60)
    <3> QED BY <3>1, <3>2, <3>3
  <2> QED BY <2>1, <2>2, <2>3 DEF Declared
<1>d. \A i \in 1..Len(shown) : log'[i] = log[i]
  <2>1. \A i \in 1..Len(shown) : i \in 1..Len(log)
    BY <1>1
  <2> QED BY <1>2, <2>1
<1>10. Followed'
  <2>1. Len(shown) \in 0..Len(log)
    BY <1>1
  <2>3. EndOf(Len(shown))' = EndOf(Len(shown)) /\ Count(log', Len(shown)) = Count(log, Len(shown))
    BY <1>5, <1>6, <1>b, <2>1
  <2>4. \A m \in 1..Count(log, Len(shown)) : props'[m] = props[m]
    <3>1. Count(log, Len(shown)) \in Nat /\ Count(log, Len(shown)) <= Len(props)
          /\ Len(props) \in Nat
      BY <1>1, <1>b, <2>1
    <3>2. \A m \in 1..Count(log, Len(shown)) : m \in 1..Len(props)
      BY <3>1, SMTT(60)
    <3> QED BY <1>c, <3>2
  <2>5. \A i \in 1..Len(shown) : Written(shown[i]) = Written(log'[i])
    BY <1>d DEF IInv, Followed
  <2> QED BY <1>6, <2>3, <2>4, <2>5 DEF IInv, Followed
<1>11. Named'
  <2> SUFFICES ASSUME NEW i \in 1..Len(shown) PROVE NamedByNumber(i)'
    BY <1>6 DEF Named
  <2>1. i \in 1..Len(log) /\ log'[i] = log[i] /\ shown'[i] = shown[i]
    BY <1>1, <1>6, <1>d
  <2>2. NamedByNumber(i)
    BY DEF IInv, Named
  <2>3. Given(log[i].id) \in Nat
    BY <1>1, <2>1, ElementOfSeq, MeantFields, GivenNumber
  <2>4. Headed(i) => Headed(i)'
    <3> SUFFICES ASSUME Headed(i) PROVE Headed(i)'
      OBVIOUS
    <3> DEFINE k == Given(log[i].id)
    <3>1. k <= Len(props) /\ shown[i].name = Heading(k)
      BY DEF Headed
    <3>2. k <= Len(props')
      BY <1>1, <1>c, <2>3, <3>1
    <3>3. Heading(k)' = Heading(k)
      <4>1. CASE k = 0
        BY <2>1, <4>1 DEF Heading
      <4>2. CASE k # 0
        <5>1. k \in 1..Len(props)
          BY <1>1, <2>3, <3>1, <4>2
        <5> QED BY <1>c, <2>1, <4>2, <5>1 DEF Heading
      <4> QED BY <4>1, <4>2
    <3> QED BY <2>1, <3>1, <3>2, <3>3 DEF Headed
  <2> QED BY <2>1, <2>2, <2>4 DEF NamedByNumber
<1> QED BY <1>7, <1>8, <1>9, <1>10, <1>11 DEF IInv

(* Each of the writer's operations appends such a record, or ends it all. *)
LEMMA WriterKeeps ==
  ASSUME IInv, Writer \/ Flush \/ Crash
  PROVE  IInv'
<1>1. /\ types \in Nat /\ props \in Seq(Names) /\ confs \in Seq(Names)
      /\ Len(props) \in Nat /\ Len(confs) \in Nat /\ DOMAIN props = 1..Len(props)
      /\ DOMAIN confs = 1..Len(confs)
  BY LenProperties DEF IInv, Typed, TypeOK
<1>2. /\ Names \subseteq Data /\ Payloads \subseteq Data /\ TypeText \in Data /\ Given(0) = 0
  BY GivenNumber DEF Data, TypeText, Banner
<1>3. CASE declType
  <2> DEFINE line  == Line(DECL_TYPE, 0, None, None, TypeText)
             words == Words(Info(line.what, Given(line.id)), line.data)
  <2>1. /\ line \in Meant /\ line.what = DECL_TYPE /\ line.id = 0 /\ line.time = None /\ line.data = TypeText
    BY <1>2 DEF Line, Meant, ROOT, PUSH_CONF, DECL_TYPE
  <2>2. Writes(line, words) /\ types' \in Nat /\ props' = props /\ confs' = confs
    BY <1>1, <1>2, <1>3 DEF declType, Line
  <2> HIDE DEF line
  <2>3. words \in Seq(Nat) /\ Len(words) = Skip(line) + Len(line.data) /\ RecordAt(words, 0, line)
    BY <2>1, PlainWords DEF DECL_TYPE, PUSH_PROP
  <2> HIDE DEF words
  <2>9. /\ line.time \in (IF line.what = PUSH_PROP THEN Times ELSE {None})
        /\ props' = IF line.what = DECL_PROP THEN Append(props, line.data) ELSE props
        /\ line.what = PUSH_PROP => line.id \in 1..Len(props) /\ line.name = props[line.id]
    BY <1>1, <2>1, <2>2, <2>3 DEF DECL_TYPE, DECL_PROP, PUSH_PROP
  <2> QED BY <1>1, <2>1, <2>2, <2>3, <2>9, Appended, Zenon
<1>4. ASSUME NEW t \in 1..types, NEW name \in Names, declProp(t, name)
      PROVE  IInv'
  <2> DEFINE line  == Line(DECL_PROP, t, None, None, name)
             words == Words(Info(line.what, Given(line.id)), line.data)
  <2>1. /\ line \in Meant /\ line.what = DECL_PROP /\ line.id = t /\ line.time = None /\ line.data = name
    BY <1>1, <1>2 DEF Line, Meant, ROOT, PUSH_CONF, DECL_PROP
  <2>2. Writes(line, words) /\ types' = types /\ props' = Append(props, line.data) /\ confs' = confs
    BY <1>4, <2>1 DEF declProp, Line
  <2> HIDE DEF line
  <2>3. words \in Seq(Nat) /\ Len(words) = Skip(line) + Len(line.data) /\ RecordAt(words, 0, line)
    BY <2>1, PlainWords DEF DECL_PROP, PUSH_PROP
  <2>4. props' \in Seq(Names)
    BY <1>1, <2>1, <2>2, AppendProperties
  <2> HIDE DEF words
  <2>9. /\ line.time \in (IF line.what = PUSH_PROP THEN Times ELSE {None})
        /\ props' = IF line.what = DECL_PROP THEN Append(props, line.data) ELSE props
        /\ line.what = PUSH_PROP => line.id \in 1..Len(props) /\ line.name = props[line.id]
    BY <1>1, <2>1, <2>2, <2>3, <2>4 DEF DECL_PROP, PUSH_PROP
  <2> QED BY <1>1, <2>1, <2>2, <2>3, <2>4, <2>9, Appended, Zenon
<1>5. ASSUME NEW t \in 1..types, NEW name \in Names, declConf(t, name)
      PROVE  IInv'
  <2> DEFINE line  == Line(DECL_CONF, t, None, None, name)
             words == Words(Info(line.what, Given(line.id)), line.data)
  <2>1. /\ line \in Meant /\ line.what = DECL_CONF /\ line.id = t /\ line.time = None /\ line.data = name
    BY <1>1, <1>2 DEF Line, Meant, ROOT, PUSH_CONF, DECL_CONF
  <2>2. Writes(line, words) /\ types' = types /\ props' = props /\ confs' = Append(confs, line.data)
    BY <1>5, <2>1 DEF declConf, Line
  <2> HIDE DEF line
  <2>3. words \in Seq(Nat) /\ Len(words) = Skip(line) + Len(line.data) /\ RecordAt(words, 0, line)
    BY <2>1, PlainWords DEF DECL_CONF, PUSH_PROP
  <2>4. confs' \in Seq(Names)
    BY <1>1, <2>1, <2>2, AppendProperties
  <2> HIDE DEF words
  <2>9. /\ line.time \in (IF line.what = PUSH_PROP THEN Times ELSE {None})
        /\ props' = IF line.what = DECL_PROP THEN Append(props, line.data) ELSE props
        /\ line.what = PUSH_PROP => line.id \in 1..Len(props) /\ line.name = props[line.id]
    BY <1>1, <2>1, <2>2, <2>3, <2>4 DEF DECL_CONF, DECL_PROP, PUSH_PROP
  <2> QED BY <1>1, <2>1, <2>2, <2>3, <2>4, <2>9, Appended, Zenon
<1>6. ASSUME NEW k \in DOMAIN props, NEW time \in Times, NEW data \in Payloads, pushProp(k, time, data)
      PROVE  IInv'
  <2> DEFINE line  == Line(PUSH_PROP, k, props[k], time, data)
             words == TimedWords(Info(line.what, Given(line.id)), line.time, line.data)
  <2>1. k \in Nat /\ k \in 1..Len(props) /\ props[k] \in Names
    BY <1>1, ElementOfSeq
  <2>2. /\ line \in Meant /\ line.what = PUSH_PROP /\ line.id = k /\ line.name = props[k]
        /\ line.time = time /\ line.data = data
    BY <1>2, <2>1 DEF Line, Meant, ROOT, PUSH_CONF, PUSH_PROP
  <2>3. Writes(line, words) /\ types' = types /\ props' = props /\ confs' = confs
    BY <1>6 DEF pushProp, Line
  <2> HIDE DEF line
  <2>4. line.time \in Nat
    BY <2>2, DatabaseAssumption
  <2>5. words \in Seq(Nat) /\ Len(words) = Skip(line) + Len(line.data) /\ RecordAt(words, 0, line)
    BY <2>2, <2>4, DataWords
  <2> HIDE DEF words
  <2>9. /\ line.time \in (IF line.what = PUSH_PROP THEN Times ELSE {None})
        /\ props' = IF line.what = DECL_PROP THEN Append(props, line.data) ELSE props
        /\ line.what = PUSH_PROP => line.id \in 1..Len(props) /\ line.name = props[line.id]
    BY <1>1, <2>1, <2>2, <2>3, <2>5 DEF DECL_PROP, PUSH_PROP
  <2> QED BY <1>1, <2>1, <2>2, <2>3, <2>5, <2>9, Appended, Zenon
<1>7. ASSUME NEW k \in DOMAIN confs, NEW data \in Payloads, pushConf(k, data)
      PROVE  IInv'
  <2> DEFINE line  == Line(PUSH_CONF, k, confs[k], None, data)
             words == Words(Info(line.what, Given(line.id)), line.data)
  <2>1. k \in Nat /\ confs[k] \in Names
    BY <1>1, ElementOfSeq
  <2>2. /\ line \in Meant /\ line.what = PUSH_CONF /\ line.id = k /\ line.time = None /\ line.data = data
    BY <1>2, <2>1 DEF Line, Meant, ROOT, PUSH_CONF
  <2>3. Writes(line, words) /\ types' = types /\ props' = props /\ confs' = confs
    BY <1>7 DEF pushConf, Line
  <2> HIDE DEF line
  <2>4. words \in Seq(Nat) /\ Len(words) = Skip(line) + Len(line.data) /\ RecordAt(words, 0, line)
    BY <2>2, PlainWords DEF PUSH_CONF, PUSH_PROP
  <2> HIDE DEF words
  <2>9. /\ line.time \in (IF line.what = PUSH_PROP THEN Times ELSE {None})
        /\ props' = IF line.what = DECL_PROP THEN Append(props, line.data) ELSE props
        /\ line.what = PUSH_PROP => line.id \in 1..Len(props) /\ line.name = props[line.id]
    BY <1>1, <2>2, <2>3, <2>4 DEF PUSH_CONF, DECL_PROP, PUSH_PROP
  <2> QED BY <1>1, <2>2, <2>3, <2>4, <2>9, Appended, Zenon
<1>8. CASE close \/ Flush \/ Crash
  <2>1. /\ types' = types /\ props' = props /\ confs' = confs /\ file' = file /\ log' = log /\ ends' = ends
        /\ rstate' = rstate /\ pos' = pos /\ prop2name' = prop2name /\ shown' = shown
        /\ wstate' \in {"open", "closed", "crashed"}
        /\ visible' \in Nat /\ visible <= visible' /\ visible' <= Len(file)
    <3>1. visible \in Nat /\ visible <= Len(file) /\ Len(file) \in Nat /\ wstate \in {"open", "closed", "crashed"}
      BY LenProperties DEF IInv, Typed, TypeOK
    <3> QED BY <1>8, <3>1 DEF close, Flush, Crash, wvars, rvars
  <2>2. \A n \in Nat : EndOf(n)' = EndOf(n)
    BY <2>1 DEF EndOf
  <2>3. Typed'
    <3>1. pos \in Nat /\ 0 <= pos /\ pos <= visible'
      BY <2>1 DEF IInv, Typed, TypeOK
    <3> QED BY <2>1, <3>1 DEF IInv, Typed, TypeOK
  <2>4. Logged'
    BY <2>1 DEF IInv, Logged, EndOf
  <2>5. Declared'
    BY <2>1 DEF IInv, Declared
  <2>6. Followed' /\ Named'
    BY <2>1 DEF IInv, Followed, Named, NamedByNumber, Headed, Heading, EndOf
  <2> QED BY <2>3, <2>4, <2>5, <2>6 DEF IInv
<1> QED BY <1>3, <1>4, <1>5, <1>6, <1>7, <1>8 DEF Writer

----------------------------------------------------------------------------
(* What readDB finds when it reads on: the record of the next line, or as  *)
(* much of it as can be read.                                              *)
Ahead == log[Len(shown) + 1]

LEMMA RestWords ==
  ASSUME IInv
  PROVE  /\ Len(Rest) \in Nat /\ Len(Rest) = visible - pos
         /\ \A i \in 1..Len(Rest) : Rest[i] = file[pos + i] /\ Rest[i] \in Nat
<1>1. /\ file \in Seq(Nat) /\ Len(file) \in Nat /\ pos \in Nat /\ visible \in Nat
      /\ pos <= visible /\ visible <= Len(file)
  BY LenProperties DEF IInv, Typed, TypeOK
<1>2. /\ \A i \in (pos + 1)..visible : file[i] \in Nat
      /\ \A i \in 1..Len(file) : file[i] \in Nat
  BY <1>1, ElementOfSeq
<1>3. /\ SubSeq(file, pos + 1, visible) \in Seq(Nat)
      /\ Len(SubSeq(file, pos + 1, visible)) = IF pos + 1 <= visible THEN visible - (pos + 1) + 1 ELSE 0
      /\ \A i \in 1..(visible - (pos + 1) + 1) : SubSeq(file, pos + 1, visible)[i] = file[pos + 1 + i - 1]
  BY <1>1, <1>2, SubSeqProperties
<1>4. Len(Rest) = visible - pos /\ visible - pos \in Nat
  BY <1>1, <1>3 DEF Rest
<1>5. ASSUME NEW i \in 1..(visible - pos)
      PROVE  Rest[i] = file[pos + i] /\ Rest[i] \in Nat
  <2>1. pos + 1 + i - 1 = pos + i /\ i \in 1..(visible - (pos + 1) + 1) /\ pos + i \in 1..Len(file)
    BY <1>1
  <2> QED BY <1>2, <1>3, <2>1 DEF Rest
<1> QED BY <1>4, <1>5

LEMMA NextRecord ==
  ASSUME IInv, rstate = "reading", Len(Rest) >= 2
  PROVE  /\ Len(shown) \in Nat /\ Len(shown) + 1 \in 1..Len(log) /\ Ahead \in Meant
         /\ Ahead.time \in (IF Ahead.what = PUSH_PROP THEN Times ELSE {None})
         /\ pos = EndOf(Len(shown)) /\ EndOf(Len(shown) + 1) = pos + Skip(Ahead) + Len(Ahead.data)
         /\ What(Rest[1]) = Ahead.what /\ Indx(Rest[1]) = Given(Ahead.id)
         /\ Rest[2] = Len(Ahead.data) + (Skip(Ahead) - 2)
         /\ Ahead.what = PUSH_PROP /\ Len(Rest) > 2 => Rest[3] = Ahead.time
         /\ \A j \in 1..Len(Ahead.data) :
              Skip(Ahead) + j <= Len(Rest) => Rest[Skip(Ahead) + j] = Ahead.data[j]
<1>1. /\ log \in Seq(Meant) /\ Len(log) \in Nat /\ Len(shown) \in Nat /\ Len(shown) <= Len(log)
      /\ pos \in Nat /\ visible \in Nat /\ visible <= Len(file) /\ Len(file) \in Nat
  BY LenProperties DEF IInv, Typed, TypeOK
<1>2. pos = EndOf(Len(shown)) /\ EndOf(Len(log)) = Len(file)
  BY DEF IInv, Followed, Logged
<1>3. /\ Len(Rest) \in Nat /\ Len(Rest) = visible - pos
      /\ \A i \in 1..Len(Rest) : Rest[i] = file[pos + i] /\ Rest[i] \in Nat
  BY RestWords
<1>4. Len(shown) # Len(log)
  BY <1>1, <1>2, <1>3
<1>5. Len(shown) + 1 \in 1..Len(log) /\ (Len(shown) + 1) - 1 = Len(shown)
  BY <1>1, <1>4
<1>6. Ahead \in Meant
  BY <1>1, <1>5, ElementOfSeq DEF Ahead
<1>7. /\ Ahead.time \in (IF Ahead.what = PUSH_PROP THEN Times ELSE {None})
      /\ EndOf(Len(shown) + 1) = EndOf(Len(shown)) + Skip(Ahead) + Len(Ahead.data)
      /\ RecordAt(file, EndOf(Len(shown)), Ahead)
  BY <1>5 DEF IInv, Logged, Ahead
<1>8. /\ file[pos + 1] = Info(Ahead.what, Given(Ahead.id))
      /\ file[pos + 2] = Len(Ahead.data) + (Skip(Ahead) - 2)
      /\ Ahead.what = PUSH_PROP => file[pos + 3] = Ahead.time
      /\ \A j \in 1..Len(Ahead.data) : file[pos + Skip(Ahead) + j] = Ahead.data[j]
  BY <1>2, <1>7 DEF RecordAt
<1>9. /\ Rest[1] = Info(Ahead.what, Given(Ahead.id))
      /\ Rest[2] = Len(Ahead.data) + (Skip(Ahead) - 2)
      /\ Ahead.what = PUSH_PROP /\ Len(Rest) > 2 => Rest[3] = Ahead.time
  <2>1. Rest[1] = file[pos + 1] /\ Rest[2] = file[pos + 2] /\ (Len(Rest) > 2 => Rest[3] = file[pos + 3])
    BY <1>3
  <2> QED BY <1>8, <2>1
<1>10. What(Rest[1]) = Ahead.what /\ Indx(Rest[1]) = Given(Ahead.id)
  BY <1>6, <1>9, MeantFields, InfoWord
<1>11. ASSUME NEW j \in 1..Len(Ahead.data), Skip(Ahead) + j <= Len(Rest)
       PROVE  Rest[Skip(Ahead) + j] = Ahead.data[j]
  <2>1. file[pos + Skip(Ahead) + j] = Ahead.data[j]
    BY <1>8
  <2>2. Skip(Ahead) \in 2..3 /\ Len(Ahead.data) \in Nat
    BY <1>6, MeantFields
  <2>3. CASE Skip(Ahead) = 2
    <3>1. 2 + j \in 1..Len(Rest) /\ pos + (2 + j) = pos + 2 + j
      BY <1>1, <1>3, <1>11, <2>2, <2>3
    <3> QED BY <1>3, <2>1, <2>3, <3>1
  <2>4. CASE Skip(Ahead) = 3
    <3>1. 3 + j \in 1..Len(Rest) /\ pos + (3 + j) = pos + 3 + j
      BY <1>1, <1>3, <1>11, <2>2, <2>4
    <3> QED BY <1>3, <2>1, <2>4, <3>1
  <2> QED BY <2>2, <2>3, <2>4
<1> QED BY <1>1, <1>2, <1>5, <1>6, <1>7, <1>9, <1>10, <1>11

(* The record ahead is not all there, and what is read as its bytes. *)
Cut == EndOf(Len(shown) + 1) > visible

Body == Bytes(Skip(Ahead), Len(Ahead.data))

LEMMA BodyWords ==
  ASSUME IInv, rstate = "reading", Len(Rest) >= 2
  PROVE  /\ Body \in Seq(Nat) /\ Len(Body) = Len(Ahead.data)
         /\ \A j \in 1..Len(Ahead.data) : Body[j] \in {Ahead.data[j], Zero}
         /\ ~Cut => Body = Ahead.data
         /\ Cut <=> Skip(Ahead) + Len(Ahead.data) > Len(Rest)
<1>1. /\ Len(Rest) \in Nat /\ Len(Rest) = visible - pos /\ visible \in Nat /\ pos \in Nat
      /\ \A i \in 1..Len(Rest) : Rest[i] \in Nat
  BY RestWords DEF IInv, Typed
<1>2. /\ Ahead \in Meant /\ EndOf(Len(shown) + 1) = pos + Skip(Ahead) + Len(Ahead.data)
      /\ \A j \in 1..Len(Ahead.data) :
           Skip(Ahead) + j <= Len(Rest) => Rest[Skip(Ahead) + j] = Ahead.data[j]
  BY NextRecord
<1> DEFINE data == Ahead.data
           size == Len(data)
           skip == Skip(Ahead)
<1>3. data \in Seq(Nat) /\ size \in Nat /\ skip \in 2..3
  BY <1>2, MeantFields
<1>4. Cut <=> skip + size > Len(Rest)
  <2>1. Cut <=> pos + skip + size > visible
    BY <1>2 DEF Cut
  <2> HIDE DEF data, size, skip
  <2>2. CASE skip = 2
    BY <1>1, <1>3, <2>1, <2>2
  <2>3. CASE skip = 3
    BY <1>1, <1>3, <2>1, <2>3
  <2> QED BY <1>3, <2>2, <2>3
<1>5. Body = [i \in 1..size |-> IF skip + i <= Len(Rest) THEN Rest[skip + i] ELSE Zero]
  BY DEF Body, Bytes
<1>6. \A j \in 1..size : skip + j <= Len(Rest) => Rest[skip + j] = data[j]
  BY <1>2
<1> HIDE DEF data, size, skip
<1>7. \A j \in 1..size : Body[j] = (IF skip + j <= Len(Rest) THEN data[j] ELSE Zero)
  BY <1>5, <1>6
<1>8. \A j \in 1..size : data[j] \in Nat
  BY <1>3, ElementOfSeq DEF size
<1>9. \A j \in 1..size : Body[j] \in {data[j], Zero} /\ Body[j] \in Nat
  BY <1>7, <1>8 DEF Zero
<1>10. Body \in [1..size -> Nat]
  BY <1>5, <1>9
<1>11. Body \in Seq(Nat) /\ Len(Body) = size
  BY <1>3, <1>10, SeqDef, LenProperties
<1>12. ~Cut => Body = data
  <2> SUFFICES ASSUME ~Cut PROVE Body = data
    OBVIOUS
  <2>1. \A j \in 1..size : skip + j <= Len(Rest)
    <3>1. CASE skip = 2
      BY <1>1, <1>3, <1>4, <3>1
    <3>2. CASE skip = 3
      BY <1>1, <1>3, <1>4, <3>2
    <3> QED BY <1>3, <3>1, <3>2
  <2>2. \A j \in 1..size : Body[j] = data[j]
    BY <1>7, <2>1
  <2> QED BY <1>3, <1>11, <2>2, SeqEqual DEF size
<1> QED BY <1>4, <1>9, <1>11, <1>12 DEF data, size, skip

(* A turn of readDB that reads a record. *)
LEMMA Handled ==
  ASSUME IInv, rstate = "reading", Len(Rest) >= 2, Handle(What(Rest[1]), Indx(Rest[1]), Rest[2])
  PROVE  /\ \E time \in Times \cup {None} :
              /\ ~Cut => time = Ahead.time
              /\ LET line == Line(Ahead.what, Given(Ahead.id), NameOf(Ahead.what, Given(Ahead.id)), time, Body)
                 IN  IF Cut THEN tail' = line /\ shown' = shown
                            ELSE shown' = Append(shown, line) /\ tail' = tail
         /\ prop2name' = IF Ahead.what = DECL_PROP THEN Append(prop2name, Body) ELSE prop2name
         /\ pos' = IF Cut THEN visible ELSE EndOf(Len(shown) + 1)
         /\ rstate' = IF Cut THEN "ended" ELSE "reading"
<1> DEFINE size  == Len(Ahead.data)
           skip  == Skip(Ahead)
           timed == Ahead.what = PUSH_PROP
           cut   == skip + size > Len(Rest)
<1>1. /\ Ahead \in Meant /\ EndOf(Len(shown) + 1) = pos + skip + size
      /\ Ahead.time \in (IF timed THEN Times ELSE {None})
      /\ What(Rest[1]) = Ahead.what /\ Indx(Rest[1]) = Given(Ahead.id)
      /\ Rest[2] = size + (skip - 2)
      /\ timed /\ Len(Rest) > 2 => Rest[3] = Ahead.time
  BY NextRecord
<1>2. size \in Nat /\ skip = IF timed THEN 3 ELSE 2
  BY <1>1, MeantFields DEF Skip
<1>3. (IF timed THEN Rest[2] - 1 ELSE Rest[2]) = size
  <2>1. CASE timed
    BY <1>1, <1>2, <2>1
  <2>2. CASE ~timed
    BY <1>1, <1>2, <2>2
  <2> QED BY <2>1, <2>2
<1>4. Cut <=> cut
  BY BodyWords
<1>5. Len(Rest) \in Nat
  BY RestWords
<1> HIDE DEF timed, size, skip
<1>6. /\ \E time \in IF ~timed THEN {None} ELSE IF Len(Rest) > 2 THEN {Rest[3]} ELSE Times :
           LET line == Line(Ahead.what, Given(Ahead.id), NameOf(Ahead.what, Given(Ahead.id)), time,
                            Bytes(skip, size))
           IN  IF cut THEN tail' = line /\ shown' = shown
                      ELSE shown' = Append(shown, line) /\ tail' = tail
      /\ prop2name' = IF Ahead.what = DECL_PROP THEN Append(prop2name, Bytes(skip, size)) ELSE prop2name
      /\ pos' = IF cut THEN visible ELSE pos + skip + size
      /\ rstate' = IF cut THEN "ended" ELSE "reading"
  BY <1>1, <1>2, <1>3 DEF Handle, timed
<1>7. Bytes(skip, size) = Body
  BY DEF Body, skip, size
<1>8. ASSUME NEW time \in IF ~timed THEN {None} ELSE IF Len(Rest) > 2 THEN {Rest[3]} ELSE Times
      PROVE  time \in Times \cup {None} /\ (~Cut => time = Ahead.time)
  <2>1. CASE ~timed
    BY <1>1, <2>1
  <2>2. CASE timed /\ Len(Rest) > 2
    BY <1>1, <2>2
  <2>3. CASE timed /\ ~(Len(Rest) > 2)
    <3>1. cut
      BY <1>2, <1>5, <2>3
    <3> QED BY <1>4, <2>3, <3>1
  <2> QED BY <2>1, <2>2, <2>3
<1>9. PICK time \in IF ~timed THEN {None} ELSE IF Len(Rest) > 2 THEN {Rest[3]} ELSE Times :
        LET line == Line(Ahead.what, Given(Ahead.id), NameOf(Ahead.what, Given(Ahead.id)), time, Body)
        IN  IF Cut THEN tail' = line /\ shown' = shown
                   ELSE shown' = Append(shown, line) /\ tail' = tail
  BY <1>4, <1>6, <1>7
<1> QED BY <1>1, <1>4, <1>6, <1>7, <1>8, <1>9

(* The property that data belongs to was declared in a record before, so   *)
(* readDB has its name.                                                    *)
LEMMA KnownName ==
  ASSUME IInv, rstate = "reading", Len(Rest) >= 2
  PROVE  /\ Count(log, Len(shown) + 1)
              = (IF Ahead.what = DECL_PROP THEN Count(log, Len(shown)) + 1 ELSE Count(log, Len(shown)))
         /\ Count(log, Len(shown)) \in Nat /\ Len(prop2name) = 1 + Count(log, Len(shown))
         /\ DOMAIN prop2name = 1..Len(prop2name)
         /\ Ahead.what = PUSH_PROP => Listed(Given(Ahead.id))
         /\ Ahead.what = PUSH_PROP /\ Ahead.id < IdSpan =>
              NameOf(Ahead.what, Given(Ahead.id)) = Ahead.name
         /\ Listed(Given(Ahead.id)) =>
              /\ Given(Ahead.id) <= Len(props)
              /\ Ahead.what \in {PUSH_PROP, PUSH_CONF} =>
                   NameOf(Ahead.what, Given(Ahead.id)) = Heading(Given(Ahead.id))
         /\ ~Listed(Given(Ahead.id)) => NameOf(Ahead.what, Given(Ahead.id)) = None
<1>1. /\ Len(shown) \in Nat /\ Len(shown) + 1 \in 1..Len(log) /\ Ahead \in Meant
      /\ prop2name \in Seq(Seq(Nat))
  BY NextRecord DEF IInv, Typed
<1>2. /\ Count(log, Len(shown) + 1)
           = (IF Ahead.what = DECL_PROP THEN Count(log, Len(shown)) + 1 ELSE Count(log, Len(shown)))
      /\ Count(log, Len(shown)) \in Nat
  BY <1>1, CountStep DEF Ahead
<1>3. /\ Len(prop2name) = 1 + Count(log, Len(shown))
      /\ prop2name[1] = Dash
      /\ \A m \in 1..Count(log, Len(shown)) : prop2name[m + 1] = props[m]
  BY DEF IInv, Followed
<1>4. DOMAIN prop2name = 1..Len(prop2name)
  BY <1>1, LenProperties
<1>5. ASSUME Ahead.what = PUSH_PROP
      PROVE  /\ Listed(Given(Ahead.id))
             /\ Ahead.id < IdSpan => NameOf(Ahead.what, Given(Ahead.id)) = Ahead.name
  <2>1. Ahead.id \in 1..Count(log, Len(shown) + 1) /\ Ahead.name = props[Ahead.id]
    BY <1>1, <1>5 DEF IInv, Declared, Ahead
  <2>2. Count(log, Len(shown) + 1) = Count(log, Len(shown))
    BY <1>2, <1>5 DEF PUSH_PROP, DECL_PROP
  <2>3. PICK id \in Nat : id = Ahead.id
    BY <1>1, MeantFields
  <2>4. id \in 1..Count(log, Len(shown))
    BY <2>1, <2>2, <2>3
  <2>5. Given(id) \in Nat /\ Given(id) <= id /\ (id < IdSpan => Given(id) = id)
    BY GivenNumber
  <2>6. Given(id) + 1 \in 1..(1 + Count(log, Len(shown)))
    BY <1>2, <2>4, <2>5
  <2>7. Listed(Given(id))
    BY <1>3, <1>4, <2>6 DEF Listed
  <2>8. prop2name[id + 1] = props[id]
    BY <1>3, <2>4
  <2>9. id < IdSpan => NameOf(Ahead.what, Given(id)) = prop2name[id + 1]
    BY <1>5, <2>5, <2>7 DEF NameOf
  <2> QED BY <2>1, <2>3, <2>7, <2>8, <2>9
<1>6. ASSUME Listed(Given(Ahead.id))
      PROVE  /\ Given(Ahead.id) <= Len(props)
             /\ Ahead.what \in {PUSH_PROP, PUSH_CONF} =>
                  NameOf(Ahead.what, Given(Ahead.id)) = Heading(Given(Ahead.id))
  <2> DEFINE k == Given(Ahead.id)
             c == Count(log, Len(shown))
  <2>1. k \in Nat
    BY <1>1, MeantFields, GivenNumber
  <2>2. c \in Nat /\ c <= Len(props) /\ Len(props) \in Nat
    <3>1. log \in Seq(Meant) /\ Len(log) \in Nat /\ Len(shown) \in 0..Len(log) /\ Len(props) = Count(log, Len(log))
      BY <1>1, LenProperties DEF IInv, Typed, TypeOK, Declared
    <3> QED BY <1>2, <3>1, CountStep, LenProperties DEF IInv, Typed, TypeOK
  <2>3. k + 1 \in 1..(1 + c)
    BY <1>3, <1>4, <1>6 DEF Listed
  <2>4. k <= c
    BY <2>1, <2>2, <2>3
  <2>5. prop2name[k + 1] = Heading(k)
    <3>1. CASE k = 0
      BY <1>3, <3>1 DEF Heading
    <3>2. CASE k # 0
      <4>1. k \in 1..c
        BY <2>1, <2>2, <2>4, <3>2
      <4> QED BY <1>3, <3>2, <4>1 DEF Heading
    <3> QED BY <3>1, <3>2
  <2>6. k <= Len(props)
    BY <2>1, <2>2, <2>4
  <2> QED BY <1>6, <2>5, <2>6 DEF NameOf
<1>7. ~Listed(Given(Ahead.id)) => NameOf(Ahead.what, Given(Ahead.id)) = None
  BY DEF NameOf
<1> QED BY <1>2, <1>3, <1>4, <1>5, <1>6, <1>7

(* What readDB can do in a turn in which it finds a record ahead. *)
LEMMA Turn ==
  ASSUME IInv, ReadRecord
  PROVE  /\ rstate = "reading" /\ Len(Rest) >= 2 /\ UNCHANGED <<wvars, visible>>
         /\ \/ Handle(What(Rest[1]), Indx(Rest[1]), Rest[2])
            \/ Abort /\ Ahead.what = PUSH_CONF /\ Given(Ahead.id) >= Len(prop2name)
<1>1. rstate = "reading" /\ Len(Rest) >= 2 /\ UNCHANGED <<wvars, visible>>
  BY DEF ReadRecord
<1>2. /\ Ahead \in Meant /\ What(Rest[1]) = Ahead.what /\ Indx(Rest[1]) = Given(Ahead.id)
  BY <1>1, NextRecord
<1>3. Ahead.what \in ROOT..PUSH_CONF /\ Given(Ahead.id) \in Nat
  BY <1>2, MeantFields, GivenNumber
<1>4. ~Exit(What(Rest[1]))
  BY <1>2, <1>3 DEF Exit
<1>5. ASSUME What(Rest[1]) \in {PUSH_PROP, PUSH_CONF}, ~Listed(Indx(Rest[1]))
      PROVE  Ahead.what = PUSH_CONF /\ Given(Ahead.id) >= Len(prop2name)
  <2>1. Ahead.what = PUSH_CONF
    BY <1>1, <1>2, <1>5, KnownName
  <2>2. Given(Ahead.id) + 1 \notin 1..Len(prop2name)
    BY <1>1, <1>2, <1>5, KnownName DEF Listed
  <2>3. Len(prop2name) \in Nat
    BY LenProperties DEF IInv, Typed
  <2> QED BY <1>3, <2>1, <2>2, <2>3
<1> QED BY <1>1, <1>4, <1>5 DEF ReadRecord

LEMMA ReaderKeeps ==
  ASSUME IInv, readDB
  PROVE  IInv'
<1>1. /\ rstate = "reading" /\ UNCHANGED <<wvars, visible>>
      /\ visible \in Nat /\ visible <= Len(file) /\ shown \in Seq([what : Nat, id : Nat,
           name : Seq(Nat) \cup {None}, time : Times \cup {None}, data : Seq(Nat)])
      /\ prop2name \in Seq(Seq(Nat)) /\ Len(shown) \in Nat /\ Len(log) \in Nat /\ Len(shown) <= Len(log)
      /\ pos \in Nat /\ pos <= visible
  BY Turn, LenProperties DEF IInv, Typed, TypeOK, readDB, ReadPastEnd
<1>2. /\ wstate' = wstate /\ types' = types /\ props' = props /\ confs' = confs
      /\ file' = file /\ log' = log /\ ends' = ends /\ visible' = visible
  BY <1>1 DEF wvars
<1>3. Logged' /\ Declared'
  BY <1>2 DEF IInv, Logged, Declared, EndOf
<1>4. \A n \in Nat : EndOf(n)' = EndOf(n)
  BY <1>2 DEF EndOf
<1>5. ASSUME rstate' \in {"ended", "exited", "aborted"}, shown' = shown, pos' \in {pos, visible},
             prop2name' \in Seq(Seq(Nat))
      PROVE  IInv'
  <2>1. Typed'
    BY <1>1, <1>2, <1>5 DEF IInv, Typed, TypeOK
  <2>2. Followed' /\ Named'
    BY <1>2, <1>5 DEF IInv, Followed, Named, NamedByNumber, Headed, Heading
  <2> QED BY <1>3, <2>1, <2>2 DEF IInv
<1>6. CASE ReadPastEnd
  BY <1>1, <1>5, <1>6 DEF ReadPastEnd, Exit, Abort
<1>7. ASSUME Len(Rest) >= 2, Abort
      PROVE  IInv'
  BY <1>1, <1>5, <1>7 DEF Abort
<1>8. ASSUME Len(Rest) >= 2, Handle(What(Rest[1]), Indx(Rest[1]), Rest[2]), Cut
      PROVE  IInv'
  <2>1. Body \in Seq(Nat)
    BY <1>1, <1>8, BodyWords
  <2>2. rstate' = "ended" /\ shown' = shown /\ pos' = visible
    BY <1>1, <1>8, Handled
  <2>3. prop2name' \in Seq(Seq(Nat))
    <3>1. prop2name' = IF Ahead.what = DECL_PROP THEN Append(prop2name, Body) ELSE prop2name
      BY <1>1, <1>8, Handled
    <3> QED BY <1>1, <2>1, <3>1, AppendProperties
  <2> QED BY <1>5, <2>2, <2>3
<1>9. ASSUME Len(Rest) >= 2, Handle(What(Rest[1]), Indx(Rest[1]), Rest[2]), ~Cut
      PROVE  IInv'
  <2> DEFINE k    == Len(shown) + 1
             name == NameOf(Ahead.what, Given(Ahead.id))
             line == Line(Ahead.what, Given(Ahead.id), name, Ahead.time, Body)
  <2>1. /\ Len(Rest) >= 2 /\ rstate = "reading" /\ k \in 1..Len(log) /\ k \in Nat /\ Ahead = log[k]
        /\ Ahead \in Meant /\ Body \in Seq(Nat) /\ Body = Ahead.data
    <3>1. /\ k \in 1..Len(log) /\ k \in Nat /\ Ahead = log[k] /\ Ahead \in Meant
      BY <1>1, <1>9, NextRecord DEF Ahead
    <3>2. Body \in Seq(Nat) /\ Body = Ahead.data
      BY <1>1, <1>9, BodyWords
    <3> QED BY <1>1, <1>9, <3>1, <3>2
  <2>2. /\ shown' = Append(shown, line) /\ rstate' = "reading" /\ pos' = EndOf(k)
        /\ prop2name' = IF Ahead.what = DECL_PROP THEN Append(prop2name, Body) ELSE prop2name
    BY <1>1, <1>9, Handled
  <2>3. /\ Ahead.what \in 1..6 /\ Given(Ahead.id) \in Nat /\ Given(Given(Ahead.id)) = Given(Ahead.id)
        /\ Ahead.time \in Times \cup {None} /\ Ahead.id \in Nat
    BY <2>1, MeantFields, GivenNumber
  <2>4. name \in Seq(Nat) \cup {None}
    BY <1>1, ElementOfSeq, LenProperties DEF NameOf, Listed
  <2>5. /\ line.what = Ahead.what /\ line.id = Given(Ahead.id) /\ line.name = name
        /\ line.time = Ahead.time /\ line.data = Ahead.data
        /\ line \in [what : Nat, id : Nat, name : Seq(Nat) \cup {None}, time : Times \cup {None},
                     data : Seq(Nat)]
        /\ Written(line) = Written(Ahead)
    <3> HIDE DEF name
    <3> QED BY <2>1, <2>3, <2>4, SMTT(60) DEF Line, Written
  <2> HIDE DEF line
  <2>6. /\ shown' \in Seq([what : Nat, id : Nat, name : Seq(Nat) \cup {None}, time : Times \cup {None},
                           data : Seq(Nat)])
        /\ Len(shown') = k /\ shown'[k] = line
        /\ \A i \in 1..Len(shown) : shown'[i] = shown[i]
    BY <1>1, <2>2, <2>5, AppendProperties
  <2>7. EndOf(k) \in Nat /\ EndOf(k) <= visible
    <3>1. EndOf(k) \in Nat
      BY <1>1, <2>1, ElementOfSeq DEF EndOf, IInv, Typed
    <3> QED BY <1>1, <1>9, <3>1 DEF Cut
  <2>8. /\ Count(log, k) = (IF Ahead.what = DECL_PROP THEN Count(log, Len(shown)) + 1 ELSE Count(log, Len(shown)))
        /\ Count(log, Len(shown)) \in Nat /\ Len(prop2name) = 1 + Count(log, Len(shown))
        /\ prop2name[1] = Dash
        /\ \A m \in 1..Count(log, Len(shown)) : prop2name[m + 1] = props[m]
    BY <2>1, KnownName DEF IInv, Followed
  <2>9. /\ prop2name' \in Seq(Seq(Nat)) /\ Len(prop2name') = 1 + Count(log, k) /\ prop2name'[1] = Dash
        /\ \A m \in 1..Count(log, k) : prop2name'[m + 1] = props[m]
    <3>1. CASE Ahead.what = DECL_PROP
      <4>1. /\ Append(prop2name, Body) \in Seq(Seq(Nat))
            /\ Len(Append(prop2name, Body)) = Len(prop2name) + 1
            /\ \A i \in 1..Len(prop2name) : Append(prop2name, Body)[i] = prop2name[i]
            /\ Append(prop2name, Body)[Len(prop2name) + 1] = Body
        BY <1>1, <2>1, AppendProperties
      <4>2. k \in Decls(log, Len(log))
        BY <2>1, <3>1 DEF Decls
      <4>3. Body = props[Count(log, k)]
        BY <2>1, <4>2 DEF IInv, Declared
      <4>4. ASSUME NEW m \in 1..Count(log, k)
            PROVE  Append(prop2name, Body)[m + 1] = props[m]
        <5>1. CASE m \in 1..Count(log, Len(shown))
          <6>1. m + 1 \in 1..Len(prop2name)
            BY <2>8, <5>1
          <6> QED BY <2>8, <4>1, <5>1, <6>1
        <5>2. CASE m = Count(log, k)
          <6>1. m + 1 = Len(prop2name) + 1
            BY <2>8, <3>1, <5>2
          <6> QED BY <4>1, <4>3, <5>2, <6>1
        <5> QED BY <2>8, <3>1, <5>1, <5>2
      <4>5. Append(prop2name, Body)[1] = Dash
        <5>1. 1 \in 1..Len(prop2name)
          BY <2>8
        <5> QED BY <2>8, <4>1, <5>1
      <4> QED BY <2>2, <2>8, <3>1, <4>1, <4>4, <4>5
    <3>2. CASE Ahead.what # DECL_PROP
      BY <1>1, <2>2, <2>8, <3>2
    <3> QED BY <3>1, <3>2
  <2>10. Typed'
    <3>1. Len(shown') <= Len(log) /\ 0 <= pos' /\ pos' <= visible /\ pos' \in Nat
      BY <1>1, <2>1, <2>2, <2>6, <2>7
    <3> QED BY <1>2, <2>2, <2>6, <2>9, <3>1 DEF IInv, Typed, TypeOK
  <2>11. \A i \in 1..Len(shown') : i \in 1..Len(shown) \/ i = k
    BY <1>1, <2>6
  <2>12. Followed'
    <3>1. \A i \in 1..Len(shown') : Written(shown'[i]) = Written(log[i])
      BY <2>1, <2>5, <2>6, <2>11 DEF IInv, Followed
    <3>2. pos' = EndOf(Len(shown))'
      BY <1>4, <2>1, <2>2, <2>6
    <3> QED BY <1>2, <2>6, <2>9, <3>1, <3>2 DEF Followed
  <2>13. Named'
    <3>1. /\ Ahead.what = PUSH_PROP => Listed(Given(Ahead.id))
          /\ Ahead.what = PUSH_PROP /\ Ahead.id < IdSpan => name = Ahead.name
          /\ Listed(Given(Ahead.id)) =>
               /\ Given(Ahead.id) <= Len(props)
               /\ Ahead.what \in {PUSH_PROP, PUSH_CONF} => name = Heading(Given(Ahead.id))
          /\ ~Listed(Given(Ahead.id)) => name = None
      BY <2>1, KnownName
    <3> HIDE DEF name
    <3>2. ASSUME NEW i \in 1..Len(shown') PROVE NamedByNumber(i)'
      <4>1. CASE i \in 1..Len(shown)
        <5>1. shown'[i] = shown[i] /\ NamedByNumber(i)
          BY <2>6, <4>1 DEF IInv, Named
        <5> QED BY <1>2, <5>1 DEF NamedByNumber, Headed, Heading
      <4>2. CASE i = k
        <5>1. log'[i] = Ahead /\ shown'[i].what = Ahead.what /\ shown'[i].name = name
          BY <1>2, <2>1, <2>5, <2>6, <4>2
        <5> QED BY <1>2, <3>1, <5>1 DEF NamedByNumber, Headed, Heading
      <4> QED BY <2>11, <4>1, <4>2
    <3> QED BY <3>2 DEF Named
  <2> QED BY <1>3, <2>10, <2>12, <2>13 DEF IInv
<1>10. CASE ReadRecord
  BY <1>7, <1>8, <1>9, <1>10, Turn
<1> QED BY <1>6, <1>10 DEF readDB

----------------------------------------------------------------------------
LEMMA Initially == Init => IInv
<1> SUFFICES ASSUME Init PROVE IInv
  OBVIOUS
<1> DEFINE one == Line(ROOT, 0, None, None, Banner(1))
           two == Line(ROOT, 1, None, None, Banner(2))
<1>1. IdSpan \in Nat \ {0} /\ Given(0) = 0 /\ Given(1) = 1 % IdSpan
  BY DatabaseAssumption, GivenNumber DEF Given
<1>2. /\ one \in Meant /\ two \in Meant /\ Skip(one) = 2 /\ Skip(two) = 2
      /\ one.what = ROOT /\ two.what = ROOT /\ one.id = 0 /\ two.id = 1
      /\ one.time = None /\ two.time = None /\ one.data = Banner(1) /\ two.data = Banner(2)
      /\ ROOT # PUSH_PROP /\ Len(Banner(1)) = 1 /\ Len(Banner(2)) = 1
  BY DEF Line, Meant, ROOT, PUSH_CONF, PUSH_PROP, Data, Skip, Banner
<1>a. /\ Skip(one) + Len(one.data) = 3 /\ 0 + Skip(one) + Len(one.data) = 3
      /\ Skip(two) + Len(two.data) = 3 /\ 3 + Skip(two) + Len(two.data) = 6
  BY DEF Line, ROOT, PUSH_PROP, Skip, Banner
<1> HIDE DEF one, two
<1> DEFINE a == Words(Info(ROOT, Given(0)), Banner(1))
           b == Words(Info(ROOT, Given(1)), Banner(2))
<1>3. /\ a \in Seq(Nat) /\ Len(a) = 3 /\ RecordAt(a, 0, one)
      /\ b \in Seq(Nat) /\ Len(b) = 3 /\ RecordAt(b, 0, two)
  <2>1. /\ a \in Seq(Nat) /\ Len(a) = Skip(one) + Len(one.data) /\ RecordAt(a, 0, one)
    BY <1>2, PlainWords
  <2>2. /\ b \in Seq(Nat) /\ Len(b) = Skip(two) + Len(two.data) /\ RecordAt(b, 0, two)
    BY <1>2, PlainWords
  <2> HIDE DEF a, b
  <2> QED BY <1>a, <2>1, <2>2, Zenon
<1>4. log = <<one, two>> /\ file = a \o b /\ ends = <<Len(a), Len(file)>>
  BY <1>1 DEF Init, one, two
<1> HIDE DEF a, b
<1>5. /\ file \in Seq(Nat) /\ Len(file) = 6
      /\ \A i \in 1..3 : file[i] = a[i] /\ file[3 + i] = b[i]
  <2>1. /\ a \o b \in Seq(Nat) /\ Len(a \o b) = Len(a) + Len(b)
        /\ \A i \in 1..Len(a) : (a \o b)[i] = a[i]
        /\ \A i \in 1..Len(b) : (a \o b)[Len(a) + i] = b[i]
    BY <1>3, Behind
  <2> QED BY <1>3, <1>4, <2>1
<1>6. log \in Seq(Meant) /\ Len(log) = 2 /\ log[1] = one /\ log[2] = two
  BY <1>2, <1>4
<1>7. \A i \in DOMAIN file : file[i] \in Nat
  <2>1. DOMAIN file = 1..Len(file)
    BY <1>5, LenProperties, Zenon
  <2>2. \A i \in 1..Len(file) : file[i] \in Nat
    BY <1>5, ElementOfSeq, Zenon
  <2> QED BY <2>1, <2>2, Zenon
<1>8. ends \in Seq(Nat) /\ Len(ends) = 2 /\ EndOf(0) = 0 /\ EndOf(1) = 3 /\ EndOf(2) = 6
  BY <1>3, <1>4, <1>5 DEF EndOf
<1>9. /\ wstate = "open" /\ rstate = "reading" /\ types = 0 /\ props = <<>> /\ confs = <<>>
      /\ visible = 0 /\ pos = 0 /\ prop2name = <<Dash>> /\ shown = <<>>
  BY DEF Init
<1>10. Typed
  <2>1. Dash \in Seq(Nat)
    BY DEF Dash
  <2> QED BY <1>5, <1>6, <1>7, <1>8, <1>9, <2>1 DEF Typed, TypeOK
<1>11. Logged
  <2>1. RecordAt(file, 0, one)
    <3>1. Len(one.data) = 1 /\ Skip(one) = 2 /\ one.what # PUSH_PROP
      BY <1>2
    <3>2. file[0 + 1] = a[0 + 1] /\ file[0 + 2] = a[0 + 2] /\ file[0 + 2 + 1] = a[0 + 2 + 1]
      BY <1>5
    <3> QED BY <1>3, <3>1, <3>2 DEF RecordAt
  <2>2. RecordAt(file, 3, two)
    <3>1. Len(two.data) = 1 /\ Skip(two) = 2 /\ two.what # PUSH_PROP
      BY <1>2
    <3>2. file[3 + 1] = b[0 + 1] /\ file[3 + 2] = b[0 + 2] /\ file[3 + 2 + 1] = b[0 + 2 + 1]
      BY <1>5
    <3> QED BY <1>3, <3>1, <3>2 DEF RecordAt
  <2>3. \A i, j \in 0..Len(log) : i <= j => EndOf(i) <= EndOf(j)
    BY <1>6, <1>8
  <2>4. ASSUME NEW i \in 1..Len(log)
        PROVE  /\ log[i].time \in (IF log[i].what = PUSH_PROP THEN Times ELSE {None})
               /\ EndOf(i) = EndOf(i - 1) + Skip(log[i]) + Len(log[i].data)
               /\ RecordAt(file, EndOf(i - 1), log[i])
    <3>1. CASE i = 1
      <4>1. log[i] = one /\ EndOf(i) = 3 /\ EndOf(i - 1) = 0
        BY <1>6, <1>8, <3>1
      <4>2. one.time \in (IF one.what = PUSH_PROP THEN Times ELSE {None})
        BY <1>2
      <4> QED BY <1>a, <2>1, <4>1, <4>2, Zenon
    <3>2. CASE i = 2
      <4>1. log[i] = two /\ EndOf(i) = 6 /\ EndOf(i - 1) = 3
        BY <1>6, <1>8, <3>2
      <4>2. two.time \in (IF two.what = PUSH_PROP THEN Times ELSE {None})
        BY <1>2
      <4> QED BY <1>a, <2>2, <4>1, <4>2, Zenon
    <3> QED BY <1>6, <3>1, <3>2
  <2> QED BY <1>5, <1>6, <1>8, <2>3, <2>4 DEF Logged
<1>12. \A n \in 0..2 : Decls(log, n) = {} /\ Count(log, n) = 0
  <2>1. \A n \in 0..2 : Decls(log, n) = {}
    BY <1>2, <1>6 DEF Decls, ROOT, DECL_PROP
  <2> QED BY <2>1, FS_EmptySet DEF Count
<1>13. Declared
  BY <1>2, <1>6, <1>9, <1>12 DEF Declared, ROOT, PUSH_PROP
<1>14. Followed /\ Named
  BY <1>6, <1>8, <1>9, <1>12 DEF Followed, Named
<1> QED BY <1>10, <1>11, <1>13, <1>14 DEF IInv

LEMMA Keeps == IInv /\ [Next]_vars => IInv'
<1> SUFFICES ASSUME IInv, [Next]_vars PROVE IInv'
  OBVIOUS
<1>1. CASE Writer \/ Flush \/ Crash
  BY <1>1, WriterKeeps
<1>2. CASE readDB
  BY <1>2, ReaderKeeps
<1>3. CASE UNCHANGED vars
  <2>1. /\ wstate' = wstate /\ types' = types /\ props' = props /\ confs' = confs /\ file' = file
        /\ log' = log /\ ends' = ends /\ rstate' = rstate /\ pos' = pos /\ prop2name' = prop2name
        /\ shown' = shown /\ visible' = visible
    BY <1>3 DEF vars, wvars, rvars
  <2>2. Typed' /\ Logged'
    BY <2>1 DEF IInv, Typed, TypeOK, Logged, EndOf
  <2>3. Declared' /\ Followed' /\ Named'
    BY <2>1 DEF IInv, Declared, Followed, Named, NamedByNumber, Headed, Heading, EndOf
  <2> QED BY <2>2, <2>3 DEF IInv
<1> QED BY <1>1, <1>2, <1>3 DEF Next

LEMMA Invariance == Spec => []IInv
  BY Initially, Keeps, PTL DEF Spec

(* The lines that were logged or printed, as far as they are written. *)
LEMMA LinesOf ==
  ASSUME NEW S, NEW lines \in Seq(S)
  PROVE  /\ DOMAIN Lines(lines) = 1..Len(lines) /\ Len(lines) \in Nat /\ Len(Lines(lines)) = Len(lines)
         /\ \A i \in 1..Len(lines) : Lines(lines)[i] = Written(lines[i])
         /\ \A T : (\A i \in 1..Len(lines) : Written(lines[i]) \in T) => Lines(lines) \in Seq(T)
<1>1. DOMAIN lines = 1..Len(lines) /\ Len(lines) \in Nat
  BY LenProperties
<1>2. Lines(lines) = [i \in 1..Len(lines) |-> Written(lines[i])]
  BY <1>1 DEF Lines
<1>3. Lines(lines) \in Seq({Written(lines[i]) : i \in 1..Len(lines)})
  BY <1>1, <1>2, SeqDef
<1>4. DOMAIN Lines(lines) = 1..Len(lines) /\ Len(Lines(lines)) = Len(lines)
  BY <1>1, <1>2, <1>3, LenProperties
<1>5. ASSUME NEW T, \A i \in 1..Len(lines) : Written(lines[i]) \in T
      PROVE  Lines(lines) \in Seq(T)
  BY <1>1, <1>2, <1>5, SeqDef
<1> QED BY <1>1, <1>2, <1>4, <1>5

LEMMA LinesAppended ==
  ASSUME NEW S, NEW lines \in Seq(S), NEW line \in S
  PROVE  Lines(Append(lines, line)) = Append(Lines(lines), Written(line))
<1> DEFINE more == Append(lines, line)
<1>1. /\ more \in Seq(S) /\ Len(more) = Len(lines) + 1 /\ more[Len(lines) + 1] = line
      /\ \A i \in 1..Len(lines) : more[i] = lines[i]
  BY AppendProperties
<1> HIDE DEF more
<1> DEFINE T == {Written(more[i]) : i \in 1..Len(more)}
<1>2. /\ Len(lines) \in Nat /\ Len(Lines(lines)) = Len(lines)
      /\ \A i \in 1..Len(lines) : Lines(lines)[i] = Written(lines[i])
  BY LinesOf
<1>3. /\ Len(Lines(more)) = Len(more)
      /\ \A i \in 1..Len(more) : Lines(more)[i] = Written(more[i])
  BY <1>1, LinesOf
<1>4. Lines(lines) \in Seq(T) /\ Lines(more) \in Seq(T) /\ Written(line) \in T
  <2>1. \A i \in 1..Len(lines) : Written(lines[i]) \in T
    BY <1>1, <1>2
  <2>2. \A i \in 1..Len(more) : Written(more[i]) \in T
    OBVIOUS
  <2>3. Written(line) \in T
    BY <1>1, <1>2
  <2> HIDE DEF T
  <2> QED BY <1>1, <2>1, <2>2, <2>3, LinesOf
<1> HIDE DEF T
<1>5. /\ Append(Lines(lines), Written(line)) \in Seq(T)
      /\ Len(Append(Lines(lines), Written(line))) = Len(Lines(lines)) + 1
      /\ \A i \in 1..Len(Lines(lines)) : Append(Lines(lines), Written(line))[i] = Lines(lines)[i]
      /\ Append(Lines(lines), Written(line))[Len(Lines(lines)) + 1] = Written(line)
  BY <1>4, AppendProperties
<1>6. Len(Lines(more)) = Len(Append(Lines(lines), Written(line)))
  BY <1>1, <1>2, <1>3, <1>5
<1>7. ASSUME NEW i \in 1..Len(Lines(more))
      PROVE  Lines(more)[i] = Append(Lines(lines), Written(line))[i]
  <2>1. CASE i \in 1..Len(lines)
    <3>1. i \in 1..Len(more) /\ i \in 1..Len(Lines(lines)) /\ more[i] = lines[i]
      BY <1>1, <1>2, <2>1
    <3> QED BY <1>2, <1>3, <1>5, <2>1, <3>1
  <2>2. CASE i = Len(lines) + 1
    <3>1. i \in 1..Len(more) /\ i = Len(Lines(lines)) + 1 /\ more[i] = line
      BY <1>1, <1>2, <1>3, <2>2
    <3> QED BY <1>3, <1>5, <3>1
  <2>3. i \in 1..Len(lines) \/ i = Len(lines) + 1
    BY <1>1, <1>2, <1>3
  <2> QED BY <2>1, <2>2, <2>3
<1>8. Lines(more) = Append(Lines(lines), Written(line))
  BY <1>4, <1>5, <1>6, <1>7, SeqEqual
<1> QED BY <1>8 DEF more

(* A line that was meant, as it is written, is an entry of the journal. *)
LEMMA EntryOf ==
  ASSUME NEW line \in Meant
  PROVE  Written(line) \in Entries
BY MeantFields DEF Written, Line, Entries, Data

(* The records that can be read whole are those readDB has printed, if the *)
(* next one is not all there or there is none.                             *)
LEMMA WholeIs ==
  ASSUME IInv, rstate = "reading", Len(shown) = Len(log) \/ Cut
  PROVE  Len(shown) = Whole
<1> DEFINE n == Len(shown)
           Is(m) == EndOf(m) <= visible /\ (m = Len(log) \/ EndOf(m + 1) > visible)
<1>1. /\ n \in 0..Len(log) /\ Len(log) \in Nat /\ visible \in Nat
      /\ \A m \in 0..Len(log) : EndOf(m) \in Nat
  <2>1. /\ n \in 0..Len(log) /\ Len(log) \in Nat /\ visible \in Nat /\ ends \in Seq(Nat)
        /\ Len(ends) = Len(log)
    BY LenProperties DEF IInv, Typed, TypeOK
  <2>2. \A m \in 0..Len(log) : EndOf(m) \in Nat
    BY <2>1 DEF EndOf
  <2> QED BY <2>1, <2>2
<1>2. Is(n)
  BY DEF IInv, Followed, Typed, TypeOK, Cut
<1>3. \A i, j \in 0..Len(log) : i <= j => EndOf(i) <= EndOf(j)
  BY DEF IInv, Logged
<1>4. ASSUME NEW m \in 0..Len(log), Is(m)
      PROVE  m = n
  <2>1. CASE m < n
    <3>1. m + 1 \in 0..Len(log) /\ m + 1 <= n /\ m # Len(log)
      BY <1>1, <2>1
    <3>2. EndOf(m + 1) <= EndOf(n) /\ EndOf(n) <= visible /\ EndOf(m + 1) > visible
      BY <1>1, <1>2, <1>3, <1>4, <3>1
    <3> QED BY <1>1, <3>1, <3>2
  <2>2. CASE n < m
    <3>1. n + 1 \in 0..Len(log) /\ n + 1 <= m /\ n # Len(log)
      BY <1>1, <2>2
    <3>2. EndOf(n + 1) <= EndOf(m) /\ EndOf(m) <= visible /\ EndOf(n + 1) > visible
      BY <1>1, <1>2, <1>3, <1>4, <3>1
    <3> QED BY <1>1, <3>1, <3>2
  <2> QED BY <1>1, <2>1, <2>2
<1>5. Whole = CHOOSE m \in 0..Len(log) : Is(m)
  BY DEF Whole
<1> HIDE DEF Is, n
<1>6. n = CHOOSE m \in 0..Len(log) : Is(m)
  BY <1>1, <1>2, <1>4
<1> QED BY <1>5, <1>6 DEF n

----------------------------------------------------------------------------
(* While readDB runs it stands between two records and has printed those   *)
(* before, in order, none left out and none twice, whatever the writer did *)
(* meanwhile and wherever the file ends; each has the name of the property *)
(* of its number, which is its own for data whose number fits its bits.    *)
THEOREM ReadsInOrder == Spec => []InOrder
<1>1. IInv => InOrder
  <2> SUFFICES ASSUME IInv PROVE InOrder
    OBVIOUS
  <2>1. /\ log \in Seq(Meant) /\ Len(log) \in Nat /\ Len(shown) \in Nat /\ Len(shown) <= Len(log)
        /\ shown \in Seq([what : Nat, id : Nat, name : Seq(Nat) \cup {None},
                          time : Times \cup {None}, data : Seq(Nat)])
        /\ DOMAIN shown = 1..Len(shown)
    BY LenProperties DEF IInv, Typed, TypeOK
  <2> DEFINE T == Entries
  <2>2. /\ Len(Lines(log)) = Len(log) /\ \A i \in 1..Len(log) : Lines(log)[i] = Written(log[i])
        /\ Lines(log) \in Seq(T)
    <3>1. \A i \in 1..Len(log) : Written(log[i]) \in T
      BY <2>1, ElementOfSeq, EntryOf
    <3> QED BY <2>1, <3>1, LinesOf
  <2>3. \A i \in 1..Len(shown) : i \in 1..Len(log) /\ Written(shown[i]) = Lines(log)[i]
    BY <2>1, <2>2 DEF IInv, Followed
  <2>4. /\ Len(Lines(shown)) = Len(shown) /\ \A i \in 1..Len(shown) : Lines(shown)[i] = Lines(log)[i]
        /\ Lines(shown) \in Seq(T)
    <3>1. /\ Len(Lines(shown)) = Len(shown)
          /\ \A i \in 1..Len(shown) : Lines(shown)[i] = Written(shown[i])
      BY <2>1, LinesOf
    <3>2. \A i \in 1..Len(shown) : Written(shown[i]) \in T
      BY <2>2, <2>3, ElementOfSeq
    <3>3. Lines(shown) \in Seq(T)
      BY <2>1, <3>2, LinesOf
    <3> QED BY <2>3, <3>1, <3>3
  <2> HIDE DEF T
  <2>5. Lines(shown) = SubSeq(Lines(log), 1, Len(shown))
    <3>1. \A i \in 1..Len(shown) : Lines(log)[i] \in T
      BY <2>1, <2>2, <2>3, ElementOfSeq
    <3>2. /\ SubSeq(Lines(log), 1, Len(shown)) \in Seq(T)
          /\ Len(SubSeq(Lines(log), 1, Len(shown))) = Len(shown)
          /\ \A i \in 1..Len(shown) : SubSeq(Lines(log), 1, Len(shown))[i] = Lines(log)[i]
      <4> DEFINE first == SubSeq(Lines(log), 1, Len(shown))
      <4>1. /\ first \in Seq(T)
            /\ Len(first) = IF 1 <= Len(shown) THEN Len(shown) - 1 + 1 ELSE 0
            /\ \A i \in 1..(Len(shown) - 1 + 1) : first[i] = Lines(log)[1 + i - 1]
        BY <2>1, <3>1, SubSeqProperties
      <4>2. \A i \in 1..Len(shown) : i \in 1..(Len(shown) - 1 + 1) /\ 1 + i - 1 = i
        BY <2>1
      <4> HIDE DEF first
      <4>3. Len(first) = Len(shown)
        BY <2>1, <4>1
      <4>4. \A i \in 1..Len(shown) : first[i] = Lines(log)[i]
        BY <4>1, <4>2
      <4> QED BY <4>1, <4>3, <4>4 DEF first
    <3> QED BY <2>4, <3>2, SeqEqual
  <2> QED BY <2>1, <2>5 DEF IInv, Typed, Followed, Named, InOrder
<1> QED BY <1>1, Invariance, PTL

(* readDB comes to its end exactly when no record is left that is all      *)
(* there; only data of a configuration whose number no property has can    *)
(* stop it before.                                                         *)
THEOREM NothingLeft == Spec => StopsAtEnd
<1> DEFINE Stops == rstate = "reading" /\ rstate' # "reading" =>
                      \/ Len(shown) = Whole
                      \/ /\ rstate' = "aborted"
                         /\ log[Len(shown) + 1].what = PUSH_CONF
                         /\ Given(log[Len(shown) + 1].id) >= Len(prop2name)
<1>1. IInv /\ [Next]_vars => [Stops]_vars
  <2> SUFFICES ASSUME IInv, [Next]_vars, rstate = "reading", rstate' # "reading"
               PROVE  \/ Len(shown) = Whole
                      \/ /\ rstate' = "aborted" /\ Ahead.what = PUSH_CONF
                         /\ Given(Ahead.id) >= Len(prop2name)
    BY DEF Ahead
  <2>1. readDB
    BY DEF Next, Writer, declType, declProp, declConf, pushProp, pushConf, close, Writes, Flush,
           Crash, vars, rvars
  <2>2. CASE ReadRecord
    <3>1. Len(Rest) >= 2
      BY <2>2, Turn
    <3>2. CASE Handle(What(Rest[1]), Indx(Rest[1]), Rest[2])
      <4>1. Cut
        BY <3>1, <3>2, Handled
      <4> QED BY <4>1, WholeIs
    <3>3. CASE Abort /\ Ahead.what = PUSH_CONF /\ Given(Ahead.id) >= Len(prop2name)
      BY <3>3 DEF Abort
    <3> QED BY <2>2, <3>2, <3>3, Turn
  <2>3. CASE ReadPastEnd
    <3> SUFFICES ASSUME Len(shown) # Len(log) PROVE Cut
      BY WholeIs
    <3>1. /\ Len(Rest) \in Nat /\ Len(Rest) = visible - pos /\ Len(Rest) < 2
          /\ pos \in Nat /\ visible \in Nat
      BY <2>3, RestWords DEF ReadPastEnd, IInv, Typed
    <3>2. Len(shown) + 1 \in 1..Len(log) /\ (Len(shown) + 1) - 1 = Len(shown) /\ log \in Seq(Meant)
      BY LenProperties, SMTT(60) DEF IInv, Typed, TypeOK
    <3>3. Ahead \in Meant
      BY <3>2, ElementOfSeq DEF Ahead
    <3>4. EndOf(Len(shown) + 1) = pos + Skip(Ahead) + Len(Ahead.data)
      BY <3>2 DEF IInv, Logged, Followed, Ahead
    <3>5. Skip(Ahead) \in 2..3 /\ Len(Ahead.data) \in Nat
      BY <3>3, MeantFields
    <3> DEFINE skip == Skip(Ahead)
               size == Len(Ahead.data)
               e    == EndOf(Len(shown) + 1)
    <3> SUFFICES e > visible
      BY DEF Cut
    <3>6. e = pos + skip + size
      BY <3>4
    <3>7. skip \in 2..3 /\ size \in Nat
      BY <3>5
    <3> HIDE DEF skip, size, e
    <3>8. CASE skip = 2
      BY <3>1, <3>6, <3>7, <3>8
    <3>9. CASE skip = 3
      BY <3>1, <3>6, <3>7, <3>9
    <3> QED BY <3>7, <3>8, <3>9
  <2> QED BY <2>1, <2>2, <2>3 DEF readDB
<1> QED BY <1>1, Invariance, PTL DEF Spec, StopsAtEnd

(* A record that is cut off in its body is printed with the full length of *)
(* its bytes, of which those that are missing read as zeros.               *)
THEOREM TornRecord == Spec => TornPrinted
<1> DEFINE Torn == rstate = "reading" /\ rstate' = "ended" /\ Len(Rest) >= 2 =>
                     LET line == log[Len(shown) + 1]
                     IN  /\ tail'.what = line.what /\ tail'.id = Given(line.id)
                         /\ Len(tail'.data) = Len(line.data)
                         /\ \A i \in DOMAIN line.data : tail'.data[i] \in {line.data[i], Zero}
<1>1. IInv /\ [Next]_vars => [Torn]_vars
  <2> SUFFICES ASSUME IInv, [Next]_vars, rstate = "reading", rstate' = "ended", Len(Rest) >= 2
               PROVE  /\ tail'.what = Ahead.what /\ tail'.id = Given(Ahead.id)
                      /\ Len(tail'.data) = Len(Ahead.data)
                      /\ \A i \in DOMAIN Ahead.data : tail'.data[i] \in {Ahead.data[i], Zero}
    BY DEF Ahead
  <2>1. readDB
    BY DEF Next, Writer, declType, declProp, declConf, pushProp, pushConf, close, Writes, Flush,
           Crash, vars, rvars
  <2>2. ReadRecord
    <3>1. Len(Rest) \in Nat
      BY RestWords
    <3> QED BY <2>1, <3>1 DEF readDB, ReadPastEnd
  <2>3. Handle(What(Rest[1]), Indx(Rest[1]), Rest[2])
    BY <2>2, Turn DEF Abort
  <2>4. Cut
    BY <2>3, Handled
  <2>5. PICK time : tail' = Line(Ahead.what, Given(Ahead.id), NameOf(Ahead.what, Given(Ahead.id)), time, Body)
    BY <2>3, <2>4, Handled
  <2>6. tail'.what = Ahead.what /\ tail'.id = Given(Ahead.id) /\ tail'.data = Body
    BY <2>5 DEF Line
  <2>7. DOMAIN Ahead.data = 1..Len(Ahead.data)
    BY NextRecord, MeantFields, LenProperties
  <2> QED BY <2>6, <2>7, BodyWords
<1> QED BY <1>1, Invariance, PTL DEF Spec, TornPrinted

(* Writer and readDB together keep a journal: every operation of Writer    *)
(* adds an entry, every turn of readDB shows the next one or is its last,  *)
(* and nothing else changes what was added or shown.                       *)
THEOREM Refinement == Spec => Implements
<1>1. ASSUME IInv
      PROVE  /\ log \in Seq(Meant) /\ Len(log) \in Nat
             /\ Lines(log) \in Seq(Entries) /\ Len(Lines(log)) = Len(log)
             /\ \A i \in 1..Len(log) : Lines(log)[i] = Written(log[i])
             /\ Len(Lines(shown)) = Len(shown) /\ Len(shown) \in Nat /\ Len(shown) <= Len(log)
  <2>1. log \in Seq(Meant) /\ Len(log) \in Nat
    BY <1>1, LenProperties DEF IInv, Typed
  <2>2. \A i \in 1..Len(log) : Written(log[i]) \in Entries
    BY <2>1, ElementOfSeq, EntryOf
  <2>3. Len(Lines(shown)) = Len(shown) /\ Len(shown) \in Nat /\ Len(shown) <= Len(log)
    BY <1>1, LinesOf DEF IInv, Typed, TypeOK
  <2> QED BY <2>1, <2>2, <2>3, LinesOf
<1>2. Init => J!Init
  <2> SUFFICES ASSUME Init PROVE J!Init
    OBVIOUS
  <2>1. IInv /\ shown = <<>> /\ rstate = "reading"
    BY Initially DEF Init
  <2>2. Lines(shown) = <<>>
    BY <2>1 DEF Lines
  <2> QED BY <1>1, <2>1, <2>2 DEF J!Init
<1>3. IInv /\ IInv' /\ [Next]_vars => [J!Next]_(J!jvars)
  <2> SUFFICES ASSUME IInv, IInv', [Next]_vars
               PROVE  J!Next \/ UNCHANGED J!jvars
    OBVIOUS
  <2>1. CASE Writer \/ Flush \/ Crash
    <3>1. shown' = shown /\ rstate' = rstate /\ (log' = log \/ \E line : log' = Append(log, line))
      BY <2>1 DEF Writer, declType, declProp, declConf, pushProp, pushConf, close, Writes, Flush,
           Crash, wvars, rvars
    <3>2. CASE log' = log
      BY <3>1, <3>2 DEF J!jvars
    <3>3. CASE \E line : log' = Append(log, line)
      <4>1. PICK line : log' = Append(log, line)
        BY <3>3
      <4>2. /\ log \in Seq(Meant) /\ log' \in Seq(Meant) /\ Len(log) \in Nat
            /\ Lines(log) \in Seq(Entries) /\ Len(Lines(log)) = Len(log)
        BY <1>1, LenProperties DEF IInv, Typed
      <4>3. Len(log') = Len(log) + 1 /\ log'[Len(log) + 1] = line
        BY <4>1, <4>2
      <4>4. line \in Meant
        BY <4>2, <4>3, ElementOfSeq
      <4>5. Lines(log') = Append(Lines(log), Written(line)) /\ Written(line) \in Entries
        BY <4>1, <4>2, <4>4, LinesAppended, EntryOf
      <4>6. /\ Lines(log') \in Seq(Entries)
            /\ Len(Lines(log')) = Len(Lines(log)) + 1 /\ J!Front(Lines(log')) = Lines(log)
        BY <4>2, <4>5 DEF J!Front
      <4>7. J!Add
        BY <3>1, <4>2, <4>6 DEF J!Add
      <4> QED BY <4>7 DEF J!Next
    <3> QED BY <3>1, <3>2, <3>3
  <2>2. CASE readDB
    <3>1. rstate = "reading" /\ log' = log
      BY <2>2, Turn DEF readDB, ReadPastEnd, wvars
    <3>2. CASE rstate' # "reading"
      <4>1. shown' = shown
        <5>1. CASE ReadPastEnd
          BY <5>1 DEF ReadPastEnd, Exit, Abort
        <5>2. CASE ReadRecord
          BY <3>2, <5>2, Turn, Handled DEF Abort
        <5> QED BY <2>2, <5>1, <5>2 DEF readDB
      <4> QED BY <3>1, <3>2, <4>1 DEF J!Finish, J!Next
    <3>3. CASE rstate' = "reading"
      <4>1. ReadRecord
        BY <2>2, <3>3 DEF readDB, ReadPastEnd, Exit, Abort
      <4>2. Handle(What(Rest[1]), Indx(Rest[1]), Rest[2]) /\ Len(Rest) >= 2
        BY <3>3, <4>1, Turn DEF Abort
      <4>3. PICK line : shown' = Append(shown, line)
        BY <3>1, <3>3, <4>2, Handled
      <4>4. /\ Len(shown) + 1 \in 1..Len(log) /\ Len(shown) \in Nat
        BY <3>1, <4>2, NextRecord
      <4> DEFINE S == [what : Nat, id : Nat, name : Seq(Nat) \cup {None}, time : Times \cup {None},
                       data : Seq(Nat)]
      <4>5. shown \in Seq(S) /\ shown' \in Seq(S)
        BY DEF IInv, Typed
      <4> HIDE DEF S
      <4>6. Len(shown') = Len(shown) + 1 /\ shown'[Len(shown) + 1] = line
        BY <4>3, <4>5
      <4>7. line \in S
        BY <4>4, <4>5, <4>6, ElementOfSeq
      <4>8. Written(line) = Written(log[Len(shown) + 1])
        <5>1. Len(shown) + 1 \in 1..Len(shown')
          BY <4>4, <4>6
        <5> QED BY <3>1, <4>6, <5>1 DEF IInv, Followed
      <4>9. Lines(shown') = Append(Lines(shown), Written(line))
        BY <4>3, <4>5, <4>7, LinesAppended
      <4>10. /\ Len(Lines(shown)) = Len(shown) /\ Len(Lines(log)) = Len(log)
             /\ Lines(log)[Len(Lines(shown)) + 1] = Written(line)
        BY <1>1, <4>4, <4>8
      <4>11. Len(Lines(shown)) < Len(Lines(log))
        BY <1>1, <4>4
      <4> QED BY <3>1, <3>3, <4>9, <4>10, <4>11 DEF J!Show, J!Next
    <3> QED BY <3>2, <3>3
  <2>3. CASE UNCHANGED vars
    BY <2>3 DEF vars, wvars, rvars, J!jvars
  <2> QED BY <2>1, <2>2, <2>3 DEF Next
<1> QED BY <1>2, <1>3, Invariance, PTL DEF Spec, Implements, J!Spec

(* readDB cannot go on for ever over one file: a turn that is not its last *)
(* reads two words at least, and none that is not there.                   *)
THEOREM EveryTurnReads ==
  Spec => [][readDB /\ rstate' = "reading" => pos + 2 <= pos' /\ pos' <= visible]_vars
<1>1. ASSUME IInv, IInv', readDB, rstate' = "reading" PROVE pos + 2 <= pos' /\ pos' <= visible
  <2>1. ReadRecord
    BY <1>1 DEF readDB, ReadPastEnd, Exit, Abort
  <2>2. /\ rstate = "reading" /\ Len(Rest) >= 2 /\ visible' = visible
        /\ Handle(What(Rest[1]), Indx(Rest[1]), Rest[2])
    BY <1>1, <2>1, Turn DEF Abort
  <2>3. pos' = pos + Skip(Ahead) + Len(Ahead.data) /\ Ahead \in Meant /\ pos \in Nat
    BY <1>1, <2>2, NextRecord, Handled DEF IInv, Typed
  <2>4. Len(Ahead.data) \in Nat /\ Skip(Ahead) \in 2..3
    BY <2>3, MeantFields DEF Skip
  <2>5. pos' <= visible'
    BY <1>1 DEF IInv, Typed, TypeOK
  <2> QED BY <2>2, <2>3, <2>4, <2>5
<1>2. IInv /\ IInv' /\ [Next]_vars => [readDB /\ rstate' = "reading" => pos + 2 <= pos' /\ pos' <= visible]_vars
  BY <1>1
<1> QED BY <1>2, Invariance, PTL DEF Spec
============================================================================
