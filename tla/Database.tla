------------------------------ MODULE Database ------------------------------
(***************************************************************************)
(* The database file: Writer appends records of declarations and data, and *)
(* readDB prints what it finds.  A record is an info word (what it is and  *)
(* the number of what it is about), the size of its body and the body,     *)
(* which for the data of a property starts with a time stamp.  Numbers are *)
(* the sizes of tables, and eight bits wide.                               *)
(*                                                                         *)
(* The file is a sequence of words: info, sizes, times and bytes are       *)
(* numbers.  The stream of the writer is buffered: the reader, which may   *)
(* run at any time, sees as much of the file as was flushed, and a writer  *)
(* that crashes leaves it cut off anywhere.  readDB asks for the end of    *)
(* the file before it reads a record and never afterwards, so what it      *)
(* makes of a record that is not all there depends on what its variables   *)
(* happen to hold.                                                         *)
(***************************************************************************)
EXTENDS Integers, Sequences, SequencesExt

CONSTANTS
  IdSpan,      \* numbers are taken modulo this (256 in the code)
  Names,       \* names to declare, sequences of bytes
  Payloads,    \* encoded values, sequences of bytes
  Times,       \* time stamps
  MaxRecords,  \* the writer writes so many records after its own two
  Anything,    \* a line nobody can foretell
  None

ASSUME DatabaseAssumption ==
  /\ IdSpan \in Nat \ {0} /\ MaxRecords \in Nat
  /\ Times \subseteq Nat
  /\ Names \subseteq Seq(Nat) /\ Payloads \subseteq Seq(Nat)

VARIABLES
  (* Writer *)
  wstate,    \* what became of the writer: open, closed, crashed
  types,     \* the number of entries of m_types
  props,     \* the names in m_props
  confs,     \* the names in m_confs
  file,      \* m_os and what it wrote before
  (* the file system *)
  visible,   \* the number of words of the file that can be read
  (* readDB *)
  rstate,    \* what became of the reader: reading, ended, exited, aborted
  pos,       \* the number of words read
  prop2name, \* the names of the properties, behind an entry "-"
  shown,     \* what was printed while the stream was good
  tail,      \* what was printed in the turn that met the end of the file
  (* observation *)
  log,       \* what the caller of the writer meant to be printed
  ends       \* where in the file the record of each of these lines ends

wvars == <<wstate, types, props, confs, file, log, ends>>
rvars == <<rstate, pos, prop2name, shown, tail>>
vars == <<wvars, visible, rvars>>

ROOT      == 1
DECL_TYPE == 2
DECL_PROP == 3
DECL_CONF == 4
PUSH_PROP == 5
PUSH_CONF == 6

Info(what, id) == what * IdSpan + id
What(info)     == info \div IdSpan
Indx(info)     == info % IdSpan

Zero  == 0       \* the byte a string is filled with when it is resized
Dash  == <<1>>   \* "-"
Banner(k) == <<k>>   \* "referee" and "v1.0.0"
TypeText == <<1>>    \* a type as text

(* One printed line: what it is about, the number and the name of that,    *)
(* the time stamp and the bytes.                                           *)
Line(what, id, name, time, data) ==
  [what |-> what, id |-> id, name |-> name, time |-> time, data |-> data]

(* The words of Writer::record. *)
Words(info, data) == <<info, Len(data)>> \o data

(* A slip to test the properties with: the size leaves out the time. *)
TimedWordsShort(info, time, data) == <<info, Len(data), time>> \o data

TimedWords(info, time, data) == <<info, Len(data) + 1, time>> \o data

Init ==
  /\ wstate = "open"
  /\ types = 0 /\ props = <<>> /\ confs = <<>>
  /\ file = Words(Info(ROOT, 0), Banner(1)) \o Words(Info(ROOT, 1 % IdSpan), Banner(2))
  /\ log = << Line(ROOT, 0, None, None, Banner(1)), Line(ROOT, 1, None, None, Banner(2)) >>
  /\ ends = << Len(Words(Info(ROOT, 0), Banner(1))), Len(file) >>
  /\ visible = 0
  /\ rstate = "reading" /\ pos = 0
  /\ prop2name = <<Dash>>
  /\ shown = <<>> /\ tail = None

----------------------------------------------------------------------------
(* Writer.  declType, declProp and declConf return the size of the table   *)
(* as eight bits; the caller uses what it was given.                       *)
Given(size) == size % IdSpan

Writes(line, words) ==
  /\ wstate = "open" /\ Len(log) < MaxRecords + 2
  /\ file' = file \o words
  /\ log' = Append(log, line)
  /\ ends' = Append(ends, Len(file'))
  /\ UNCHANGED <<wstate, visible, rvars>>

declType ==
  /\ types' = types + 1
  /\ Writes(Line(DECL_TYPE, 0, None, None, TypeText), Words(Info(DECL_TYPE, 0), TypeText))
  /\ UNCHANGED <<props, confs>>

declProp(t, name) ==
  /\ props' = Append(props, name)
  /\ Writes(Line(DECL_PROP, t, None, None, name), Words(Info(DECL_PROP, Given(t)), name))
  /\ UNCHANGED <<types, confs>>

declConf(t, name) ==
  /\ confs' = Append(confs, name)
  /\ Writes(Line(DECL_CONF, t, None, None, name), Words(Info(DECL_CONF, Given(t)), name))
  /\ UNCHANGED <<types, props>>

pushProp(k, time, data) ==
  /\ Writes(Line(PUSH_PROP, k, props[k], time, data),
            TimedWords(Info(PUSH_PROP, Given(k)), time, data))
  /\ UNCHANGED <<types, props, confs>>

pushConf(k, data) ==
  /\ Writes(Line(PUSH_CONF, k, confs[k], None, data), Words(Info(PUSH_CONF, Given(k)), data))
  /\ UNCHANGED <<types, props, confs>>

close ==
  /\ wstate = "open"
  /\ wstate' = "closed"
  /\ visible' = Len(file)
  /\ UNCHANGED <<types, props, confs, file, log, ends, rvars>>

(* The buffer of the stream is full. *)
Flush ==
  /\ wstate = "open"
  /\ visible' \in (visible + 1)..Len(file)
  /\ UNCHANGED <<wvars, rvars>>

Crash ==
  /\ wstate = "open"
  /\ wstate' = "crashed"
  /\ UNCHANGED <<types, props, confs, file, log, ends, visible, rvars>>

Writer ==
  \/ declType
  \/ \E t \in 1..types, name \in Names : declProp(t, name) \/ declConf(t, name)
  \/ \E k \in DOMAIN props, time \in Times, data \in Payloads : pushProp(k, time, data)
  \/ \E k \in DOMAIN confs, data \in Payloads : pushConf(k, data)
  \/ close

----------------------------------------------------------------------------
(* readDB.  One action is one turn of its loop, in which it reads from the *)
(* words that are there.                                                   *)
Rest == SubSeq(file, pos + 1, visible)

(* Slips to test the properties with: the bytes one word too early, and    *)
(* only those that are there.                                              *)
BytesEarly(k, n) == [i \in 1..n |-> IF k + i <= Len(Rest) THEN Rest[k + i - 1] ELSE Zero]

BytesFound(k, n) == SubSeq(Rest, k + 1, IF k + n <= Len(Rest) THEN k + n ELSE Len(Rest))

(* Reading n bytes behind the first k words of the rest. *)
Bytes(k, n) == [i \in 1..n |-> IF k + i <= Len(Rest) THEN Rest[k + i] ELSE Zero]

(* prop2name[indx], for configurations too, and without a look at the size *)
(* of the table: a number that is not in it prints anything, if the        *)
(* process lives that long.                                                *)
Listed(id) == id + 1 \in DOMAIN prop2name

NameOf(what, id) ==
  IF what \in {PUSH_PROP, PUSH_CONF} /\ Listed(id) THEN prop2name[id + 1] ELSE None

(* What is done with a record whose info and size are there: the body may  *)
(* yet be cut off, and then the stream has met its end.                    *)
Handle(what, id, size) ==
  LET timed == what = PUSH_PROP
      skip  == IF timed THEN 3 ELSE 2
      n     == IF timed THEN size - 1 ELSE size
      cut   == skip + n > Len(Rest)
  IN  /\ what \in ROOT..PUSH_CONF
      /\ \E time \in IF ~timed THEN {None} ELSE IF Len(Rest) > 2 THEN {Rest[3]} ELSE Times :
           LET line == Line(what, id, NameOf(what, id), time, Bytes(skip, n))
           IN  IF cut THEN tail' = line /\ UNCHANGED shown
                      ELSE shown' = Append(shown, line) /\ UNCHANGED tail
      /\ prop2name' = IF what = DECL_PROP THEN Append(prop2name, Bytes(skip, n)) ELSE prop2name
      /\ pos' = IF cut THEN visible ELSE pos + skip + n
      /\ rstate' = IF cut THEN "ended" ELSE "reading"

(* A slip to test the properties with: a case forgotten in the switch. *)
ExitOnConf(what) ==
  /\ what \notin ROOT..PUSH_PROP
  /\ rstate' = "exited"
  /\ UNCHANGED <<pos, prop2name, shown, tail>>

(* The ways the process can end inside a turn: a kind the switch does not  *)
(* know, and an exception or a fault.                                      *)
Exit(what) ==
  /\ what \notin ROOT..PUSH_CONF
  /\ rstate' = "exited"
  /\ UNCHANGED <<pos, prop2name, shown, tail>>

Abort == rstate' = "aborted" /\ UNCHANGED <<pos, prop2name, shown, tail>>

ReadRecord ==
  LET what == What(Rest[1])
      id   == Indx(Rest[1])
  IN  /\ rstate = "reading" /\ Len(Rest) >= 2
      /\ \/ Handle(what, id, Rest[2])
         \/ what \in {PUSH_PROP, PUSH_CONF} /\ ~Listed(id) /\ Abort
         \/ Exit(what)
      /\ UNCHANGED <<wvars, visible>>

(* A slip to test the properties with: waiting for more. *)
ReadPastEndWaits == rstate = "reading" /\ Len(Rest) < 2 /\ UNCHANGED vars

(* The end of the file comes before the size, or before the info: what is  *)
(* missing is arbitrary.  Some record is made of it and printed, unless    *)
(* the kind is none or the size too large for a string.                    *)
ReadPastEnd ==
  /\ rstate = "reading" /\ Len(Rest) < 2
  /\ \/ rstate' = "ended" /\ tail' = Anything /\ pos' = visible /\ UNCHANGED <<prop2name, shown>>
     \/ Rest = <<>> /\ Exit(0)
     \/ Abort
  /\ UNCHANGED <<wvars, visible>>

readDB == ReadRecord \/ ReadPastEnd

Next == Writer \/ Flush \/ Crash \/ readDB

Spec == Init /\ [][Next]_vars

(* readDB is a loop of its own process. *)
FairSpec == Spec /\ WF_vars(readDB)
----------------------------------------------------------------------------
TypeOK ==
  /\ wstate \in {"open", "closed", "crashed"}
  /\ rstate \in {"reading", "ended", "exited", "aborted"}
  /\ types \in Nat /\ props \in Seq(Names) /\ confs \in Seq(Names)
  /\ 0 <= pos /\ pos <= visible /\ visible <= Len(file)
  /\ \A i \in DOMAIN file : file[i] \in Nat
  /\ Len(shown) <= Len(log)

(* A line as far as it is written: what was meant by a number above the    *)
(* span is not.                                                            *)
Written(line) == Line(line.what, Given(line.id), None, line.time, line.data)

Lines(lines) == [i \in DOMAIN lines |-> Written(lines[i])]

Entries == [what : ROOT..PUSH_CONF, id : 0..(IdSpan - 1), name : {None},
            time : Times \cup {None}, data : Names \cup Payloads \cup {Banner(1), Banner(2)}]

(* Where the first n records end, and the number of records that can be    *)
(* read whole.                                                             *)
EndOf(n) == IF n = 0 THEN 0 ELSE ends[n]

Whole == CHOOSE n \in 0..Len(log) :
           EndOf(n) <= visible /\ (n = Len(log) \/ EndOf(n + 1) > visible)

(* The i-th line printed has the name of the property whose number is, in  *)
(* eight bits, that of the line: number 0 has none, but "-".               *)
Heading(k) == IF k = 0 THEN Dash ELSE props[k]

Headed(i) ==
  LET k == Given(log[i].id)
  IN  k <= Len(props) /\ shown[i].name = Heading(k)

(* Data has its own name as long as the number of the property fits into   *)
(* eight bits, and after that the name of one of the first properties.     *)
(* A configuration has the name of a property too, or none at all.         *)
NamedByNumber(i) ==
  /\ shown[i].what = PUSH_PROP =>
       Headed(i) /\ (log[i].id < IdSpan => shown[i].name = log[i].name)
  /\ shown[i].what = PUSH_CONF => Headed(i) \/ shown[i].name = None

(* While readDB runs it stands between two records, and what it printed    *)
(* are the records before, in order, none left out and none twice, each    *)
(* named by its number: under its own name only as NamedByNumber says.     *)
InOrder ==
  /\ TypeOK
  /\ rstate = "reading" =>
       /\ pos = EndOf(Len(shown))
       /\ Lines(shown) = SubSeq(Lines(log), 1, Len(shown))
  /\ \A i \in DOMAIN shown : NamedByNumber(i)

(* readDB stops only where no whole record is left to read, unless the     *)
(* next one belongs to a configuration whose number no property has.       *)
StopsAtEnd ==
  [][rstate = "reading" /\ rstate' # "reading" =>
       \/ Len(shown) = Whole
       \/ /\ rstate' = "aborted"
          /\ log[Len(shown) + 1].what = PUSH_CONF
          /\ Given(log[Len(shown) + 1].id) >= Len(prop2name)]_vars

(* A record that is cut off in its body is printed all the same, as what   *)
(* it is and with its full length: bytes that are missing read as zeros,   *)
(* and nothing tells them from zeros that were written.                    *)
TornPrinted ==
  [][rstate = "reading" /\ rstate' = "ended" /\ Len(Rest) >= 2 =>
       LET line == log[Len(shown) + 1]
       IN  /\ tail'.what = line.what /\ tail'.id = Given(line.id)
           /\ Len(tail'.data) = Len(line.data)
           /\ \A i \in DOMAIN line.data : tail'.data[i] \in {line.data[i], Zero}]_vars

(* The reader always comes to an end. *)
ReaderEnds == <>(rstate # "reading")

(* The file is a journal: the two halves together do what Journal says.    *)
J == INSTANCE Journal WITH log <- Lines(log), shown <- Lines(shown), over <- rstate # "reading"

Implements == J!Spec
============================================================================
