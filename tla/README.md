# Referee: a verification development

Referee compiles properties of recorded traces, written in the language REF, to
LLVM functions `bool f(frst, last, conf)`: `frst` and `last` point at two rows
that bracket the trace, and the function says whether the rows between them
satisfy the property. A property is a temporal formula over past and future,
with time bounds, or an English sentence naming a *property pattern* inside
*scopes*. A second program, `rdb`, prints the binary files in which data are recorded.

The program is sequential. What makes it hard is that the loops it runs are
never written down: they are emitted, block by block with hand-linked PHI nodes,
for arbitrary sub-formulas, windows, segments and nestings, and that a property
passes through several rewriters before. The tests evaluate some hundred formulas on one
trace whose rows are all one microsecond apart. This directory models the
emitted loops, the rewriters and the translation of the patterns as TLA+
modules, checks them with TLC on all small traces, and proves the central ones
for every trace with TLAPS. It also models the process around them, in which
sources share nodes and modules, and the encoding and the files of `rdb`.

## 1. Inventory

### Parts and how they interact

    REF text --ANTLR--> parse tree --Antlr2AST--> Expr / Spec --TypeCalc--> Module
    Module --Compile::make--> per formula: Rewrite (Canonic, Negated), TypeCalc, CompileExprImpl
                              per pattern: CompileExprImpl over the scopes,
                                           Rewrite at the innermost Spec
    CompileExprImpl --> LLVM IR --passes--> printed module

    values --DataWriter--> bytes --Writer--> file --readDB--> lines
    CSV text --readCsv--> DataWriter --bytes--> readData --> text

All calls are synchronous, in one thread. What is shared: the nodes (the factory
returns one object for equal arguments, and its position and its type are
written after it was shared), the modules, which live as long as the process,
and the stacks of `CompileExprImpl` that its visitors push and pop. The two
halves of `rdb` are two processes that share a file.

| Part | Source | State | Operations | Hard behaviour | Correct when |
|---|---|---|---|---|---|
| Temporal operators | `compile.cpp` `UR`, `ST` | PHI nodes `curr`, `next`/`prev`, result | one loop for Us Uw Rs Rw, one for Ss Sw Ts Tw | windows against row intervals, rows with one time stamp, empty segments, the end of the trace | the answer is the meaning of the formula; nothing outside the segment is read; it ends |
| Integral | `compile.cpp` `visit(ExprInt*)` | `curr`, `next`, total | one loop | partial rows, empty rows, overflow | the total is the integral over the window |
| Scopes | `compile.cpp` 1537-1907 | `curr`, `inside`, `innerFrst` | before, after, while, between, until | entering and leaving at one row, several segments, a segment left open | the body runs on exactly the segments of the scope |
| Emission | `compile.cpp` stacks `m_frst`, `m_last`, `m_curr` | three stacks | push and pop around conditions and bodies | nesting | every piece of code refers to its own segment; no stack runs empty |
| Rewriting | `rewrite.cpp`, `canonic.cpp`, `negated.cpp`, `builder.hpp` | none | rebuild, canonise, negate | they feed each other | meaning kept; result can be compiled; a second pass changes nothing |
| Patterns | `rewrite.cpp` 650-752, `syntax.hpp` | none | one formula per pattern | bounds, constraints, strong and weak, ends of traces | the formula says what the sentence says |
| Type calculation | `typecalc.cpp` | type cached in each node | one rule per node | cached types of shared nodes | what is accepted can be compiled |
| Front end | `antlr2ast.cpp`, `referee.g4` | module, contexts | one function per rule | optional parts, bounds with units | the tree is what was written |
| Node factory | `factory.hpp` | maps of nodes | create, set position | shared nodes | a node keeps its identity |
| Module | `module.cpp` | tables | add and look up | names declared twice, contexts | one meaning per name |
| String pool | `strings.cpp` | set of C strings | getString | equality by pointer | equal contents, one pointer |
| Data encoding | `rdb/database.cpp` typed writer and reader | stack of types, bytes | one call per value | nested records, sizes, errors half way | what is written is read |
| Database file | `rdb/database.cpp` `Writer`, `readDB` | declared names, file | declare, push, read | identifiers of eight bits, end of file | every record is attributed to its declaration |
| Printer, CSV headers, literals, driver | rest | none | formatting, conversions | - | - |

PROJECT.json lists for each part what is modelled, and under "hazards" every
place in the code where a mistake would be hard to find by a test, with the
properties that watch it or the reason why none does yet.

### Plan

Done: the loops (Trace, Answer, Until, Since, Scope, Integral), the formulas and
their rewriting (Formula, Rewrite, Statement), the patterns, the stacks of the
emission (Emission), the process that compiles sources (Types, Values, Language,
Session), the encoding of values (Codec, Csv) and the database file (Journal,
Database); and the proofs of section 4, about every module whose definitions the
prover can reach.

Next, in this order:

1. **Composition**: scopes within scopes as running code (Scope over Emission),
   and a temporal formula as the body, so that the promises of Answer compose.
2. **Numbers**: bounds and time stamps of machine width in the window; the
   values of arithmetic and of comparisons; distances of Xs, Xw, Ys, Yw.

## 2. The modules

`MC*.tla` define the values of the constants for TLC, `*Proofs.tla` hold the
theorems; those about Emission are in ScopeProofs, those about Formula, Rewrite
and Statement in StatementProofs. Within a module the order is: constants, state, actions, properties.
A module whose state is more than a stage has a type invariant `TypeOK`, the
first conjunct of one of its checked invariants (`InsideSegment`, `InScope`,
`OnePerStatement`, `RefusedOnlyWrong`, `InOrder`); that of Emission is `StacksOK`.
A definition whose comment calls it a *slip* is a wrong version of the
definition after it; a property is shown to notice it and it is used by nothing.

**Trace** is the segment and what formulas mean on it. Rows `0` and `N` are
`*frst` and `*last`; the values of a row hold until the time stamp of the next
one, so the bracketing rows carry time stamps but no values. A *call* is the
operator, its operands, its window and its start row. An operand is a function
from rows to Booleans: within a segment the value of a sub-formula depends on
the row only. A nested scope may give an operator an empty segment, so the
start row may be `N`. `Meaning` is written over *instants*: an instant belongs to a row and a
formula with a window speaks of the instants in the window, one without of the
rows. It mentions neither loop nor order of evaluation beyond "nearer".

**Answer** is the abstract specification of every loop: a call whose arguments
do not change and that answers once, with the meaning.

**Until** (`UR`, compile.cpp 1116-1307) and **Since** (`ST`, 1309-1502) have one
action per basic block and the PHI nodes of the loop head as variables; `pc` is
the block. The evaluation of an operand is one step. Since has one block more,
`emit`: with a bound of one end the code generator reads a variable that was
never assigned, and no loop comes out.

**Integral** (704-903) is the same for `I`. Integers run from `-Limit` to
`Limit - 1` and wrap; in the code `Limit` is 2^63.

**Scope** (1537-1907) is the loop of any of the five scopes, on the valuations of
its conditions. Its body is the set of segments on which the nested code
fails. `while` is between with `arg` and `!arg`, as `SpecWhile` is.

**Emission** is the code generator itself on a chain of scopes, down to the
pattern and back, with its three stacks; a value is named by the level that
pushed it. `pop_back` on an empty vector leads to the block `undefined`. Its
formulas are called `EmitInit`, `EmitNext`, `EmitSpec`, so that ScopeProofs can
extend it beside Scope; `rows` is `m_curr`.

**Formula** has the trees and `Sat`, the rows at which a tree holds; it rests on
Trace for the temporal operators: `Holds` is what one node makes of the values
of its operands, as one visitor of the code generator does. **Rewrite** has the
three rewriters as recursive functions on trees; their domain is the constant
`Trees`, all formulas there are, for which TLC is given `Any`. **Statement** follows a formula or a sentence through
`visitStatement` (tree and types) and `Compile::make` (rewriting, the search for
visitors).

**Types** is the type check (`typecalc.cpp`) over all of REF's types, with the
tables of a module and the look-up of names, members and indices
(`module.cpp`, `syntax.cpp`). A node that has a type is not visited again, as in
the code. **Values** is the code generator as far as types of LLVM go: what a
node becomes when its operands have become given values, where it throws, and
where it makes an instruction that is not defined for what it gets (`Malformed`;
the code ignores the verifier's result and prints it). **Language** is not the
code but the yardstick: the types an expression is meant to have, by signatures,
and the constructs on which the generator can be relied (`Supported`).
**Session** composes them: one process compiles a list of sources, each parsed
item by item, then emitted statement by statement, then printed or given up.
`types` and `where` are the fields of the shared nodes and survive from source
to source; `modules` is the factory of modules. Names are resolved as
`visitExprData` does, under the rows bound by `x@`.

**Codec** is the writer and the reader of encoded values (`rdb/database.cpp`
71-515) with their stacks of types, called in any order, rightly or wrongly, and
`readData`, which prints a value. What matters of the bytes is the kind of each
item and the sizes of arrays. A call that throws is an action of its own
(`RefuseWrite`, `RefuseSize`, `RefuseRead`) because it changes the stack and the
caller may go on. `Parts` are the types that can get onto a stack: the types of
the values, of their members and of their elements. `Due` is what a stack stands
for when all its records are opened; it is not in the code, which opens one
record at a time, and the properties are stated with it. `encodings` says without
a stack which items the values of a type may be written as. **Csv** adds
`readCsv`, which walks a row of a document with a stack of types and one of
column names and feeds an untyped writer, whose bytes go to `readData`. In this
version only a disabled part of `rdb/main.cpp` calls it. Its stack of types is
the `wstack` of Codec. `listing` is the order in which `nameHelper` names the
columns of a type; `Documents` are the sets of columns that the documents for a
type may have, a parameter, since a document need not come from a listing.

**Journal** is the abstract file: entries are appended at one end and shown in
order at the other, until the reader stops. **Database** is `Writer` and
`readDB` over a file of words: the buffered stream may be flushed anywhere, the
writer may crash between any two words, the reader may run at any time. It asks
for the end of the file before a record and never after, so what the last turn
prints is kept apart (`tail`) from what the turns before it printed (`shown`).
`log` and `ends`, the records that were meant and where each of them ends in the
file, are no state of the program: only the properties look at them, and the
bound `MaxRecords`.

## 3. What is checked

All runs are exhaustive. Deadlock is not checked in any, because every program
modelled here is a computation that ends.

| Run | Shows |
|---|---|
| until, since | `InsideSegment`: every row and time stamp read lies in the segment; `Correct`: at the end the result is the meaning; `Implements` Answer; `Terminates` |
| scope | `InsideSegment`: only rows of the segment are read, and the body gets no empty segment except in front of a first match; `WhileRuns`: the segments of while are the maximal runs of rows with `arg`; `Implements`: the answer, once, is whether the body holds on every segment of the scope, which are stated without a loop; `Terminates` |
| integral | `InsideSegment`; `SumOfPassed`: the sum of wrapped volumes is the sum over single instants, wrapped once, at every moment; `Implements`, `Terminates` |
| statements | `MeaningKept`: written and compiled formula hold at the same rows; `Compilable`: every operator of the result has a visitor, and the generator gives up only at a condition of a scope, which nobody rewrote; `Settled`: rewriting again changes nothing; `PatternMeaning`: the compiled formula holds of exactly the segments the sentence describes; `OnlyTemporalRejected`: a statement is rejected for an operator with a time bound as subject or condition, or for a time bound on the leg of a response chain from S to T, and for nothing else |
| session | `EmittedTyped`: a statement that is meant to be a truth value and uses what is supported becomes a function that returns one; `TypesDecide`: rejected for its types only if it has none, and a function that returns a truth value comes from a statement that is one; `ReadsOwn`: the column, configuration or member read is the one named; `NamedByText`: a function is named by a place of this source with a text of its meaning; `OnePerStatement`: one function for each statement, in order; if the module was used by an earlier source, behind the functions it had then |
| codec | `RefusedOnlyWrong`: a call that fits is refused in one known case only; `RefusalHarmless`: a refused call changes nothing for the calls that fit; `Conforms`: what a typed writer took is the beginning of an encoding of its type, and all of one exactly when its stack is empty; `Followed`: a reader that makes the writer's calls is accepted and left with the writer's stack; `DumpedWhole`, `DumpEnds`: readData finds every item, leaves none over, and ends; `RowInOrder`: the bytes of a CSV row are its cells in the order of the value |
| database | `InOrder`: what was printed are the records written, in order, none twice, each under the name of the property with its number in eight bits (a configuration too, or under none), which for data is its own name as long as the number fits; `StopsAtEnd`: the reader stops behind the last whole record, except at a configuration whose number no property has; `TornPrinted`: a record cut off in its body is printed at full length, with zeros; `Implements` Journal; `ReaderEnds` |
| emission | `InScope`: each condition and the pattern are emitted between the rows of the scopes around them; `Defined`: no pop from an empty stack |

The runs below end with a counterexample: the code does not do what its
grammar, comments or tests say (PROJECT.json, "findings").

| Run | Disagreement |
|---|---|
| since_one_sided | past operators with `[lo:]` or `[:hi]` pass a null value to LLVM |
| pattern_chains | precedence chains and steady state are compiled to true |
| emission_before | `before` inside `before` pops an empty stack |

Some sentences go wrong in ways of their own and are left out of
`MCStatements`; with one of the sets below in its place in `MCStatement.cfg`
TLC shows them. Two more are in the run, since the properties say what the code
does with them: a time bound on the leg from S to T of a response chain is
rejected as ill-typed, because the constraint field of that leg holds the bound
(`syntax.hpp` 668, 686), and the condition of a scope is compiled as it was
parsed, so that the generator gives up at `=>`, which has no visitor
(`compile.cpp` 1582).

| Statements <- | Violates | Why |
|---|---|---|
| MCConstrained | `PatternMeaning` | `without Z holding in between` on the leg from S to T is dropped (`syntax.hpp` 668, 686) |
| MCAnswered | `PatternMeaning` | in `if S followed by T, then in response P within n`, n also bounds the way from S to T (`rewrite.cpp` 728) |

The pseudocode over `UR` (`compile.cpp` 1176) skips rows of no duration, which
the emitted loop without a window does not, and so does the pseudocode over `ST`
(1360-1384); `Meaning` follows the emitted loops. `InsideSegment` of Since exempts
a call that starts at row N: there ST evaluates its operands at `*last`.

What `Supported` and the antecedents of the properties of Session leave out is
what the model shows to go wrong, with no line of the repository that says
otherwise: the load of a configuration of a primitive type goes through a member
that nothing assigned (`compile.cpp` 456); a choice between an integer and a
number converts both from an integer (389); an array without a size is a record
and indexed as an array (624); a member of a structure behind a repeated name is
read from its neighbour (`syntax.cpp` 130); a name that is a column and a
configuration; a computed bound of an integral has no type (`typecalc.cpp` 321).
`Agreed` exempts a formula from `EmittedTyped` and from the first half of
`TypesDecide` if one of its names has two types in the sources of the process,
because the types in shared nodes outlive a source; the command line program
compiles one file, only the tests compile two in one process. The second half of
`TypesDecide` has no such exception. A statement that is no truth value is
accepted and becomes a malformed function (`antlr2ast.cpp` 596); the properties
do not ask for more than that this function returns no truth value. A
node that only the rewriting made has no place, and its function is named 0:0.

### Bounds, and why they are enough

*Operators and integral*: three data rows (`N = 4`) with times in `0..2` for the
future operators, two (`N = 3`) with times in `0..3` for the past ones, three with
times in `0..3` for the integral; bounds in `0..2` or left
out, all start rows including the empty segment.
A loop's decision at a row depends on that row, its neighbour and the start row,
so two or three rows give a first, a last and in between an inner row; the
values of time and three of the bounds give windows that start before, at and inside a row, end
there, are empty, or hold several rows of one time stamp. The operands range over all valuations
of the data rows; the values of the bracketing rows are fixed to values that
would show if they were read. The theorems of section 4 lift these bounds.
*Integral*: integers of three bits (`Limit = 4`) and heights that overflow within a row, between
rows and back.

*Scope*: four data rows, all valuations of the conditions, bodies that fail on
any one or two segments; two segments next to each other or apart, and one left
open, fit in four rows.

*Statements, expressions*: operators two deep with negations above, between and
both, over two items: the rewriters look at a node and its children only, and
every pair of operators in either position occurs. The window of a bound is
carried along unread. The segment has two rows of one time stamp and a gap.

*Statements, patterns*: every alternative of `timeBound` with two values,
constraints absent and present, on three rows with equal and distinct time
stamps, all valuations of three items. Three rows hold the longest chain, S, T,
P. Scopes come with an item, its negation, an implication and a past operator
as conditions, none to two around a pattern: each condition is looked at by itself,
and the second shows that a later one is looked at too.

*Session*: one source that declares a name of every type and has one statement:
every operator over names of every type, and those whose type depends on their
operands under every operator; and every pair out of some fifty small sources
that declare one name, alike or not, under one module name or two, with
statements that share nodes. A rule of the type check sees the types of the
operands only, and the state that survives a source is per node and per module,
so two sources are enough to meet what the first left behind.

*Codec*: ten types with records and arrays in front of, behind and inside each
other, three deep (`Depth`), arrays of up to `MaxSize` = 2 elements, `MaxCalls` =
6 calls that are accepted and any number that are refused; a CSV document has
all its columns, or all but one. The stacks change by their front only; the
types have every kind of front, and every kind of neighbour behind it.

*Database*: numbers are taken modulo `IdSpan` = 2 instead of 256, so that the
second property or type already wraps; `MaxRecords` = 4 records after the two of
the writer are enough for a declaration of a type, two properties and a
datum, or a property, a configuration and data of both. Names and data have no,
one or two bytes, so a record can be cut in front of, inside and behind them.

*Emission*: all nestings of up to four scopes, one `before` at most.

### Fairness

Weak fairness of the whole next-state relation, in the four runs of the loops. The
program is one thread, and an emitted loop has no operation that waits: its next block
is always executed. Operands and bodies are themselves loops of these kinds, so
a step that evaluates one ends.

Codec has weak fairness of `readData` and Database of `readDB`, and of nothing
else: each is a loop of its own thread or process that waits for nobody, while
nobody has to go on calling a writer or a reader. The writer of Database may
stop, crash or write on for ever without the reader depending on it; that its
records are bounded by `MaxRecords` matters for `ReaderEnds`: against a writer
that never pauses the reader has no reason to end.

## 4. What is proved

TLAPS checks these for every value of the constants that satisfies the
assumptions of the module; TLC evaluates the assumptions on the values of each
run. Every safety property of the runs of the loops, of the emission, of the
statements and patterns, of the database, of the codec and of the rows of a
document is proved. Liveness (`Terminates`, `DumpEnds`, `ReaderEnds`) and the
process of Session are checked only.

| Theorem | Property of a run | Beyond the run |
|---|---|---|
| UntilProofs `StaysInside`, `Correctness`, `Refinement` | `InsideSegment`, `Correct`, `Implements` | any trace, window, operands |
| SinceProofs, the same three | the same | any trace, window, operands |
| ScopeProofs `StaysInside`, `MaximalRuns`, `Refinement` | `InsideSegment`, `WhileRuns`, `Implements` | any trace, conditions, body |
| IntegralProofs `StaysInside`, `SumIsOfPassed`, `Refinement` | `InsideSegment`, `SumOfPassed`, `Implements` | any trace, heights, width of integers |
| ScopeProofs `RightRows`, `NeverUndefined` | `InScope`, `Defined` | chains of any length |
| StatementProofs `MeaningIsKept`, `CodeIsSettled`, `CodeIsCompilable`, `OnlyTemporalIsRejected` | `MeaningKept`, `Settled`, `Compilable`, `OnlyTemporalRejected` | formulas of any size, segments of any length |
| StatementProofs `PatternIsMeant` | `PatternMeaning` | any time stamps, windows, valuations; subjects and constraints of any size |
| DatabaseProofs `ReadsInOrder`, `NothingLeft`, `TornRecord`, `Refinement` | `InOrder`, `StopsAtEnd`, `TornPrinted`, `Implements` | files of any length, any names, data and width of numbers, cut off anywhere |
| CodecProofs `RefusalsDeserved`, `RefusalsHarmless`, `ReaderFollows`, `DumpsWhole` | `RefusedOnlyWrong`, `RefusalHarmless`, `Followed`, `DumpedWhole` | types of any shape, arrays of any size, any number of calls |
| CodecProofs `WriterConforms`, `RowsInOrder` | `Conforms`, `RowInOrder` | types of any shape, rows of any length, documents with any columns |

The three theorems about the rewriters that `MeaningIsKept` rests on are of
interest by themselves: `NegatedIsNot`, `CanonicKeepsMeaning` and
`RewrittenKeepsMeaning` hold of every formula at every row, also for the row that
an enclosing `x@` has bound.

Further theorems, which no run checks, say what remains of the liveness
properties when fairness is left out, and what follows from the invariants
besides: `EndsSoon` (UntilProofs, SinceProofs, ScopeProofs, IntegralProofs): every
block of a loop decreases a natural number, `StepsLeft`, that starts at no more
than a small multiple of the number of rows, so no loop runs for ever;
`EveryTurnReads` (DatabaseProofs): a turn of `readDB` that is not its last reads
two words at least; `NeverMisread` (CodecProofs): a typed reader that may make any
calls, also such as the writer did not make, is refused rather than given an
item as what it is not, as long as there is one.

The type invariants are conjuncts of the properties above (`InsideSegment`,
`InScope`, `InOrder`, `RefusedOnlyWrong`), so type correctness is proved with
them; `TypeCorrect` (UntilProofs) states it alone.

The refinements map every step of a loop to the one answer, or to no change, and
every step of the database to a step of Journal, or to no change; they are about
the specifications without fairness.

### Assumptions

* `TraceAssumption` (Until, Since, Integral): `N` positive, time stamps and bounds integers,
  operands functions from rows to Booleans, `None` no integer and no Boolean.
  Times need not be finite, and a window may be empty or negative.
* `ScopeAssumption`: the same of `N` and the conditions; a body is any set of
  segments. `IntegralAssumption`: heights are integers, `Limit` is positive.
* `EmissionAssumption`: a chain is a sequence of
  scopes. `NeverUndefined` has the hypothesis that no chain has two `before`; the run has it too, by its choice
  of chains. `TwoAreTooMany` shows that this is what the code needs: if every
  chain has two or more, the emission never gets back to the outermost scope,
  which is the general form of what the run `emission_before` finds.
* `AllTrees` (StatementProofs): `Trees` are all the formulas and only those, that is, a node of
  an operator with operands in `Trees` is in it, nothing else is, and every node
  is higher than its operands; and no data item is called like an operator. `TreesExist`
  says that there is such a set whatever the data items. `AllWritten`: a
  statement has the parts its grammar rule gives it, each a formula, and is
  judged on segments whose data are true at data rows. `PatternIsMeant` needs besides that a segment has a data row,
  since a pattern speaks of the first one, and that `Operands` are all functions
  from rows to Booleans.
  `CodeIsCompilable` and `OnlyTemporalIsRejected` assume nothing more. What
  `PatternIsMeant` excludes besides is what section 3 shows to go wrong: it is
  about the sentences with `Translated`: transient and
  steady state and the precedence chains have no translation, the response
  chains have nothing on the legs that are mixed up, and the bound of a
  minimum duration is the upper one that its grammar rule has.
* `DatabaseAssumption`: names and data are sequences of words, times words,
  `IdSpan` positive (256 in the code).
* `CodecAssumption`: `Parts` contains the types and is closed under members and
  elements; scalars, records and arrays are told apart; and `Depth` is enough,
  that is, every part is reached from the scalars by building records and arrays
  `Depth` times (`shallow`), and when the records of one part are opened `Depth`
  times no record is left. Every finite type has such a depth; the types may be
  infinitely many. Nothing is assumed of `Documents`.

### Arguments

An invariant checked by TLC is seldom preserved by every step on its own. Each
proof module defines the `IInv` that is, proves it of the initial states
(`InitIInv`, `Initially`) and of every action, and derives the theorems from it.

**TraceProofs** is about the meaning, without a loop. `TimedIsRows`: of the rows
whose interval meets the window, the formula over instants asks no more than one
instant each, because the instants of an earlier row come before those of a
later one (`InstantsOrdered`) and a row that has instants in the window has a
first one (`FirstInstant`). `MeaningIsRows` joins the case without a window.

**UntilProofs** and **SinceProofs**: `Correct` says nothing in mid-loop, where
there is no result. `IInv` adds to the types what each block knows:
that every row the loop has passed is outside the window or undecided, that at
`rhs` and `lhs` the current row is visible, and at `lhs` that the right operand
did not decide. `InnerVisible`: the select and compare of the code are true
exactly for a visible row; `BeyondWindow`: leaving at the end of the window
misses nothing; `Exhausted` and `Decided`: what the end value and a deciding row
mean, by `MeaningIsRows`.

**ScopeProofs**: the meaning of a scope is a set of segments, each given by a row
that opens it and the first that closes it; the loop has one flag and one row.
`IInv` says what these know: while a segment is open, that it was opened by a
row that opens one and that no row since closes it; while none is, that every
row that could have opened one has been closed (`Following`); and of the
segments closed so far, that the body held on each (`Held`). For `before` and
`after`, that no row passed matches (`Searching`). `OpeningRow` and `ClosesOne`
relate the first row of a run, which the meaning names, to the row at which the
flag was set, which the code has; `SearchMeaning`, `FollowMeaning` and
`Exhausted` turn the invariant into the meaning when a loop ends.

**IntegralProofs**: `IInv` is the types, what each block knows of the row at hand,
`SumOfPassed`, and at the end that the sum is the whole. `ShareOfRow` is the step
from code to meaning: the rectangle that the code multiplies out is the number
of single instants of the row in the window (`Counted`) times the height.
`WrapSum`: wrapping at every addition and once at the end give the same.
`BeforeStart`, `BehindWindow` and `Remainder`: rows that were not visited have no
share.

The proofs about Emission are in the same module: the tops of the stacks are those of the innermost scopes on the
way down only (`TopsDown`); on the way up every `before` takes one row too many
from the stack of last rows, so the invariant `Emitting` gives that stack's height, on the way up
as the height on the way down less the number of `before` that were left
(`Heights`). `NeverUndefined` and `TwoAreTooMany` are both read off it.

**DatabaseProofs**: `InOrder` compares what was printed with the records meant; to
see that the next record is read as it was written one must know where the
reader is. `IInv` says that the file is the records of the log end to end, each
laid out as `RecordAt` says (`Logged`); that numbers were given in the order of
the declarations (`Declared`); that the reader is at the end of the record it
printed last, and its table of names is that of the declarations up to there
(`Followed`), and that the lines printed have the names of their numbers
(`Named`), which later declarations do not change. A writer's step appends one record (`Appended`); a turn of
the reader in front of a whole record reads exactly it (`NextRecord`, `Turn`);
in front of less it is the last turn, and `RestWords` and `BodyWords` say what
it sees.

**CodecProofs**: the two stacks are hardly ever equal, for each side opens records
when it is called, and the reader is behind. What is equal is what they stand
for: `IInv` says that there is a sequence of lists of due types that starts with
what is due to the reader, ends with what is due to the writer, and between two
of which stands one unread item that takes the first to the second (`Matches`).
The writer appends to this sequence (`WrittenKeeps`), the reader takes from its
front (`TakenKeeps`), and a refusal changes neither end (`RefusalKeeps`), since
opening a record changes nothing in what is due (`DueOpened`). That needs the
algebra of `Due`: it distributes over concatenation (`DueConcat`), a record
stands for its members (`DueOne`), which is where `Depth` has to be enough, and
if the front of a stack is no record it is the front of what is due
(`DueFront`). The theorems are about `CsvSpec`, that is, the writer with its
readers and `readCsv` in front of `readData`.

`RowInOrder` says nothing of the names still to come, so it is not inductive.
`Row` adds, for a row on its way, that the names lead to the types that are due
(`Placed`), that each comes before the next and behind the last column that was
read (`Ordered`), and that, as long as the sizes are the listed ones, the columns
read and those that `Covers` the two stacks are together the listing
(`Complete`). A turn of the loop puts some children of the name in front in its
place (`Spliced`), which keeps the order because they differ behind it only
(`SplicedApart`), and what the stacks cover because a listing is put together
from those of its parts (`CoversFront`).

`Conforms` speaks of what was written and of an empty stack, and needs to know
what a stack that is not empty still allows: `Spelt` are the texts that consist
of one encoding for each of its types, and `Conforming` says that these are
exactly what goes on after `out` to an encoding of `type`. Opening records does
not change them (`SpeltDue`); an item that takes what is due to what is due next
is the first of the texts that go on (`SpeltTaken`); every stack has one
(`SpeltSome`), and only one of which nothing is due has the empty one
(`SpeltSilent`). The latter three are inductions over types, by the layers of
`shallow` (`OnParts`), and inside over stacks (`OnStacks`).

**StatementProofs** has no induction theorem to rest on, since those take an
operator as a parameter: `Upwards` is induction along the height of a tree, for a
set, and `Recursion` says that a function defined by its values at lower
elements satisfies its equation. From it come the equations of `Operators`, of
`Sat` (`SatIs`) and of the rewriters (`NegatedIs`, `CanonicIs`,
`RewrittenIs`). The latter two recurse below the result of another rewriter, which is a
tree of other height; they go along a weight that a negation does not change.
Meaning is kept node by node: `Holds` looks at the rows of the operands only, and an
operator and its dual, or a quantifier and the `Us`, `Rw`, `Ss` or `Tw` that takes its
place, say the same or the opposite of the same rows. `CodeIsSettled` and
`CodeIsCompilable` need to know what a result looks like: `Normal` are the trees
without an operator that CanonicImpl replaces, and rewriting leaves each as it
is. That a negation of a result still has a canonical form in `Normal`, which the next
step may need, is the class `Ready`. `Progress` ties these facts to the state.
For the patterns there is one lemma per operator of `builder.hpp` that says at which
rows it holds (`SatBuilt`, `SatUntil`, `SatWeak`), by `MeaningIsRows`; durations
need that what holds up to a row and then fails has a row where it fails first
(`UntilRise`). `BodyMeaning` puts them together for the patterns of one leg,
`ChainMeaning` for the response chains.

Where a proof needs induction (sums over rows, opening records again and again,
the first row that closes a segment) it is by a least counterexample: the naturals are well founded, so a non-empty set of
numbers at which a statement fails has a least member (`LeastElement`, or
`Stepwise`: what holds of 0 and passes from each number to the next holds up to
n). A recursive function is handled through its equations: `Gathers` and
`Opens` in CodecProofs are the equations of `FlattenSeq` and of `Due`, lemmas
(`GathersExists`, `OpensExists`) show that a function satisfies them and others
(`GathersIs`, `OpensIs`) that the definition is that function; `ListingIs` and
`EncodingsAre` do the same for functions of types, and `RunningTotal` for the
sum in IntegralProofs.

### Model-checked only

* `Terminates`, `DumpEnds`, `ReaderEnds`: liveness under fairness is outside the
  prover. With `EndsSoon` what is left to TLC of `Terminates` is that every block
  but the last has a successor, which is a statement about ENABLED.
* Types, Values, Language and Session recurse over trees of any shape with
  RECURSIVE operators, which the prover cannot reason about; so `EmittedTyped`,
  `TypesDecide`, `ReadsOwn`, `NamedByText` and `OnePerStatement` hold of the
  instances of section 3.

## 5. What is not modelled, and why

* LLVM: the passes and the execution of the emitted code. A block is executed as
  LLVM's language reference says.
* The ANTLR parser, which is generated; the models start from what the grammar
  accepts.
* What arithmetic and comparisons of integers and numbers compute. They are
  rebuilt by the rewriters unchanged and lead to one instruction each, whose
  types are modelled in Values; only the heights of the integral have values.
* Overflow of `now + lo` and of `n * unit`, and address arithmetic of Xs, Xw, Ys,
  Yw with distances beyond the trace (2 of the plan).
* Transient state: compiled to true like steady state; what its sentence demands
  at the instant named is not settled by the source.
* The units of time bounds, the conversion of literals and syntax errors; and
  the list of patterns of a module, which is kept as the list of statements is.
* The values in encoded data other than sizes, and the text of a type in the
  file. The suffix by which `names` tells the kind of a column, and which
  `readCsv` does not expect. The class `Database`, which is disabled code.
* The string pool: two operations on one set.
* Printing, CSV headers (`csvHeaders.cpp`), colours, command lines: formatting
  without state.
