# A verification of gosql

gosql is a small SQL database in Go: a lexer and a parser, an in-memory backend
with indexes, an interactive loop and a `database/sql` driver. This directory
holds TLA+ modules that model it, TLC configurations that check them on small
instances, and theorems with proofs that TLAPS checks. Line numbers below are
those of the repository's sources.

## The system

| Part | Source | State | Operations |
|---|---|---|---|
| lexer | `lexer.go` | none | `lex` and the six `lexX` functions it tries in turn |
| parser | `parser.go` | none | `Parse`, one function per statement, `parseExpression` |
| syntax tree | `ast.go` | none | the statements; `GenerateCode` of each |
| backend interface | `backend.go`, `error.go` | none | `CreateTable`, `DropTable`, `CreateIndex`, `Insert`, `Select`, `GetTables`; `EmptyBackend` |
| in-memory backend | `memory.go` | `tables`: columns, rows of cells, indexes with their trees | the six of the interface |
| interactive loop | `repl.go` | the line being run | reading a line, dispatch, `\d`, `\dt`, `\p` |
| driver | `driver.go` | the one backend all connections share; a cursor per result | `Open`, `Query`, `Rows.Next`, `Rows.Close` |
| commands | `cmd/` | none of their own | clients of the above |

Text goes through the lexer and the parser to a list of statements. The loop
runs all of them, the driver the first. Both call the backend directly: there
are no messages, no threads of the program's own and nothing on disk. A
run-time panic ends the process and with it every table.

What is hard in it:

* **Steps that fail halfway.** `Insert` appends its row, then offers it to one
  index after the other; `CreateIndex` joins the table, then is filled row by
  row; `CreateTable` enters the catalogue, then looks at its columns. Each has
  to undo what it did, and the first two do so only in part.
* **Positions.** A tree item names its row by position, and is used after the
  row is gone or after the rows have been narrowed by another index.
* **Two ways to the same answer.** The evaluation of a WHERE clause and the
  index lookup decide the same comparison with different code.
* **Values without types.** A cell is bytes; nil, the empty array, a text in an
  integer column and an integer that wraps all reach the same functions.
* **Sharing.** The connections of the driver's pool use one backend, unlocked:
  between any two accesses of a method another goroutine's steps may come.
* **Ends.** The loops of lexer and parser move a cursor by hand; the end of the
  text is a case of its own in every one of them.

Correct, per part: for cells and evaluation, that comparisons agree with each
other; for the backend, that constraints once granted are kept, that rows are
neither lost nor invented, that a failure keeps the data, that an index changes
no answer; for the loop, that a line is carried out in order and comes to an
end, and that `\d` describes the table named; for the driver, that concurrent
callers see the same and a cursor reads one answer whole; for lexer and parser,
that nothing of the text is lost, and that text generated from a tree parses
back to it.

## The modules

| Module | Models | Depends on |
|---|---|---|
| `Cells` | `memoryCell`: conversions, the two equalities, the order of bytes | |
| `Expressions` | `evaluateCell` and its functions, `linearizeExpressions`, `applicableValue` | `Cells` |
| `MemoryBackend` | the backend of `memory.go`, one caller at a time; its properties | `Expressions` |
| `Iteration` | lemmas about loops: the least number with a property, sets closed under a step, recursive functions on `0 .. n` | |
| `MemoryBackend_proofs` | theorems about `MemoryBackend`: indexes and constraints | `MemoryBackend`, `Iteration` |
| `Rows_proofs` | theorems about `MemoryBackend`: rows, and what a SELECT answers | `MemoryBackend_proofs` |
| `RelationalStore` | what the interface of `backend.go` promises, without indexes | |
| `BackendRefinement` | the mapping from the backend's state to the store's | `MemoryBackend`, `RelationalStore` |
| `BackendRefinement_proofs` | the theorem that the mapping is a refinement | `BackendRefinement`, `MemoryBackend_proofs` |
| `Repl` | `repl.go` over that backend | `MemoryBackend` |
| `Repl_proofs` | theorems about `Repl` | `Repl`, `MemoryBackend_proofs` |
| `Driver` | `driver.go` over the steps of `memory.go`, for several goroutines | `MemoryBackend` |
| `Driver_proofs` | theorems about `Driver`: one connection at a time, it behaves as `MemoryBackend` | `Driver`, `Rows_proofs` |
| `Lexer` | `lexer.go`, character by character | |
| `Lexer_proofs` | theorems about `Lexer` | `Lexer`, `Iteration` |
| `Parser` | `parser.go`, token by token | |
| `Parser_proofs` | theorems about `Parser` | `Parser`, `Iteration` |
| `CodeGeneration` | the code generation of `ast.go`, as the tokens of the text it prints; the properties of the round trip | `Parser` |
| `MCBackend`, `MCRepl`, `MCDriver`, `MCLexer`, `MCParser` | the statements, lines, queries and texts of the runs | |

### Cells and expressions

A cell is a sequence of bytes, or `nil`. An integer is written big-endian in
two's complement with `IntBytes` digits of base `Base`, and wraps; the code has
4 and 256, TLC uses 2 and 4, so that 15 is written as -1. `Equals` (nil differs
from the empty array) and `SameKey` (it does not) are kept apart, as in the code.
An expression is a record tagged by kind; evaluation is a recursive function on
the expressions of the instance, and gives a value and its type, or an error.
Following a nil pointer and reading beyond the end of a slice give the error
`panic`.

### The backend

| Variable | Code |
|---|---|
| `tables` | `mb.tables`: for each name a table, or `none` |
| `trees` | the trees of the indexes, which the code reaches by a pointer in the index |
| `granted` | history: the indexes whose creation returned no error |
| `reply` | the last statement and what its method returned |

Each method is one action that takes a statement: `CreateTable`, `DropTable`,
`CreateIndex`, `Insert`, `Select`. Its disjuncts are the returns of the method,
in the order of its checks; a partial failure leaves in `tables` and `trees`
exactly what the method leaves there. The loops over rows and indexes are
expressed by the first element that fails (`Min(BadRows(t, s))`,
`Min(Refusals(n, row))`). After a panic no statement is accepted. A tree is a
set of items; an item carries the number of items inserted before it, because
the tree keeps equal keys in the order they came, and `Select` returns rows in
the order of the walk. `Select` is a function of the table, its trees and the
statement: narrowing by each applicable index (`Narrowed`), LIMIT and OFFSET
against the first row left (`Window`), then the loop (`ScanRows`).

`GoLLRB` is not part of the repository. It is modelled by what `memory.go` uses
of it: an ordered multiset with ascending and descending walks. Whether its walk
from `Inf(-1)` calls `treeItem.Less` on that sentinel, which panics, is the
constant `InfComparable`; the library compares the item with it, so the runs
take FALSE.

### The interactive loop

`Repl` adds the line being run, the position in it, what has been printed and,
as history, what the line has carried out. Reading a line is an action per kind
of line; `ExecuteStatement` calls an action of `MemoryBackend` and then does
what the loop does with its error. Which statement is passed on is `Passed`:
for CREATE and DROP it is the line's first, `ast.Statements[0]`. `Describe`
picks any table as the one listed last, for the map's order is arbitrary.

### The store the backend implements

`RelationalStore` is the backend without indexes: a catalogue of tables, each
with its rows and a set of keys. A change is made if afterwards every row
conforms to every key (no null in it, and no two alike if it is unique), looked
at row by row; or the statement is refused and nothing changes. Refusing is
always allowed, since the backend also refuses what it need not (see
`stale_entry`). `BackendRefinement` maps a table of `MemoryBackend` to its
columns, its rows and the keys whose creation was acknowledged (`granted`);
trees, stale entries and half-filled indexes have no counterpart.

The store does not say what a SELECT answers. That is what `SelectSound`,
`IndexTransparent` and `WindowExact` are about, and only the first of them holds
without restriction; it is proved.

### The driver

`Driver` is `memory.go` once more, now with other goroutines' steps between its
own. Each goroutine has a connection; a `Conn` has no state but the backend
that `init` registers for all, so which one a goroutine is given does not
matter.

| Variable | Code |
|---|---|
| `catalogue` | `mb.tables`: a pointer to each name's table, or `none` |
| `heap`, `forest` | the tables and the trees pointed to; a dropped table stays for those who still hold its pointer |
| `conns` | per goroutine where it is (`pc`) and its local variables, then the `Rows` it reads |
| `process` | running, or panicked |
| `asked` | the queries so far, for the bound |
| `accepted` | history: per table, the rows whose INSERT returned no error |
| `settled` | history, the variables of `MemoryBackend`: the backend as the last statement to end left it, and what its method returned |

A step reads the catalogue, a slice of a table or a tree into local variables, or
stores one of them. A check and what is done on it are two steps, and so are the
reading and the storing of `append(t.rows, row)`, of `append(table.indexes,
index)` and of `t.rows[:len(t.rows)-1]`:

* `CheckName`, `EnterTable`, then `AddColumn` and `AddType` per column, and
  `EndColumns`, which calls `CreateIndex` for a primary key (`UndoTable` if that
  fails).
* `LookUpDrop`, `RemoveTable`.
* `LookUpIndex`, `CheckIndexName`, `ReadIndexes`, `InstallIndex`, `RangeOverRows`.
* `LookUpInsert`, `CheckValues`, `ReadRows`, `StoreRows`, `RangeOverIndexes`, and on
  failure `TakeBack`, `StoreShorter`.
* per row or index, `addRow`: `PassRow` (the position), `EvaluateKey`, `LookUpKey`,
  `InsertEntry`; `EndAdd` at the end.
* `LookUpSelect`, `Narrow`, `VisitRow` per row, `EndScan`.

Some steps read more than once, and what another goroutine could do within them
is not in the model: the evaluation of an expression on a row (`EvaluateKey`,
`VisitRow`), the loop over index names (`CheckIndexName`), the narrowing of a table
by its indexes together with the window (`Narrow`), and the rows with their length
in `t.rows[:len(t.rows)-1]` (`TakeBack`). The append to a table's columns, and the
one to their types, are one step each, as only the goroutine that makes the table
stores them. A table that no index has narrowed is read where the others write
it, with the number of rows the loop began with.

`HasKey`, `RowsLeft` and `NextRow` are named apart because what goes wrong there is
what the properties are to notice; what both models compute in the same way
(`DropRow`, `AddRowError`, `Narrowed`, `ScanRow`) is `MemoryBackend`'s. `RowsNext`, `EOF` and
`Close` are the cursor, `DriverValue` what `Rows.Next` makes of a cell: a number, a
text or a pointer, which is nil for a cell without a value of the type, the empty
text among them (`AsText`).

With one goroutine inside at a time the steps of a method come to exactly one
action of `MemoryBackend`: `CallsBackend` says that what `settled` goes through
is a behaviour of that module, its `Spec`. This is what ties the two models of
`memory.go` to each other, in both results and partial failures.

Of what a Go program may do with a data race, the model has the interleavings
only. `append` is taken to make a new array, so that two slices never share one;
a slice header torn in two, an element stored after the length, and the run
time's own detection of a map written twice at once are left out. What the runs
with two goroutines find goes wrong before any of that.

### The lexer

A source is a sequence of characters, `cur` the cursor with pointer, line and
column. A `Step` is one turn of the loop of `lex`: the lexers are tried in the
order of the code and the first that accepts wins; `Fail` and `Finish` are the
two returns. The loops over characters inside the lexers are recursive (`Scan`), over
a function of one turn (`NumericStep`, `DelimitedStep`, `Narrow`). `spans` is
history: where in the source each token was read.

### The parser and the code generation

A token is a kind and a value. A parsing function takes what the function
before it returned and gives success, a node, a cursor and the cursors of the
help messages printed on the way; a failed one passes through, as the chains of
early returns do, and a caller that tries something else starts again from the
cursor it had. The function of a statement is the sequence of its parts
(`SelectStatement` and so on), with what is printed when one is missed;
`ParseStatement` tries one after the other (`Forms`). `Parse` is one turn of the loop over
statements: parse one, then pass its semicolons. The nodes are records like those
`MemoryBackend` takes.

`parseExpression` calls itself. `ParseCall` is its body, which is given what the
nested calls return; `Returns` applies it as often as there are tokens, since
each call nested in another begins at a later token. A loop is a recursive
function of its turns, `MaxTurns` of them; once it has ended a turn leaves its
result as it is. Neither number stops anything the code would do: the theorems
`RecursionUnbounded` and `LoopsEnd` say so.

In `CodeGeneration`, `GenerateCode` gives the tokens of the text printed; `Lexer`'s `Relexes` says
that the text of each token lexes to that token, so that the two modules meet
at tokens.

## Runs

Deadlock is not checked: a backend that has panicked, or reached the bounds, a
loop that has quit, a text that has been read, and goroutines that have used up
their queries, stop.

| Run | Checks | Shows |
|---|---|---|
| `backend` | `TypeOK`, `UniqueEnforced`, `IndexCoversRows`, `IndexInv`, `SelectSound`, `RowsAppendOnly`, `ErrorsKeepData`, `ImplementsStore` | with every statement and every way to fail, constraints that were granted hold, rows are kept and never made up, errors keep the data, and the backend does what the store does |
| `pk_table` | `IndexTransparent`, `WindowExact`, `NotNullReportTrue`, `DuplicateIsStored` | a table with only a primary key, filled with literals and read by one comparison of the key with a literal on its right, answers as it should |
| `repl` | `LineCarriedOut`, `LinesEnd` | a line carries out its own beginning, in order, and comes to an end |
| `lexer` | `NothingLost`, `Relexes`, `LongestMatchRight`, `LocationExact`, `LexEnds` | every short text is split without loss, or refused; what is printed of a token lexes to it |
| `parser` | `StatementsSeparate`, `TextKept`, `CodeParses`, `TreeRight`, `HelpInRange` | sentences, all that is one edit away from them, and short expressions get the right trees, which survive printing; no message is printed beyond the tokens |
| `driver` | `RowsAccounted`, `KeysDistinct`, `CallsBackend` | one query at a time, the steps of the methods come to the actions of `MemoryBackend`; what two at a time break (`shared_keys`, `shared_rows`) holds |
| `cursors` | `AnswerWhole`, `MethodsAdvance`, `QueriesEnd` | two goroutines at once: an answer is read whole whatever is written meanwhile, no loop of a method is kept going by the other, and every query ends |

The following runs each end in a violation, found by TLC and listed under
"findings" in `PROJECT.json`:

| Run | Violates | Why |
|---|---|---|
| `stale_entry` | `DuplicateIsStored` | a refused INSERT stays in the indexes before the one that refused it |
| `two_conjuncts` | `IndexTransparent` | positions in the table are used on the rows narrowed before (memory.go:261) |
| `describe` | `DescribesNamed` | the address of a loop variable is kept |
| `shared_keys` | `KeysDistinct` | of two INSERTs at once, both look their key up before either enters it |
| `shared_rows` | `DropsOwnRow` | the row a refused INSERT drops is the last one, which may be another's by then |

The properties of `pk_table` hold on its instance and not in general.
`stale_entry` and `two_conjuncts` have two of the cases it leaves out. For the
others `MCBackend` has the statements, and put into `TwoConjuncts.cfg` they
violate `IndexTransparent`:

* `1 < x`, which is looked up in the index as `x < 1` (memory.go:151):
  `Selects <- FlippedSelects`.
* `<>`, whose walk starts at a sentinel it cannot compare (memory.go:207):
  `Selects <- NeqSelects`.
* an index that a refused CREATE INDEX leaves half filled (memory.go:794):
  `CreateIndexes <- UniqueY`, `Inserts <- TwoIndexInserts`, `Selects <- YSelects`.

Columns of one name, which nothing tells apart (memory.go:834), violate
`NotNullReportTrue` in `PkTable.cfg` with `CreateTables <- TwinCreateTables` and
`Inserts <- TwinInserts`. Also left out are keys that wrap to a negative number,
which an index, an order of bytes, has last and evaluation first (memory.go:216):
the source says of literals of that size that they are yet to be handled
(memory.go:69).

That every row has a cell for every column is no property here. `Insert` counts
the values before it skips those that are not literals, with a message
(memory.go:674, 681), so that it is false, and nothing but the name of
`ErrMissingValues` says it should hold. The model stores such rows, and `backend`
has INSERTs that make them.

`LocationExact` ends with the first number or quoted line break (`DriftsAfter`):
the column is counted for a character that is not the number's (lexer.go:307),
and a line break in quotes does not count (lexer.go:394), so that what follows,
on later lines too, is elsewhere than its location says. The text of an OFFSET is
made from the LIMIT, and `TextKept` and `CodeParses` leave those statements out
(`Printable`).

Three results deserve a word.

* `LineCarriedOut`: the loop passes on the wrong statement for a second CREATE
  or DROP, but never carries out anything that is not the line's own next
  statement, because the backend refuses to create or drop the same thing
  twice, and a first statement of another kind is a nil pointer. What the user
  sees is an error or a crash, never a wrong "ok".
* `CodeParses`: a parenthesis does not reset the binding power inside it
  (parser.go:100), so that `1 = (a and b)` is refused although it is an
  expression. What is accepted nevertheless survives being printed with all its
  parentheses and parsed again, because no tree that was read has a weaker
  operator to the right of a stronger one.
* `AnswerWhole`: a cursor keeps the rows `Select` made for it, which nobody
  else writes; what remains to be seen is that it stops where it should and that
  each cell comes to the value it stands for. Text is handed over as it is, but for the
  empty text, which is given as a nil pointer like a null.

### Bounds

* `MaxRows` and `MaxEntries` limit the rows of a table and the entries of a
  tree, and stand in the guard of `Insert`. `backend` has 2 and 3: the two rows
  a uniqueness violation takes, and an entry more than there are rows, for the
  stale ones. `pk_table` has 3 rows: one before, one at and one after the value
  compared with. `stale_entry` has 3 and 4. `Repl` and `Driver` have 9, which
  their other bounds keep out of reach.
* One table name suffices for the backend, as no method touches two tables;
  dropping and creating it anew is included, and so is an index on a column that
  does not exist. `repl` has two tables.
* Values are 0 to 3 and, for one limit and one offset, 15, which wraps.
  Indexes are on a column and on a sum, unique and not.
* `MaxLines` is 4: a line to create, one to fill, one that fails and one after.
* `AtOnce` is how many goroutines may be inside a query or its answer: 1 in
  `driver`, where the methods are compared with those of `MemoryBackend`, and 2
  in the others, where one disturbs another. `MaxQueries` is 5 in `driver`
  (create, insert, index or insert again, fail, read), 4 in `cursors` and
  `shared_rows` (create, insert, and two that meet), and 3 in `shared_keys`
  (create, and two that meet).
* `lexer` has all texts up to length 3, 4 or 5 over six alphabets of two to six
  characters, chosen so that keywords begin with keywords, symbols with symbols,
  and numbers and quotes end in every way; case folding has one letter.
* `parser` has seven sentences in which every statement and clause occurs, every
  text that differs from one of them in one token or is cut short, all sequences
  of up to five of seven tokens as an expression, and all chains of two to four
  operators of every power with parentheses around every part.

### Fairness

The backend has none: it does what it is told when it is told. The loop has weak
fairness of `RunLine` only, the steps of a line already read, which the program
takes by itself without waiting for anything. `Lexer` has weak fairness of its
next step for the same reason: `lex` is a loop. `Driver` has weak fairness of the
steps of queries being executed, whichever goroutine's they are: nothing here
blocks, and Go's scheduler does not rest while a goroutine can run. That it
leaves none behind is not needed, as the queries are bounded and each ends
(`MethodsAdvance`). Asking, reading on and closing are the clients', of whom
nothing is assumed.

## Proofs

The modules named `_proofs` prove, for any tables, statements, expressions,
lines, texts and bounds, and any number of goroutines (where
`OneAtATime` is a hypothesis, one at a time, see below):

| Module | Theorem | States |
|---|---|---|
| `MemoryBackend_proofs` | `IndexesSound` | `Spec => []IndexInv` |
| | `TypeCorrect` | `Spec => []TypeOK` |
| | `RowsIndexed` | `Spec => []IndexCoversRows` |
| | `KeysUnique` | `Spec => []UniqueEnforced` |
| | `RowsOnlyAppended` | `Spec => RowsAppendOnly` |
| | `ErrorsChangeNoData` | `Spec => ErrorsKeepData` |
| `Rows_proofs` | `TreesFinite` | `Spec => []FiniteTrees` |
| | `AnswersSound` | `Spec => []SelectSound` |
| | `NotNullTrue` | `Spec => []NotNullReportTrue`, if no table has two columns of one name |
| `BackendRefinement_proofs` | `BackendImplementsStore` | `Spec => ImplementsStore` |
| `Repl_proofs` | `LoopCallsBackend` | `ReplSpec => Spec` |
| | `LinesInOrder` | `ReplSpec => []LineCarriedOut` |
| `Driver_proofs` | `DriverCallsBackend` | `DriverSpec => CallsBackend`, if `OneAtATime` |
| | `NoRowLost` | `DriverSpec => []RowsAccounted`, if `OneAtATime` |
| | `PrimaryKeysDistinct` | `DriverSpec => []KeysDistinct`, if `OneAtATime` |
| `Lexer_proofs` | `LexInvAlways` | `Spec => []LexInv` |
| | `NoTextLost` | `Spec => []NothingLost` |
| | `LexGetsFurther` | `Spec => [][GetsFurther]_vars` |
| | `LongestIsFound` | `Spec => []LongestMatchRight` |
| | `LocationsExact` | `Spec => []LocationExact` |
| `Parser_proofs` | `ParserInvariant` | `Spec => []IInv` |
| | `StatementsSeparateAlways` | `Spec => []StatementsSeparate` |
| | `HelpInRangeAlways` | `Spec => []HelpInRange` |
| | `RecursionUnbounded` | what a call of `parseExpression` returns is what its body makes of what all calls return |
| | `LoopsEnd` | the loops of `parseExpression` and of the lists end, or fail, within `MaxTurns` turns |

### Constraints

`UniqueEnforced` is not inductive: it speaks of rows, and `Insert` looks only at
the tree. `IndexInv` joins the two. It says that every row has its entry in each
granted index (`IndexCoversRows`), that the tree of a unique index has no two
entries of one key (`TreeUnique`), that no two indexes of a table share a name
and so a tree (`NamesDistinct`), and that what was granted is there
(`GrantedPresent`). Two rows of one key would then have two entries of one key.
The invariant holds although failed statements leave entries and half-filled
indexes behind: such entries can only refuse more, and a half-filled index was
never granted.

The argument has one lemma per action. `Insert` and `CreateIndex` each reduce,
on success and on failure, to one lemma about the first `m` indexes (`AddedInv`)
or the first `m` rows (`FilledInv`) having accepted a key, with `m` taken from
the least element that fails; `LeastNatural` gives that there is one.
Evaluation is not expanded here: all that is used of a row's key is that it
depends on the columns, the row and the expression.

### Rows and answers

Every step makes of a table either the old one with rows, indexes or entries
more, or a new one without rows (`GrownOrMade`). A tree so stays finite, and the
walk of a finite tree is a sequence of its items (`RanksTaken`): that is what
`AnswersSound` needs of indexes, and all it needs. Whatever positions a tree
holds, the rows narrowed by it are rows of the table, and the loop of `Select`
adds to the answer only the projection of a row it has just seen pass.

For `NotNullTrue` the evaluation is expanded. Its recursion is well defined
because expressions are finite trees (`FiniteAssumption`, in which `Depth` is
the height). The index of a primary key is granted with its table and covers the
rows with keys that are not nil; if names are distinct, the key is the cell of the
column reported (`ColumnFound`). The hypothesis is needed, as `TwinCreateTables`
shows.

### The loop

`LoopInv` relates the position in the line to what has been carried out. The
danger is that the line's first statement is passed on in place of a later one;
`Achieved` says that once it has been carried out the backend refuses it, as
long as nothing in between undoes it. `LoopCallsBackend` makes every theorem
about `MemoryBackend` one about the loop.

### The driver

The theorems are about one connection at a time. `OneAtATime` says
`AtOnce = 1`, and that the bounds of `MemoryBackend` are no less than the number
of queries, so that they never stop a method half way; there may be any number
of connections, names, statements and rows. With two at a time `KeysDistinct` and
`RowsAccounted` are false: `shared_keys` shows the first, and `SharedRows.cfg` with
`RowsAccounted` for its invariant the second. The inductive
invariant `SerialInv` has three parts:

* `MemoryInv`: the pointers lead to tables and trees, no two names share a table
  and no two indexes a tree. What a step does to a table is then seen under one
  name only.
* `BackendInv`: what is settled is as the theorems about `MemoryBackend` say
  (`IndexInv`, `FiniteTrees`), and no larger than the number of queries.
* `Progress`: how far the statement being executed has come, as the table and
  the trees its action of `MemoryBackend` would leave had it ended there.
  `AddingColumns` has the first columns added, `Filling` the first `m` rows
  entered in the new index (`Filled`), `AddingRow` the row entered in the first
  `m` indexes (`Added`), `Scanning` the first rows scanned; the others are the
  places between the loops. When nothing is being executed, what the pointers
  show is what is settled (`Settled`).

A step of a method either goes on (`Working`), and then `Progress` is kept and
what is settled does not change; or it returns (`Settling`, `Refusing`) or panics
(`Crashing`), and then what `Progress` says of it is the effect of one disjunct
of the action. There is one lemma per action of `Driver`, named after it. A method
reads the memory again at each access, and the invariant says that what it reads
is still what it read before; this is where a second connection would break it.
`TakeBack`, for one, drops whatever row is the last, and `AddingRow` knows that
row to be the statement's own. `NoRowLost` is proved for
the sequence of rows, more than the bag that `RowsAccounted` asks for.
`PrimaryKeysDistinct` follows for a table that has a name from `UniqueEnforced`,
since the index of a primary key is granted with its table (`PrimaryGranted`);
`KeysDistinct` speaks of dropped tables as well, which `KeyInv` adds: no step
changes a table without a name, and one that loses its name is as it was
settled, or was never finished and has no index. By `DriverCallsBackend` the
theorems about `MemoryBackend` hold of what the driver does, one connection at a
time.

### The lexer

`LexInv` has the pieces found so far fit together: each token's text is what the
source has between two marks, and what lies between tokens is white space
(`Accounted`); `Located`, an invariant next to it, does the same for the lines
and columns the marks have. One lemma per `lexX` says which piece it takes when
it succeeds (`TakesPiece`); the loops inside them are recursive functions, about
which `Iterates` (there is one) and `Upwards` (what holds at 0 and is kept by a
turn holds at the end) are all that is needed.
Both speak of sets and functions, as an operator cannot be a lemma's parameter
here. `LexGetsFurther` is the safety half of `LexEnds`: every token takes the
cursor further. `LongestIsFound` says of keywords and symbols, each from the
lists of the code, that the longest that fits is taken.

### The parser

`Parse` appends a semicolon to tokens that do not end with one, and no parsing
function takes a semicolon. The whole argument hangs on these two facts. `Ends`
is the first. The second is `Passes`: no semicolon stands between the cursor a
function was given and the one it returns. Together they keep every cursor, and
every message, on a token there is (`Fine`), which is what `helpMessage` relies
on without looking. `Follows` says both of one function's result; there is one
lemma per function, and for the functions that are made of others it is passed
along the chain of calls (`FollowsOn`). A statement that was read took at least
its first word (`Advances`).

`IInv` then is about the loop over statements: the cursor stands behind a
semicolon, or at the beginning, each statement read stands between semicolons
(`Separate`), and there are as many of them as semicolons passed that end
something (`Terminators`).

`RecursionUnbounded` shows the calls of `parseExpression` at cursor `c` to
depend only on the calls at later tokens (`Agree`), so that applying the body
once more changes nothing. `LoopsEnd` counts: a turn that does not end its loop
takes a token, and there are fewer tokens than turns.

### Assumptions, and what is left to TLC

The assumptions are those the modules name: `WidthAssumption`,
`ExprsAssumption`, `FiniteAssumption` (an expression is deeper than its parts),
`StatementsAssumption` (statements are made of the names and expressions of the
instance), `NoneAssumption`, `RowAssumption`, and `LinesAssumption`,
`QueriesAssumption`, `PointersAssumption`, `LexerAssumption`, `InputsAssumption`
(what `lex` returns are sequences) of the other modules. TLC evaluates them in
every run. `RowAssumption` is not used by a proof.

Left to TLC:

* `IndexTransparent`, `WindowExact` and `DuplicateIsStored`, which hold on the
  instance of `pk_table` and not in general; what they would need as hypotheses
  is longer than what they say.
* `Relexes`, the liveness half of `LexEnds`, `LinesEnd` and `QueriesEnd`; liveness
  is beyond the provers.
* `AnswerWhole` and `MethodsAdvance`, for goroutines at once.
* `TextKept`, `CodeParses` and `TreeRight`, which are about the text printed of
  a tree: they need induction over trees, which the provers cannot do, and
  `Code` and `Tree` are recursive operators, which they cannot read.

## Not modelled, and the plan

1. A proof of `MethodsAdvance`, the safety half of `QueriesEnd`, for any number of
   goroutines; and the same for the lines of the loop.
2. Text to tree as one specification, lexer and parser in sequence. `Relexes`
   and `CodeParses` cover the two halves of the round trip; that spaces between
   the printed tokens suffice is not stated.

Left out for good: the layout of result tables, line editing and history
(`readline`, `tablewriter`), the wording of messages, text beyond ASCII, the
pool of `database/sql` (a statement without rows returns nil `Rows`, and so its
connection is not given back), the names `Rows.Columns` returns, the commands
under `cmd/`, which have no state, and `EmptyBackend`, whose methods return a
fixed error each.
