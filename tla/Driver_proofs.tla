---------------------------- MODULE Driver_proofs ----------------------------
(***************************************************************************)
(* Theorems about Driver.  With one connection in use at a time, the steps *)
(* of a method come to one action of MemoryBackend, and no row is lost or  *)
(* made up.                                                                *)
(***************************************************************************)
EXTENDS Driver, Rows_proofs

------------------------------------------------------------------------------
(***************************************************************************)
(* What holds for any number of goroutines.                                *)
(***************************************************************************)

\* A sequence, whatever of
IsSequence(s) == s \in Seq(ToSet(s))

\* A sequence with one more element is one
LEMMA AppendSequence ==
  ASSUME NEW s, IsSequence(s), NEW e
  PROVE  IsSequence(Append(s, e))
<1> DEFINE S == ToSet(s) \cup {e}
           u == Append(s, e)
<1>1. s \in Seq(S)
  BY DEF IsSequence
<1>2. u \in Seq(S) /\ DOMAIN u = 1 .. Len(u)
  BY <1>1
<1>3. \A i \in 1 .. Len(u) : u[i] \in ToSet(u)
  BY <1>2 DEF ToSet
<1> QED
  BY <1>2, <1>3 DEF IsSequence

\* There are no trees at first.
LEMMA EmptySequence == IsSequence(<<>>)
BY DEF IsSequence, ToSet

\* Every connection has its local variables.
ConnsInv ==
  /\ DOMAIN conns = Conns
  /\ \A c \in Conns : DOMAIN conns[c] = DOMAIN Idle

\* A step that gives one connection new values of its local variables
LEMMA GotoInv ==
  ASSUME ConnsInv, NEW c \in Conns, NEW r, DOMAIN r = DOMAIN Idle, Goto(c, r)
  PROVE  ConnsInv'
BY DEF ConnsInv, Goto

\* A statement ends, with a cursor or without.
LEMMA EndInv ==
  ASSUME ConnsInv, NEW c \in Conns,
         \/ UNCHANGED conns
         \/ \E err : Return(c, err) \/ Fail(c, err)
         \/ \E answer : Answer(c, answer)
  PROVE  ConnsInv'
<1>1. DOMAIN conns[c] = DOMAIN Idle
  BY DEF ConnsInv
<1>2. CASE UNCHANGED conns
  BY <1>2 DEF ConnsInv
<1>3. ASSUME NEW err, Return(c, err) PROVE ConnsInv'
  BY <1>3, GotoInv DEF Return
<1>4. ASSUME NEW err, Fail(c, err) PROVE ConnsInv'
  <2>1. \/ Return(c, err)
        \/ \E pc : Goto(c, [conns[c] EXCEPT !.err = err, !.pc = pc])
    BY <1>4, Zenon DEF Fail
  <2> QED
    BY <1>1, <1>3, <2>1, GotoInv
<1>5. ASSUME NEW answer, Answer(c, answer) PROVE ConnsInv'
  BY <1>5, GotoInv DEF Answer
<1> QED
  BY <1>2, <1>3, <1>4, <1>5

\* Every step a goroutine takes inside the driver keeps the local variables.
LEMMA RunInv ==
  ASSUME ConnsInv, NEW c \in Conns, Run(c)
  PROVE  ConnsInv'
<1> DEFINE r == conns[c]
<1>0. DOMAIN r = DOMAIN Idle
  BY DEF ConnsInv
<1>1. ASSUME NEW q, DOMAIN q = DOMAIN r, Goto(c, q) PROVE ConnsInv'
  BY <1>0, <1>1, GotoInv
<1>2. CASE CheckName(c) \/ EnterTable(c) \/ AddColumn(c)
  <2>1. \/ \E err : Return(c, err)
        \/ \E pc : Goto(c, [r EXCEPT !.pc = pc])
        \/ \E pc, p, todo : Goto(c, [r EXCEPT !.pc = pc, !.table = p, !.todo = todo])
    BY <1>2, Zenon DEF CheckName, EnterTable, AddColumn
  <2> QED
    BY <1>1, <2>1, EndInv
<1>3. CASE AddType(c) \/ EndColumns(c) \/ UndoTable(c)
  <2>1. \/ \E err : Return(c, err)
        \/ \E err : Fail(c, err)
        \/ Goto(c, [r EXCEPT !.pc = "columns", !.todo = Tail(@)])
        \/ \E pc, p, key : Goto(c, [r EXCEPT !.pc = pc, !.table = p, !.key = key])
    BY <1>3, Zenon DEF AddType, EndColumns, UndoTable, DeleteTable
  <2> QED
    BY <1>1, <2>1, EndInv
<1>4. CASE LookUpDrop(c) \/ RemoveTable(c) \/ LookUpIndex(c) \/ CheckIndexName(c)
  <2>1. \/ \E err : Return(c, err)
        \/ \E err : Fail(c, err)
        \/ \E pc : Goto(c, [r EXCEPT !.pc = pc])
        \/ \E pc, p, key : Goto(c, [r EXCEPT !.pc = pc, !.table = p, !.key = key])
    BY <1>4, Zenon DEF LookUpDrop, RemoveTable, LookUpIndex, CheckIndexName, DeleteTable
  <2> QED
    BY <1>1, <2>1, EndInv
<1>5. CASE ReadIndexes(c) \/ InstallIndex(c) \/ RangeOverRows(c)
  <2>1. \/ \E pc, slice : Goto(c, [r EXCEPT !.pc = pc, !.slice = slice])
        \/ \E pc, key : Goto(c, [r EXCEPT !.pc = pc, !.key = key])
        \/ \E pc, todo : Goto(c, [r EXCEPT !.pc = pc, !.todo = todo])
    BY <1>5, Zenon DEF ReadIndexes, InstallIndex, RangeOverRows
  <2> QED
    BY <1>1, <2>1, EndInv
<1>6. CASE LookUpInsert(c) \/ CheckValues(c)
  <2>1. \/ \E err : Return(c, err)
        \/ \E pc, p : Goto(c, [r EXCEPT !.pc = pc, !.table = p])
        \/ \E pc, row : Goto(c, [r EXCEPT !.pc = pc, !.row = row])
    BY <1>6, Zenon DEF LookUpInsert, CheckValues
  <2> QED
    BY <1>1, <2>1, EndInv
<1>7. CASE ReadRows(c) \/ StoreRows(c) \/ RangeOverIndexes(c)
  <2>1. \/ \E pc : Goto(c, [r EXCEPT !.pc = pc])
        \/ \E pc, slice : Goto(c, [r EXCEPT !.pc = pc, !.slice = slice])
        \/ \E pc, todo : Goto(c, [r EXCEPT !.pc = pc, !.todo = todo])
    BY <1>7, Zenon DEF ReadRows, StoreRows, RangeOverIndexes
  <2> QED
    BY <1>1, <2>1, EndInv
<1>8. CASE PassRow(c) \/ EvaluateKey(c)
  <2>1. \/ UNCHANGED conns
        \/ \E err : Fail(c, err)
        \/ \E pc, at : Goto(c, [r EXCEPT !.pc = pc, !.at = at])
        \/ \E pc, key : Goto(c, [r EXCEPT !.pc = pc, !.key = key])
    BY <1>8, Zenon DEF PassRow, EvaluateKey, Crash
  <2> QED
    BY <1>1, <2>1, EndInv
<1>9. CASE LookUpKey(c) \/ InsertEntry(c) \/ EndAdd(c)
  <2>1. \/ \E err : Return(c, err)
        \/ \E err : Fail(c, err)
        \/ \E pc : Goto(c, [r EXCEPT !.pc = pc])
        \/ Goto(c, [r EXCEPT !.pc = "add", !.todo = Tail(@)])
    BY <1>9, Zenon DEF LookUpKey, InsertEntry, EndAdd
  <2> QED
    BY <1>1, <2>1, EndInv
<1>10. CASE TakeBack(c) \/ StoreShorter(c)
  <2>1. \/ UNCHANGED conns
        \/ \E err : Return(c, err)
        \/ \E pc, slice : Goto(c, [r EXCEPT !.pc = pc, !.slice = slice])
    BY <1>10, Zenon DEF TakeBack, StoreShorter, Crash
  <2> QED
    BY <1>1, <2>1, EndInv
<1>11. CASE LookUpSelect(c) \/ Narrow(c)
  <2>1. \/ UNCHANGED conns
        \/ \E err : Return(c, err)
        \/ \E answer : Answer(c, answer)
        \/ \E p : Goto(c, [r EXCEPT !.pc = "narrow", !.table = p])
        \/ \E rows, live, todo, window, acc :
             Goto(c, [r EXCEPT !.pc = "scan", !.rows = rows, !.live = live, !.todo = todo,
                               !.window = window, !.acc = acc, !.index = 0])
    BY <1>11, Zenon DEF LookUpSelect, Narrow, Crash
  <2> QED
    BY <1>1, <2>1, EndInv
<1>12. CASE VisitRow(c) \/ EndScan(c)
  <2>1. \/ UNCHANGED conns
        \/ \E err : Return(c, err)
        \/ \E answer : Answer(c, answer)
        \/ \E acc : Goto(c, NextRow(r, acc))
    BY <1>12, Zenon DEF VisitRow, EndScan, Crash
  <2> QED
    BY <1>1, <2>1, EndInv DEF NextRow
<1> QED
  BY <1>2, <1>3, <1>4, <1>5, <1>6, <1>7, <1>8, <1>9, <1>10, <1>11, <1>12 DEF Run

\* What a client asks for keeps them, too.
LEMMA AskInv ==
  ASSUME ConnsInv, NEW c \in Conns, Ask(c)
  PROVE  ConnsInv'
<1>1. DOMAIN conns[c] = DOMAIN Idle
  BY DEF ConnsInv
<1>2. ASSUME NEW q, DOMAIN q = DOMAIN Idle, Goto(c, q) PROVE ConnsInv'
  BY <1>2, GotoInv
<1>3. ASSUME NEW q, Query(c, q) PROVE ConnsInv'
  <2>1. UNCHANGED conns \/ \E call : Goto(c, [Idle EXCEPT !.pc = "execute", !.call = call])
    BY <1>3, Zenon DEF Query
  <2> QED
    BY <1>2, <2>1, EndInv
<1>4. CASE NotSupported(c) \/ RowsNext(c)
  <2>1. \/ UNCHANGED conns
        \/ \E got : Goto(c, [conns[c] EXCEPT !.index = @ + 1, !.got = got])
    BY <1>4, Zenon DEF NotSupported, RowsNext
  <2> QED
    BY <1>1, <1>2, <2>1, EndInv
<1>5. CASE EOF(c) \/ Close(c)
  <2>1. \/ Goto(c, Idle)
        \/ \E i : Goto(c, [conns[c] EXCEPT !.index = i, !.closed = TRUE])
    BY <1>5, Zenon DEF EOF, Close
  <2> QED
    BY <1>1, <1>2, <2>1
<1> QED
  BY <1>3, <1>4, <1>5 DEF Ask


------------------------------------------------------------------------------
(***************************************************************************)
(* One connection in use at a time.                                        *)
(***************************************************************************)

\* The bounds of MemoryBackend stay out of reach.
OneAtATime == AtOnce = 1 /\ MaxQueries <= MaxRows /\ MaxQueries <= MaxEntries

------------------------------------------------------------------------------
(***************************************************************************)
(* What is shared.                                                         *)
(***************************************************************************)
HeapIndex ==
  [name: IndexNames, exp: Exprs, unique: BOOLEAN, primaryKey: BOOLEAN, tree: Nat]

HeapTable ==
  [columns: Seq(ColumnNames), columnTypes: Seq(Datatypes), rows: Seq(Row),
   indexes: Seq(HeapIndex)]

\* Two names are never those of one table.
NamesApart ==
  \A m, n \in TableNames : catalogue[m] # none /\ catalogue[m] = catalogue[n] => m = n

\* A tree is that of one index.
TreesApart ==
  \A p, q \in DOMAIN heap :
    \A k \in DOMAIN heap[p].indexes, l \in DOMAIN heap[q].indexes :
      heap[p].indexes[k].tree = heap[q].indexes[l].tree => p = q /\ k = l

MemoryInv ==
  /\ heap \in Seq(HeapTable)
  /\ accepted \in Seq(Seq(Row)) /\ Len(accepted) = Len(heap)
  /\ IsSequence(forest)
  /\ catalogue \in [TableNames -> DOMAIN heap \cup {none}]
  /\ NamesApart /\ TreesApart
  /\ \A p \in DOMAIN heap : \A k \in DOMAIN heap[p].indexes :
       heap[p].indexes[k].tree \in DOMAIN forest

\* The table of a name is t, and its trees are f.
Shown(n, t, f) ==
  TablesAt(catalogue, heap)[n] = t /\ TreesAt(catalogue, heap, forest)[n] = f

ShownAsSettled(n) == Shown(n, tables[n], trees[n])

Balanced(p) == heap[p].rows = accepted[p]

AllBalanced == \A p \in DOMAIN heap : Balanced(p)

\* Nothing has happened since the last statement ended.
Settled == (\A n \in TableNames : ShownAsSettled(n)) /\ AllBalanced

\* The connection holds the table of a name, which alone has changed.
Holds(c, n, t, f) ==
  /\ conns[c].table = catalogue[n] /\ catalogue[n] # none
  /\ Shown(n, t, f)
  /\ \A q \in TableNames \ {n} : ShownAsSettled(q)

------------------------------------------------------------------------------
(***************************************************************************)
(* How far a method has come: what its action of MemoryBackend would have  *)
(* made of the table had it ended here.                                    *)
(***************************************************************************)
NoEntries == [x \in IndexNames |-> {}]

Executing(c) == conns[c].pc = "execute" /\ Settled

\* CREATE TABLE and DROP TABLE have looked the name up.
Entering(c) ==
  /\ conns[c].pc = "enter" /\ conns[c].call.kind = "create table"
  /\ catalogue[Stmt(c).table] = none /\ Settled

Removing(c) ==
  /\ conns[c].pc = "remove" /\ conns[c].call.kind = "drop table"
  /\ catalogue[Stmt(c).table] # none /\ Settled

\* The table with the first i columns
FirstColumns(cols, i) ==
  [columns     |-> [j \in 1 .. i |-> cols[j].name],
   columnTypes |-> [j \in 1 .. i |-> cols[j].datatype],
   rows        |-> <<>>, indexes |-> <<>>]

Creating(c) ==
  /\ conns[c].call.kind = "create table" /\ AllBalanced
  /\ tables[Stmt(c).table] = none /\ trees[Stmt(c).table] = NoEntries

AddingColumns(c) ==
  LET cols == Stmt(c).cols
  IN  /\ conns[c].pc = "columns" /\ Creating(c)
      /\ \E i \in 0 .. Len(cols) :
           /\ conns[c].todo = SubSeq(cols, i + 1, Len(cols))
           /\ \A j \in 1 .. i : ColumnError(cols, j) = NoError
           /\ Holds(c, Stmt(c).table, FirstColumns(cols, i), NoEntries)

\* The column after the first i has no type yet.
HalfColumns(cols, i) ==
  [FirstColumns(cols, i) EXCEPT !.columns = [j \in 1 .. i + 1 |-> cols[j].name]]

AddingType(c) ==
  LET cols == Stmt(c).cols
  IN  /\ conns[c].pc = "type" /\ Creating(c)
      /\ \E i \in 0 .. Len(cols) - 1 :
           /\ conns[c].todo = SubSeq(cols, i + 1, Len(cols))
           /\ \A j \in 1 .. i : ColumnError(cols, j) = NoError
           /\ Holds(c, Stmt(c).table, HalfColumns(cols, i), NoEntries)

InstallingKey(c) ==
  LET cols  == Stmt(c).cols
      pkeys == PrimaryKeyIndexes(Stmt(c).table, cols)
  IN  /\ conns[c].pc \in {"names", "install", "join"} /\ Creating(c)
      /\ conns[c].pc = "join" => conns[c].slice = <<>>
      /\ BadColumns(cols) = {} /\ pkeys # <<>> /\ conns[c].key = pkeys[1]
      /\ Holds(c, Stmt(c).table, FirstColumns(cols, Len(cols)), NoEntries)

KeyInstalled(c) ==
  LET cols == Stmt(c).cols
  IN  /\ conns[c].pc = "fill" \/ (conns[c].pc = "add" /\ conns[c].todo = <<>>)
      /\ Creating(c) /\ BadColumns(cols) = {}
      /\ Holds(c, Stmt(c).table, NewTable(Stmt(c).table, cols), NoEntries)

Indexing(c) ==
  LET s == Stmt(c)
  IN  /\ conns[c].call.kind = "create index"
      /\ Exists(s.table) /\ ~HasIndex(tables[s.table], s.name)

\* CREATE INDEX has looked the table up.
NamingIndex(c) ==
  /\ conns[c].pc = "names" /\ conns[c].call.kind = "create index" /\ Exists(Stmt(c).table)
  /\ conns[c].key = NewIndex(Stmt(c)) /\ conns[c].table = catalogue[Stmt(c).table]
  /\ Settled

InstallingIndex(c) ==
  /\ conns[c].pc \in {"install", "join"} /\ Indexing(c)
  /\ conns[c].key = NewIndex(Stmt(c)) /\ conns[c].table = catalogue[Stmt(c).table]
  /\ conns[c].pc = "join" => conns[c].slice = heap[conns[c].table].indexes
  /\ Settled

WithNewIndex(t, s) == [t EXCEPT !.indexes = Append(@, NewIndex(s))]

\* The tasks left when the rows before position m are done
RowTasks(x, m, len) == [i \in 1 .. len - m |-> Task(x, m + i - 1)]

\* Where addRow is, if it is to return err for the row at a position
AmidRow(r, at, key, err) ==
  /\ r.pc \in {"key", "look", "entry"} /\ r.at = at
  /\ r.pc # "key" => r.key = key.value /\ AddRowError(key, FALSE, {}) = NoError
  /\ r.pc = "entry" => err = NoError

\* Where the loop over the rows is when the first m have entries
AmongRows(r, t, s, x, m) ==
  \/ r.pc = "fill" /\ m = 0 /\ r.key = x
  \/ r.pc = "add" /\ r.todo = RowTasks(x, m, Len(t.rows))
  \/ /\ r.todo = RowTasks(x, m, Len(t.rows)) /\ m < Len(t.rows)
     /\ AmidRow(r, m, IndexKey(t, t.rows[m + 1], s.exp), FillError(t, s, m + 1))

Filling(c) ==
  LET s  == Stmt(c)
      t  == tables[s.table]
      xs == heap[conns[c].table].indexes
  IN  /\ Indexing(c) /\ AllBalanced
      /\ \E m \in 0 .. Len(t.rows) :
           /\ Holds(c, s.table, WithNewIndex(t, s),
                    [trees[s.table] EXCEPT ![s.name] = Filled(t, s.exp, m)])
           /\ \A i \in 1 .. m : FillError(t, s, i) = NoError
           /\ AmongRows(conns[c], t, s, xs[Len(xs)], m)

Inserting(c) ==
  LET s == Stmt(c)
  IN  /\ conns[c].call.kind = "insert"
      /\ Exists(s.table) /\ Len(s.values) = Len(tables[s.table].columns)
      /\ BadValues(s.values) = {} /\ conns[c].row = RowOf(s.values)

\* INSERT has looked the table up.
Valuing(c) ==
  /\ conns[c].pc = "values" /\ conns[c].call.kind = "insert" /\ Exists(Stmt(c).table)
  /\ conns[c].table = catalogue[Stmt(c).table] /\ Settled

AppendingRow(c) ==
  /\ conns[c].pc \in {"append", "store"} /\ Inserting(c)
  /\ conns[c].table = catalogue[Stmt(c).table]
  /\ conns[c].pc = "store" => conns[c].slice = tables[Stmt(c).table].rows
  /\ Settled

WithNewRow(t, row) == [t EXCEPT !.rows = Append(@, row)]

\* The tasks left when the first m indexes have added the row
IndexTasks(xs, m) == [k \in 1 .. Len(xs) - m |-> Task(xs[m + k], last)]

AddingRow(c) ==
  LET n   == Stmt(c).table
      t   == tables[n]
      row == conns[c].row
      p   == conns[c].table
  IN  /\ Inserting(c)
      /\ heap[p].rows = Append(accepted[p], row)
      /\ \A q \in DOMAIN heap \ {p} : Balanced(q)
      /\ \E m \in 0 .. Len(t.indexes) :
           /\ Holds(c, n, WithNewRow(t, row), Added(n, row, Len(t.rows), m))
           /\ \A k \in 1 .. m : InsertError(n, row, k) = NoError
           /\ \/ conns[c].pc = "indexes" /\ m = 0
              \/ conns[c].pc = "add" /\ conns[c].todo = IndexTasks(heap[p].indexes, m)
              \/ /\ conns[c].todo = IndexTasks(heap[p].indexes, m) /\ m < Len(t.indexes)
                 /\ AmidRow(conns[c], Len(t.rows), IndexKey(t, row, t.indexes[m + 1].exp),
                            InsertError(n, row, m + 1))
              \/ /\ conns[c].pc \in {"drop", "reslice"} /\ m < Len(t.indexes)
                 /\ conns[c].err = InsertError(n, row, m + 1)
                 /\ conns[c].err \notin {NoError, Panic}
                 /\ conns[c].pc = "reslice" => conns[c].slice = t.rows

\* The table a SELECT reads, and its trees
From(s) == IF s.table = nil THEN NoTable ELSE tables[s.table]
FromTrees(s) == IF s.table = nil THEN <<>> ELSE trees[s.table]

Selecting(c) ==
  LET s == Stmt(c)
  IN  /\ conns[c].call.kind = "select" /\ s.items # <<>> /\ Settled
      /\ IF s.table = nil THEN conns[c].table = nil
         ELSE Exists(s.table) /\ conns[c].table = catalogue[s.table]

Narrowing(c) == conns[c].pc = "narrow" /\ Selecting(c)

\* What the loop over the rows has collected
AccFields == {"done", "err", "rowIndex", "rows", "columns"}

\* Where the loop over the rows that the indexes have left is
AmongRead(r, t, s, sub) ==
  /\ r.pc = "scan" /\ ~sub.panicked /\ r.rows = sub.rows /\ (r.live => t.rows = sub.rows)
  /\ r.window = Window(t, sub.rows, s) /\ r.window.err = NoError
  /\ r.todo = FinalItems(t, s.items)
  /\ r.index \in 0 .. Len(sub.rows)
  /\ \E f : ScannedUpTo(f, Len(sub.rows), t, s, sub.rows, r.window) /\ r.acc = f[r.index]
  /\ DOMAIN r.acc = AccFields
  /\ r.acc.err # Panic /\ (~r.acc.done => r.acc.err = NoError)

Scanning(c) ==
  LET s == Stmt(c)
      t == From(s)
  IN  Selecting(c) /\ AmongRead(conns[c], t, s, Narrowed(t, FromTrees(s), s.where))

Progress(c) ==
  \/ Executing(c) \/ Entering(c) \/ Removing(c)
  \/ AddingColumns(c) \/ AddingType(c) \/ InstallingKey(c) \/ KeyInstalled(c)
  \/ NamingIndex(c) \/ InstallingIndex(c) \/ Filling(c)
  \/ Valuing(c) \/ AppendingRow(c) \/ AddingRow(c)
  \/ Narrowing(c) \/ Scanning(c)

------------------------------------------------------------------------------
Busy(c) == conns[c].pc \notin {"idle", "rows"}

\* Rows and entries are no more than the queries there have been.
Sized(m) ==
  \A n \in TableNames : Exists(n) =>
    Len(tables[n].rows) <= m /\ \A x \in IndexNames : Cardinality(trees[n][x]) <= m

Ends == IF \E c \in Conns : Busy(c) THEN asked - 1 ELSE asked

OneBusy ==
  \A c, d \in Conns : conns[c].pc # "idle" /\ conns[d].pc # "idle" => c = d

TreesMapped == trees = [n \in TableNames |-> trees[n]]

BackendInv == IndexInv /\ FiniteTrees /\ TreesMapped /\ Sized(Ends)

SerialInv ==
  /\ ConnsInv /\ OneBusy /\ MemoryInv /\ BackendInv
  /\ asked \in Nat /\ asked <= MaxQueries
  /\ Alive =>
       /\ reply.err # Panic
       /\ \A c \in Conns : Busy(c) =>
            conns[c].call \in Statements /\ asked > 0 /\ Progress(c)
       /\ Quiet => Settled

------------------------------------------------------------------------------
(***************************************************************************)
(* What is shown of the memory.                                            *)
(***************************************************************************)

\* A table of the heap, without the pointers of its indexes
LEMMA PlainTable ==
  ASSUME NEW t \in HeapTable
  PROVE  /\ Plain(t) \in Table /\ Plain(t) # none
         /\ Plain(t).columns = t.columns /\ Plain(t).columnTypes = t.columnTypes
         /\ Plain(t).rows = t.rows
         /\ DOMAIN Plain(t).indexes = DOMAIN t.indexes
         /\ Len(Plain(t).indexes) = Len(t.indexes)
         /\ \A k \in DOMAIN t.indexes : Plain(t).indexes[k] = PlainIndex(t.indexes[k])
<1>1. /\ t.columns \in Seq(ColumnNames) /\ t.columnTypes \in Seq(Datatypes)
      /\ t.rows \in Seq(Row) /\ t.indexes \in Seq(HeapIndex)
  BY DEF HeapTable
<1> DEFINE xs == [k \in DOMAIN t.indexes |-> PlainIndex(t.indexes[k])]
<1>2. \A x \in HeapIndex : PlainIndex(x) \in Index
  BY DEF HeapIndex, Index, PlainIndex
<1>3. xs \in Seq(Index) /\ Len(xs) = Len(t.indexes) /\ DOMAIN xs = DOMAIN t.indexes
  BY <1>1, <1>2
<1>4. /\ Plain(t).columns = t.columns /\ Plain(t).columnTypes = t.columnTypes
      /\ Plain(t).rows = t.rows /\ Plain(t).indexes = xs
  BY DEF Plain
<1>5. Plain(t) \in Table
  <2> HIDE DEF xs
  <2> QED
    BY <1>1, <1>3 DEF Plain, Table, xs
<1>6. \A k \in DOMAIN t.indexes : xs[k] = PlainIndex(t.indexes[k])
  OBVIOUS
<1> HIDE DEF xs
<1> QED
  BY <1>3, <1>4, <1>5, <1>6, NoneAssumption

\* What a name shows is what its pointer leads to.
LEMMA ShownAt ==
  ASSUME NEW n \in TableNames, NEW t, NEW f
  PROVE  Shown(n, t, f) <=>
           IF catalogue[n] = none THEN t = none /\ f = NoEntries
           ELSE t = Plain(heap[catalogue[n]]) /\ f = TreesOf(heap[catalogue[n]], forest)
BY DEF Shown, TablesAt, TreesAt, NoEntries

\* A name that leads to the same table with the same trees shows the same.
LEMMA StillShown ==
  ASSUME NEW q \in TableNames, catalogue'[q] = catalogue[q],
         catalogue[q] # none =>
           /\ heap'[catalogue[q]] = heap[catalogue[q]]
           /\ \A k \in DOMAIN heap[catalogue[q]].indexes :
                forest'[heap[catalogue[q]].indexes[k].tree]
                  = forest[heap[catalogue[q]].indexes[k].tree],
         NEW t, NEW f, Shown(q, t, f)
  PROVE  Shown(q, t, f)'
<1>1. CASE catalogue[q] = none
  BY <1>1 DEF Shown, TablesAt, TreesAt
<1>2. CASE catalogue[q] # none
  <2> DEFINE u == heap[catalogue[q]]
  <2>1. TreesOf(u, forest') = TreesOf(u, forest)
    BY <1>2 DEF TreesOf
  <2>2. t = Plain(u) /\ f = TreesOf(u, forest)
    BY <1>2 DEF Shown, TablesAt, TreesAt
  <2>3. /\ TablesAt(catalogue', heap')[q] = Plain(u)
        /\ TreesAt(catalogue', heap', forest')[q] = TreesOf(u, forest')
    BY <1>2 DEF TablesAt, TreesAt
  <2> QED
    BY <2>1, <2>2, <2>3 DEF Shown
<1> QED
  BY <1>1, <1>2

------------------------------------------------------------------------------
(***************************************************************************)
(* What the steps do to the memory.                                        *)
(***************************************************************************)

\* What other names show stays.
OthersShown(n) ==
  \A q \in TableNames \ {n} : \A t, f : Shown(q, t, f) => Shown(q, t, f)'

\* A table of the heap, and where its trees are
LEMMA HeapShape ==
  ASSUME MemoryInv, NEW p \in DOMAIN heap
  PROVE  /\ heap[p] \in HeapTable
         /\ p \in 1 .. Len(heap) /\ Len(heap) \in Nat /\ DOMAIN heap = 1 .. Len(heap)
         /\ heap[p].indexes \in Seq(HeapIndex)
         /\ \A k \in DOMAIN heap[p].indexes :
              heap[p].indexes[k] \in HeapIndex /\ heap[p].indexes[k].tree \in DOMAIN forest
<1>1. heap \in Seq(HeapTable)
  BY DEF MemoryInv
<1>2. heap[p] \in HeapTable /\ DOMAIN heap = 1 .. Len(heap) /\ Len(heap) \in Nat
  BY <1>1
<1>3. heap[p].indexes \in Seq(HeapIndex)
  BY <1>2 DEF HeapTable
<1>4. \A k \in DOMAIN heap[p].indexes : heap[p].indexes[k] \in HeapIndex
  BY <1>3
<1> QED
  BY <1>2, <1>3, <1>4 DEF MemoryInv

\* A name's pointer leads to a table.
LEMMA PointerShape ==
  ASSUME MemoryInv, NEW n \in TableNames, catalogue[n] # none
  PROVE  catalogue[n] \in DOMAIN heap
BY DEF MemoryInv

\* A table is changed but for its indexes, and may lose its name.
LEMMA TableReplaced ==
  ASSUME MemoryInv, NEW n \in TableNames, catalogue[n] # none,
         NEW u \in HeapTable, u.indexes = heap[catalogue[n]].indexes,
         heap' = [heap EXCEPT ![catalogue[n]] = u],
         catalogue' = catalogue \/ catalogue' = [catalogue EXCEPT ![n] = none],
         forest' = forest,
         accepted' \in Seq(Seq(Row)), Len(accepted') = Len(accepted)
  PROVE  /\ MemoryInv' /\ OthersShown(n)
         /\ catalogue' = catalogue => \A t, f : Shown(n, t, f) => Shown(n, Plain(u), f)'
<1> DEFINE p == catalogue[n]
<1>1. p \in DOMAIN heap
  BY PointerShape
<1>2. /\ heap \in Seq(HeapTable) /\ catalogue \in [TableNames -> DOMAIN heap \cup {none}]
      /\ none \notin DOMAIN heap
  BY PointersAssumption DEF MemoryInv
<1>3. /\ heap' \in Seq(HeapTable) /\ Len(heap') = Len(heap) /\ DOMAIN heap' = DOMAIN heap
      /\ heap'[p] = u /\ \A q \in DOMAIN heap : q # p => heap'[q] = heap[q]
  BY <1>1, <1>2
<1>4. \A q \in DOMAIN heap : heap'[q].indexes = heap[q].indexes
  BY <1>3
<1>5. catalogue' \in [TableNames -> DOMAIN heap' \cup {none}]
  BY <1>2, <1>3
<1>6. NamesApart' /\ TreesApart'
  <2>1. NamesApart'
    BY <1>2 DEF MemoryInv, NamesApart
  <2>2. TreesApart'
    BY <1>3, <1>4 DEF MemoryInv, TreesApart
  <2> QED
    BY <2>1, <2>2
<1>7. MemoryInv'
  BY <1>3, <1>4, <1>5, <1>6 DEF MemoryInv, IsSequence
<1>8. OthersShown(n)
  <2> SUFFICES ASSUME NEW q \in TableNames \ {n}, NEW t, NEW f, Shown(q, t, f)
               PROVE  Shown(q, t, f)'
    BY DEF OthersShown
  <2>1. catalogue'[q] = catalogue[q] /\ catalogue[q] # p
    BY <1>2 DEF MemoryInv, NamesApart
  <2>2. catalogue[q] # none => heap'[catalogue[q]] = heap[catalogue[q]]
    BY <1>3, <2>1, PointerShape
  <2> QED
    BY <2>1, <2>2, StillShown
<1>9. ASSUME catalogue' = catalogue, NEW t, NEW f, Shown(n, t, f)
      PROVE  Shown(n, Plain(u), f)'
  <2>1. TreesOf(u, forest') = TreesOf(heap[p], forest)
    BY DEF TreesOf
  <2>2. f = TreesOf(heap[p], forest)
    BY <1>9, ShownAt
  <2>3. /\ TablesAt(catalogue', heap')[n] = Plain(u)
        /\ TreesAt(catalogue', heap', forest')[n] = TreesOf(u, forest')
    BY <1>3, <1>9 DEF TablesAt, TreesAt
  <2> QED
    BY <2>1, <2>2, <2>3 DEF Shown
<1> QED
  BY <1>7, <1>8, <1>9

\* A name without a table
LEMMA NothingShown ==
  ASSUME NEW n \in TableNames, catalogue[n] = none
  PROVE  Shown(n, none, NoEntries)
BY ShownAt

\* A table is entered under a free name.
LEMMA TableEntered ==
  ASSUME MemoryInv, NEW n \in TableNames, catalogue[n] = none,
         heap' = Append(heap, EmptyTable), accepted' = Append(accepted, <<>>),
         catalogue' = [catalogue EXCEPT ![n] = Len(heap) + 1], forest' = forest
  PROVE  /\ MemoryInv' /\ OthersShown(n) /\ Shown(n, EmptyTable, NoEntries)'
<1> DEFINE p == Len(heap) + 1
<1>1. /\ heap \in Seq(HeapTable) /\ catalogue \in [TableNames -> DOMAIN heap \cup {none}]
      /\ DOMAIN heap = 1 .. Len(heap) /\ Len(heap) \in Nat
  BY DEF MemoryInv
<1>2. EmptyTable \in HeapTable /\ EmptyTable.indexes = <<>>
  BY DEF EmptyTable, HeapTable
<1>3. /\ heap' \in Seq(HeapTable) /\ DOMAIN heap' = DOMAIN heap \cup {p}
      /\ heap'[p] = EmptyTable /\ \A q \in DOMAIN heap : heap'[q] = heap[q]
      /\ p \notin DOMAIN heap /\ p # none /\ Len(heap') = p
  <2> HIDE DEF EmptyTable
  <2> QED
    BY <1>1, <1>2, PointersAssumption
<1>4. catalogue' \in [TableNames -> DOMAIN heap' \cup {none}]
  BY <1>1, <1>3
<1>5. NamesApart'
  BY <1>1, <1>3 DEF MemoryInv, NamesApart
<1>6. DOMAIN heap'[p].indexes = {}
  BY <1>2, <1>3
<1>7. TreesApart'
  BY <1>3, <1>6 DEF MemoryInv, TreesApart
<1>8. accepted' \in Seq(Seq(Row)) /\ Len(accepted') = Len(heap')
  <2>1. <<>> \in Seq(Row)
    OBVIOUS
  <2> QED
    BY <1>3, <2>1 DEF MemoryInv
<1>9. MemoryInv'
  BY <1>3, <1>4, <1>5, <1>6, <1>7, <1>8 DEF MemoryInv, IsSequence
<1>10. OthersShown(n)
  <2> SUFFICES ASSUME NEW q \in TableNames \ {n}, NEW t, NEW f, Shown(q, t, f)
               PROVE  Shown(q, t, f)'
    BY DEF OthersShown
  <2>1. catalogue'[q] = catalogue[q]
    BY <1>1
  <2>2. catalogue[q] # none => heap'[catalogue[q]] = heap[catalogue[q]]
    BY <1>3, PointerShape
  <2> QED
    BY <2>1, <2>2, StillShown
<1>11. Shown(n, EmptyTable, NoEntries)'
  <2>1. catalogue'[n] = p
    BY <1>1
  <2>2. Plain(EmptyTable) = EmptyTable
    BY DEF Plain, EmptyTable
  <2>3. TreesOf(EmptyTable, forest') = NoEntries
    <3>1. \A x \in IndexNames :
            {k \in DOMAIN EmptyTable.indexes : EmptyTable.indexes[k].name = x} = {}
      BY <1>2
    <3> QED
      BY <3>1 DEF TreesOf, NoEntries
  <2>4. /\ TablesAt(catalogue', heap')[n] = EmptyTable
        /\ TreesAt(catalogue', heap', forest')[n] = NoEntries
    BY <1>3, <2>1, <2>2, <2>3 DEF TablesAt, TreesAt
  <2> QED
    BY <2>4 DEF Shown
<1> QED
  BY <1>9, <1>10, <1>11

\* A sequence of anything is a sequence.
LEMMA TypedSequence ==
  ASSUME NEW S, NEW s \in Seq(S)
  PROVE  IsSequence(s)
<1>1. \A i \in 1 .. Len(s) : s[i] \in ToSet(s)
  BY DEF ToSet
<1> QED
  BY <1>1 DEF IsSequence

\* One element of a sequence is replaced.
LEMMA ReplacedItem ==
  ASSUME NEW S, NEW s \in Seq(S), NEW p \in DOMAIN s, NEW u \in S
  PROVE  LET r == [s EXCEPT ![p] = u]
         IN  /\ r \in Seq(S) /\ Len(r) = Len(s) /\ DOMAIN r = DOMAIN s
             /\ r[p] = u /\ \A q \in DOMAIN s : q # p => r[q] = s[q]
OBVIOUS

\* Two sequences of one length and the same elements are one.
LEMMA SameSequence ==
  ASSUME NEW S, NEW a \in Seq(S), NEW b \in Seq(S), Len(a) = Len(b),
         \A k \in 1 .. Len(a) : a[k] = b[k]
  PROVE  a = b
OBVIOUS

\* A table with other indexes, or with other rows
LEMMA TableWith ==
  ASSUME NEW t, NEW cols, NEW types, NEW rows, NEW xs, NEW new,
         t = [columns |-> cols, columnTypes |-> types, rows |-> rows, indexes |-> xs]
  PROVE  /\ [t EXCEPT !.indexes = new] =
              [columns |-> cols, columnTypes |-> types, rows |-> rows, indexes |-> new]
         /\ [t EXCEPT !.rows = new] =
              [columns |-> cols, columnTypes |-> types, rows |-> new, indexes |-> xs]
OBVIOUS

\* Without its pointer, the index that joins a table is y.
LEMMA PlainWithIndex ==
  ASSUME NEW h \in HeapTable, NEW u \in HeapTable, NEW x \in HeapIndex,
         u.indexes = Append(h.indexes, x), u.rows = h.rows,
         u.columns = h.columns, u.columnTypes = h.columnTypes
  PROVE  Plain(u) = [Plain(h) EXCEPT !.indexes = Append(@, PlainIndex(x))]
<1> DEFINE xs == h.indexes
           y == PlainIndex(x)
           a == [k \in DOMAIN u.indexes |-> PlainIndex(u.indexes[k])]
           b == [k \in DOMAIN xs |-> PlainIndex(xs[k])]
<1>1. xs \in Seq(HeapIndex) /\ u.indexes = Append(xs, x)
  BY DEF HeapTable
<1>2. a = Append(b, y)
  <2>1. DOMAIN xs = 1 .. Len(xs) /\ Len(xs) \in Nat
    BY <1>1
  <2>2. Len(b) = Len(xs) /\ DOMAIN b = 1 .. Len(xs)
    BY <2>1
  <2>3. /\ DOMAIN u.indexes = 1 .. Len(xs) + 1 /\ u.indexes[Len(xs) + 1] = x
        /\ \A k \in 1 .. Len(xs) : u.indexes[k] = xs[k]
    BY <1>1
  <2>4. /\ a[Len(xs) + 1] = y /\ DOMAIN a = 1 .. Len(xs) + 1
        /\ \A k \in 1 .. Len(xs) : a[k] = b[k]
    BY <2>1, <2>3
  <2>5. \A z \in HeapIndex : PlainIndex(z) \in Index
    BY DEF HeapIndex, Index, PlainIndex
  <2>6. a \in Seq(Index) /\ b \in Seq(Index) /\ y \in Index
    BY <1>1, <2>1, <2>3, <2>5
  <2>7. Len(a) = Len(xs) + 1
    BY <2>4, <2>1
  <2> HIDE DEF y, xs, a, b
  <2>8. /\ Append(b, y) \in Seq(Index) /\ Len(Append(b, y)) = Len(xs) + 1
        /\ Append(b, y)[Len(xs) + 1] = y
        /\ \A k \in 1 .. Len(xs) : Append(b, y)[k] = b[k]
    BY <2>2, <2>6, AppendedItem
  <2>9. \A k \in 1 .. Len(xs) + 1 : a[k] = Append(b, y)[k]
    BY <2>1, <2>4, <2>8
  <2> QED
    BY <2>6, <2>7, <2>8, <2>9, SameSequence
<1>3. Plain(u) = [columns |-> h.columns, columnTypes |-> h.columnTypes,
                  rows |-> h.rows, indexes |-> a]
  BY DEF Plain
<1>4. Plain(h) = [columns |-> h.columns, columnTypes |-> h.columnTypes,
                  rows |-> h.rows, indexes |-> b]
  BY DEF Plain
<1> HIDE DEF a, b, y
<1>5. Plain(u) = [Plain(h) EXCEPT !.indexes = Append(@, y)]
  <2>1. Plain(h).indexes = b
    BY <1>4
  <2> DEFINE t == Plain(h)
  <2>2. [t EXCEPT !.indexes = a] = Plain(u)
    BY <1>3, <1>4, TableWith
  <2> QED
    BY <1>2, <2>1, <2>2
<1> QED
  BY <1>5 DEF y

\* The table u is h with one more index, of an empty tree.
GainsIndex(h, fs, u, gs) ==
  \E x \in HeapIndex :
    /\ h.indexes \in Seq(HeapIndex) /\ u.indexes = Append(h.indexes, x)
    /\ gs[x.tree] = {}
    /\ \A k \in DOMAIN h.indexes : gs[h.indexes[k].tree] = fs[h.indexes[k].tree]

\* An index whose tree is empty leaves the trees as they were.
LEMMA TreesWithIndex ==
  ASSUME NEW h, NEW fs, NEW u, NEW gs, GainsIndex(h, fs, u, gs)
  PROVE  TreesOf(u, gs) = TreesOf(h, fs)
<1> PICK x \in HeapIndex :
      /\ h.indexes \in Seq(HeapIndex) /\ u.indexes = Append(h.indexes, x)
      /\ gs[x.tree] = {}
      /\ \A k \in DOMAIN h.indexes : gs[h.indexes[k].tree] = fs[h.indexes[k].tree]
  BY DEF GainsIndex
<1>1. /\ DOMAIN u.indexes = DOMAIN h.indexes \cup {Len(h.indexes) + 1}
      /\ u.indexes[Len(h.indexes) + 1] = x
      /\ \A k \in DOMAIN h.indexes : u.indexes[k] = h.indexes[k]
  <2> DEFINE xs == h.indexes
  <2> HIDE DEF xs
  <2>1. xs \in Seq(HeapIndex) /\ u.indexes = Append(xs, x)
    BY DEF xs
  <2>2. /\ DOMAIN u.indexes = DOMAIN xs \cup {Len(xs) + 1}
        /\ u.indexes[Len(xs) + 1] = x /\ \A k \in DOMAIN xs : u.indexes[k] = xs[k]
    BY <2>1, AppendedItem
  <2> QED
    BY <2>2 DEF xs
<1>2. ASSUME NEW z \in IndexNames
      PROVE  UNION {gs[u.indexes[k].tree] :
                      k \in {k \in DOMAIN u.indexes : u.indexes[k].name = z}}
             = UNION {fs[h.indexes[k].tree] :
                        k \in {k \in DOMAIN h.indexes : h.indexes[k].name = z}}
  <2>0. PICK K, D, E : /\ K = Len(h.indexes) + 1 /\ D = DOMAIN h.indexes
                       /\ E = {k \in DOMAIN u.indexes : u.indexes[k].name = z}
    OBVIOUS
  <2> DEFINE old == {k \in D : h.indexes[k].name = z}
  <2>1. /\ DOMAIN u.indexes = D \cup {K} /\ u.indexes[K] = x
        /\ \A k \in D : /\ u.indexes[k] = h.indexes[k]
                        /\ gs[h.indexes[k].tree] = fs[h.indexes[k].tree]
    <3>1. \A k \in D : gs[h.indexes[k].tree] = fs[h.indexes[k].tree]
      BY <2>0, Zenon
    <3>2. DOMAIN u.indexes = D \cup {K} /\ u.indexes[K] = x
      BY ONLY <1>1, <2>0, Zenon
    <3>3. \A k \in D : u.indexes[k] = h.indexes[k]
      BY ONLY <1>1, <2>0, Zenon
    <3> QED
      BY ONLY <3>1, <3>2, <3>3
  <2>2. old \subseteq E /\ E \subseteq old \cup {K}
    BY ONLY <2>0, <2>1
  <2>3. \A k \in old : gs[u.indexes[k].tree] = fs[h.indexes[k].tree]
    BY ONLY <2>1
  <2>4. K \in E => gs[u.indexes[K].tree] = {}
    BY <2>1
  <2> HIDE DEF old
  <2>5. UNION {gs[u.indexes[k].tree] : k \in E} = UNION {fs[h.indexes[k].tree] : k \in old}
    <3>1. \A e : (\E k \in E : e \in gs[u.indexes[k].tree])
                   <=> \E k \in old : e \in fs[h.indexes[k].tree]
      BY ONLY <2>2, <2>3, <2>4, Zenon
    <3> QED
      BY ONLY <3>1
  <2> QED
    BY ONLY <2>0, <2>5 DEF old
<1> QED
  BY <1>2 DEF TreesOf

\* A table gets an index whose tree is new and empty.
LEMMA IndexPutIn ==
  ASSUME MemoryInv, NEW n \in TableNames, catalogue[n] # none,
         NEW x \in HeapIndex, x.tree = Len(forest) + 1,
         forest' = Append(forest, {}),
         NEW u \in HeapTable, u.indexes = Append(heap[catalogue[n]].indexes, x),
         u.rows = heap[catalogue[n]].rows, u.columns = heap[catalogue[n]].columns,
         u.columnTypes = heap[catalogue[n]].columnTypes,
         heap' = [heap EXCEPT ![catalogue[n]] = u],
         UNCHANGED <<catalogue, accepted>>
  PROVE  /\ MemoryInv' /\ OthersShown(n) /\ heap'[catalogue[n]] = u
         /\ \A t, f : Shown(n, t, f) =>
              Shown(n, [t EXCEPT !.indexes = Append(@, PlainIndex(x))], f)'
<1> DEFINE p == catalogue[n]
           q == Len(forest) + 1
           xs == heap[p].indexes
<1>1. p \in DOMAIN heap
  BY PointerShape
<1>2. /\ heap \in Seq(HeapTable) /\ catalogue \in [TableNames -> DOMAIN heap \cup {none}]
      /\ none \notin DOMAIN heap
  BY PointersAssumption DEF MemoryInv
<1>3. /\ heap[p] \in HeapTable /\ xs \in Seq(HeapIndex)
      /\ \A k \in DOMAIN xs : xs[k].tree \in DOMAIN forest
  BY <1>1, HeapShape
<1>4. /\ DOMAIN forest = 1 .. Len(forest) /\ Len(forest) \in Nat /\ q \notin DOMAIN forest
  BY DEF MemoryInv, IsSequence
<1>5. /\ IsSequence(forest') /\ DOMAIN forest' = DOMAIN forest \cup {q}
      /\ forest'[q] = {} /\ \A k \in DOMAIN forest : forest'[k] = forest[k]
  <2>1. IsSequence(forest)
    BY DEF MemoryInv
  <2>2. IsSequence(Append(forest, {}))
    BY <2>1, AppendSequence
  <2>3. forest \in Seq(ToSet(forest) \cup {{}})
    BY <2>1 DEF IsSequence
  <2> QED
    BY <1>4, <2>2, <2>3
<1>6. /\ heap' \in Seq(HeapTable) /\ Len(heap') = Len(heap) /\ DOMAIN heap' = DOMAIN heap
      /\ heap'[p] = u /\ \A k \in DOMAIN heap : k # p => heap'[k] = heap[k]
  BY <1>1, <1>2, ReplacedItem
<1>7. /\ DOMAIN u.indexes = DOMAIN xs \cup {Len(xs) + 1} /\ Len(xs) + 1 \notin DOMAIN xs
      /\ u.indexes[Len(xs) + 1] = x /\ \A k \in DOMAIN xs : u.indexes[k] = xs[k]
  <2>0. PICK s, v : s = xs /\ v = u.indexes
    OBVIOUS
  <2>1. s \in Seq(HeapIndex) /\ v = Append(s, x)
    <3>1. u.indexes = Append(xs, x)
      OBVIOUS
    <3> HIDE DEF xs
    <3> QED
      BY ONLY <1>3, <2>0, <3>1
  <2>2. /\ DOMAIN v = DOMAIN s \cup {Len(s) + 1} /\ v[Len(s) + 1] = x
        /\ \A k \in DOMAIN s : v[k] = s[k]
    BY ONLY <2>1, AppendedItem
  <2>3. Len(s) + 1 \notin DOMAIN s
    BY ONLY <2>1
  <2> QED
    BY ONLY <2>0, <2>2, <2>3
<1>8. p = catalogue[n] /\ xs = heap[p].indexes /\ q = x.tree
  OBVIOUS
<1> HIDE DEF p, xs, q
<1>9. ASSUME NEW m \in DOMAIN heap, NEW k \in DOMAIN heap'[m].indexes
      PROVE  \/ /\ k \in DOMAIN heap[m].indexes
                /\ heap'[m].indexes[k] = heap[m].indexes[k]
                /\ heap'[m].indexes[k].tree \in DOMAIN forest
             \/ /\ m = p /\ k = Len(xs) + 1
                /\ heap'[m].indexes[k].tree = q
  <2>1. CASE m # p
    BY <1>6, <2>1, HeapShape
  <2>2. CASE m = p
    BY <1>3, <1>6, <1>7, <1>8, <2>2
  <2> QED
    BY <2>1, <2>2
<1>10. TreesApart'
  <2> SUFFICES ASSUME NEW a \in DOMAIN heap, NEW b \in DOMAIN heap,
                      NEW k \in DOMAIN heap'[a].indexes, NEW l \in DOMAIN heap'[b].indexes,
                      heap'[a].indexes[k].tree = heap'[b].indexes[l].tree
               PROVE  a = b /\ k = l
    BY <1>6 DEF TreesApart
  <2>1. CASE heap'[a].indexes[k].tree = q
    <3>1. q \notin DOMAIN forest
      BY <1>4
    <3>2. a = p /\ k = Len(xs) + 1
      BY <1>9, <2>1, <3>1
    <3>3. b = p /\ l = Len(xs) + 1
      BY <1>9, <2>1, <3>1
    <3> QED
      BY ONLY <3>2, <3>3
  <2>2. CASE heap'[a].indexes[k].tree # q
    <3>1. k \in DOMAIN heap[a].indexes /\ heap'[a].indexes[k] = heap[a].indexes[k]
      BY <1>9, <2>2
    <3>2. l \in DOMAIN heap[b].indexes /\ heap'[b].indexes[l] = heap[b].indexes[l]
      BY <1>9, <2>2
    <3>3. heap[a].indexes[k].tree = heap[b].indexes[l].tree
      BY <3>1, <3>2
    <3> QED
      BY <3>1, <3>2, <3>3 DEF MemoryInv, TreesApart
  <2> QED
    BY <2>1, <2>2
<1>11. MemoryInv'
  <2>1. \A m \in DOMAIN heap' : \A k \in DOMAIN heap'[m].indexes :
          heap'[m].indexes[k].tree \in DOMAIN forest'
    BY <1>5, <1>6, <1>9
  <2>2. NamesApart'
    BY DEF MemoryInv, NamesApart
  <2> QED
    BY <1>2, <1>5, <1>6, <1>10, <2>1, <2>2 DEF MemoryInv
<1>12. OthersShown(n)
  <2> SUFFICES ASSUME NEW m \in TableNames \ {n}, NEW t, NEW f, Shown(m, t, f)
               PROVE  Shown(m, t, f)'
    BY DEF OthersShown
  <2>1. catalogue'[m] = catalogue[m] /\ catalogue[m] # p
    BY <1>2, <1>8 DEF MemoryInv, NamesApart
  <2>2. ASSUME catalogue[m] # none
        PROVE  /\ heap'[catalogue[m]] = heap[catalogue[m]]
               /\ \A k \in DOMAIN heap[catalogue[m]].indexes :
                    forest'[heap[catalogue[m]].indexes[k].tree]
                      = forest[heap[catalogue[m]].indexes[k].tree]
    <3>1. catalogue[m] \in DOMAIN heap
      BY <2>2, PointerShape
    <3> QED
      BY <1>5, <1>6, <2>1, <3>1, HeapShape
  <2> QED
    BY <2>1, <2>2, StillShown
<1>13. ASSUME NEW t, NEW f, Shown(n, t, f)
       PROVE  Shown(n, [t EXCEPT !.indexes = Append(@, PlainIndex(x))], f)'
  <2>1. t = Plain(heap[p]) /\ f = TreesOf(heap[p], forest)
    BY <1>8, <1>13, ShownAt
  <2>2. Plain(u) = [t EXCEPT !.indexes = Append(@, PlainIndex(x))]
    <3> DEFINE h == heap[p]
    <3>1. /\ h \in HeapTable /\ u.indexes = Append(h.indexes, x) /\ u.rows = h.rows
          /\ u.columns = h.columns /\ u.columnTypes = h.columnTypes
      BY <1>3, <1>8
    <3> HIDE DEF h
    <3>2. Plain(u) = [Plain(h) EXCEPT !.indexes = Append(@, PlainIndex(x))]
      BY <3>1, PlainWithIndex
    <3>3. t = Plain(h)
      BY <2>1 DEF h
    <3> QED
      BY <3>2, <3>3, Zenon
  <2>3. forest'[x.tree] = {} /\ \A k \in DOMAIN xs : forest'[xs[k].tree] = forest[xs[k].tree]
    BY <1>3, <1>5, <1>8
  <2>4. TreesOf(u, forest') = f
    <3> PICK h, fs, gs : h = heap[p] /\ fs = forest /\ gs = forest'
      OBVIOUS
    <3>1. GainsIndex(h, fs, u, gs)
      BY <1>3, <1>8, <2>3 DEF GainsIndex
    <3>2. TreesOf(u, gs) = TreesOf(h, fs)
      BY ONLY <3>1, TreesWithIndex
    <3> QED
      BY <2>1, <3>2
  <2>5. /\ TablesAt(catalogue', heap')[n] = Plain(u)
        /\ TreesAt(catalogue', heap', forest')[n] = TreesOf(u, forest')
    BY <1>6, <1>8 DEF TablesAt, TreesAt
  <2> QED
    BY <2>2, <2>4, <2>5 DEF Shown
<1> QED
  BY <1>6, <1>8, <1>11, <1>12, <1>13

\* InstallIndex
LEMMA IndexJoins ==
  ASSUME MemoryInv, NEW n \in TableNames, catalogue[n] # none, NEW y \in Index,
         forest' = Append(forest, {}),
         heap' = [heap EXCEPT ![catalogue[n]].indexes =
                    Append(@, WithTree(y, Len(forest) + 1))],
         UNCHANGED <<catalogue, accepted>>
  PROVE  /\ MemoryInv' /\ OthersShown(n)
         /\ heap'[catalogue[n]].indexes =
              Append(heap[catalogue[n]].indexes, WithTree(y, Len(forest) + 1))
         /\ \A t, f : Shown(n, t, f) =>
              Shown(n, [t EXCEPT !.indexes = Append(@, y)], f)'
<1>1. catalogue[n] \in DOMAIN heap
  BY PointerShape
<1> PICK p, h : p = catalogue[n] /\ h = heap[p]
  OBVIOUS
<1>2. h \in HeapTable /\ h.indexes \in Seq(HeapIndex) /\ heap \in Seq(HeapTable)
  BY <1>1, HeapShape DEF MemoryInv
<1>3. Len(forest) \in Nat
  BY DEF MemoryInv, IsSequence
<1> PICK x : x = WithTree(y, Len(forest) + 1)
  OBVIOUS
<1>4. x \in HeapIndex /\ x.tree = Len(forest) + 1 /\ PlainIndex(x) = y
  BY <1>3 DEF HeapIndex, Index, WithTree, PlainIndex
<1> PICK u : u = [h EXCEPT !.indexes = Append(@, x)]
  OBVIOUS
<1>5. heap' = [heap EXCEPT ![p] = u]
  BY <1>1, <1>2
<1>6. Append(h.indexes, x) \in Seq(HeapIndex)
  BY <1>2, <1>4
<1>7. /\ u.indexes = Append(h.indexes, x) /\ u.rows = h.rows
      /\ u.columns = h.columns /\ u.columnTypes = h.columnTypes
  BY <1>2 DEF HeapTable
<1>8. u \in HeapTable
  BY <1>2, <1>6 DEF HeapTable
<1>9. /\ MemoryInv' /\ OthersShown(n) /\ heap'[catalogue[n]] = u
      /\ \A t, f : Shown(n, t, f) =>
           Shown(n, [t EXCEPT !.indexes = Append(@, PlainIndex(x))], f)'
  <2>1. /\ u.indexes = Append(heap[catalogue[n]].indexes, x)
        /\ u.rows = heap[catalogue[n]].rows /\ u.columns = heap[catalogue[n]].columns
        /\ u.columnTypes = heap[catalogue[n]].columnTypes
        /\ heap' = [heap EXCEPT ![catalogue[n]] = u]
    BY <1>5, <1>7
  <2>2. /\ MemoryInv /\ n \in TableNames /\ catalogue[n] # none
        /\ forest' = Append(forest, {}) /\ UNCHANGED <<catalogue, accepted>>
    OBVIOUS
  <2> QED
    BY ONLY <1>4, <1>8, <2>1, <2>2, IndexPutIn
<1>10. heap'[catalogue[n]].indexes = Append(heap[catalogue[n]].indexes, x)
  BY <1>7, <1>9
<1> QED
  BY <1>4, <1>9, <1>10

\* A tree gets an entry.
LEMMA EntryAdded ==
  ASSUME MemoryInv, NEW n \in TableNames, catalogue[n] # none,
         NEW k \in DOMAIN heap[catalogue[n]].indexes, NEW e,
         forest' = [forest EXCEPT ![heap[catalogue[n]].indexes[k].tree] = @ \cup {e}],
         UNCHANGED <<catalogue, heap, accepted>>
  PROVE  /\ MemoryInv' /\ OthersShown(n)
         /\ \A t, f : Shown(n, t, f) =>
              Shown(n, t, [f EXCEPT ![t.indexes[k].name] = @ \cup {e}])'
<1> DEFINE p == catalogue[n]
           xs == heap[p].indexes
           q == xs[k].tree
<1>1. p \in DOMAIN heap
  BY PointerShape
<1>2. /\ heap[p] \in HeapTable /\ xs \in Seq(HeapIndex) /\ q \in DOMAIN forest
      /\ xs[k].name \in IndexNames
  BY <1>1, HeapShape DEF HeapIndex
<1>3. /\ DOMAIN forest' = DOMAIN forest /\ forest'[q] = forest[q] \cup {e}
      /\ \A m \in DOMAIN forest : m # q => forest'[m] = forest[m]
  BY <1>2
<1>4. IsSequence(forest')
  <2>1. forest \in Seq(ToSet(forest))
    BY DEF MemoryInv, IsSequence
  <2> DEFINE S == ToSet(forest) \cup {forest[q] \cup {e}}
  <2>2. forest \in Seq(S)
    BY <2>1
  <2>3. [forest EXCEPT ![q] = forest[q] \cup {e}] \in Seq(S)
    BY <1>2, <2>2
  <2> QED
    BY <2>3, TypedSequence
<1>5. MemoryInv'
  <2>1. DOMAIN forest' = DOMAIN forest
    BY <1>3
  <2>2. NamesApart' /\ TreesApart'
    <3>1. NamesApart /\ TreesApart
      BY DEF MemoryInv
    <3> QED
      BY ONLY <3>1, UNCHANGED <<catalogue, heap, accepted>> DEF NamesApart, TreesApart
  <2> QED
    BY ONLY MemoryInv, UNCHANGED <<catalogue, heap, accepted>>, <1>4, <2>1, <2>2 DEF MemoryInv
<1>6. OthersShown(n)
  <2> SUFFICES ASSUME NEW m \in TableNames \ {n}, NEW t, NEW f, Shown(m, t, f)
               PROVE  Shown(m, t, f)'
    BY DEF OthersShown
  <2>1. ASSUME catalogue[m] # none
        PROVE  \A l \in DOMAIN heap[catalogue[m]].indexes :
                 forest'[heap[catalogue[m]].indexes[l].tree]
                   = forest[heap[catalogue[m]].indexes[l].tree]
    <3>1. catalogue[m] # p
      BY <2>1 DEF MemoryInv, NamesApart
    <3>2. catalogue[m] \in DOMAIN heap
      BY <2>1, PointerShape
    <3>3. \A l \in DOMAIN heap[catalogue[m]].indexes :
            /\ heap[catalogue[m]].indexes[l].tree \in DOMAIN forest
            /\ heap[catalogue[m]].indexes[l].tree # q
      <4> PICK o : o = catalogue[m]
        OBVIOUS
      <4>1. ASSUME NEW l \in DOMAIN heap[o].indexes
            PROVE  heap[o].indexes[l].tree \in DOMAIN forest
        BY <3>2, HeapShape
      <4>2. ASSUME NEW l \in DOMAIN heap[o].indexes
            PROVE  heap[o].indexes[l].tree # q
        BY <1>1, <3>1, <3>2 DEF MemoryInv, TreesApart
      <4> QED
        BY <4>1, <4>2
    <3> QED
      BY <1>3, <3>3
  <2> QED
    BY <2>1, StillShown
<1>7. ASSUME NEW t, NEW f, Shown(n, t, f)
      PROVE  Shown(n, t, [f EXCEPT ![t.indexes[k].name] = @ \cup {e}])'
  <2>1. t = Plain(heap[p]) /\ f = TreesOf(heap[p], forest)
    BY <1>7, ShownAt
  <2>2. t.indexes[k].name = xs[k].name
    <3>1. Plain(heap[p]).indexes[k] = PlainIndex(xs[k])
      BY <1>2, PlainTable
    <3> QED
      BY <2>1, <3>1 DEF PlainIndex
  <2> DEFINE name == xs[k].name
             g == [f EXCEPT ![name] = @ \cup {e}]
             of(z, fs) == UNION {fs[xs[l].tree] : l \in {l \in DOMAIN xs : xs[l].name = z}}
  <2>3. /\ f = [z \in IndexNames |-> of(z, forest)]
        /\ TreesOf(heap[p], forest') = [z \in IndexNames |-> of(z, forest')]
    BY <2>1 DEF TreesOf
  <2>4. \A l \in DOMAIN xs : l # k => forest'[xs[l].tree] = forest[xs[l].tree]
    BY <1>1, <1>3, HeapShape DEF MemoryInv, TreesApart
  <2>5. of(name, forest') = of(name, forest) \cup {e}
    <3> PICK A, B, S :
          /\ A = [l \in DOMAIN xs |-> forest[xs[l].tree]]
          /\ B = [l \in DOMAIN xs |-> forest'[xs[l].tree]]
          /\ S = {l \in DOMAIN xs : xs[l].name = name}
      OBVIOUS
    <3>1. k \in S /\ \A l \in S : A[l] = forest[xs[l].tree] /\ B[l] = forest'[xs[l].tree]
      OBVIOUS
    <3> HIDE DEF of
    <3>2. /\ of(name, forest) = UNION {A[l] : l \in S}
          /\ of(name, forest') = UNION {B[l] : l \in S}
      BY ONLY S = {l \in DOMAIN xs : xs[l].name = name}, <3>1 DEF of
    <3>3. B[k] = A[k] \cup {e}
      BY <1>3, <3>1
    <3>4. \A l \in S : l # k => B[l] = A[l]
      BY <2>4, <3>1
    <3> QED
      BY ONLY <3>1, <3>2, <3>3, <3>4
  <2>6. \A z \in IndexNames : z # name => of(z, forest') = of(z, forest)
    BY <2>4
  <2>7. TreesOf(heap[p], forest') = g
    <3> HIDE DEF of
    <3> QED
      BY <1>2, <2>3, <2>5, <2>6
  <2>8. /\ TablesAt(catalogue', heap')[n] = t
        /\ TreesAt(catalogue', heap', forest')[n] = TreesOf(heap[p], forest')
    BY <2>1 DEF TablesAt, TreesAt
  <2> QED
    BY <2>2, <2>7, <2>8 DEF Shown
<1> QED
  BY <1>5, <1>6, <1>7

------------------------------------------------------------------------------
(***************************************************************************)
(* What is seen of the memory.                                             *)
(***************************************************************************)

\* The table of a name, and the one its pointer leads to
LEMMA NameShown ==
  ASSUME MemoryInv, NEW n \in TableNames, NEW t, NEW f, Shown(n, t, f)
  PROVE  /\ catalogue[n] = none <=> t = none
         /\ catalogue[n] = none => f = NoEntries
         /\ catalogue[n] # none =>
              LET h == heap[catalogue[n]]
              IN  /\ catalogue[n] \in DOMAIN heap /\ h \in HeapTable /\ t \in Table
                  /\ t = Plain(h) /\ f = TreesOf(h, forest)
                  /\ t.columns = h.columns /\ t.columnTypes = h.columnTypes
                  /\ t.rows = h.rows /\ DOMAIN t.indexes = DOMAIN h.indexes
                  /\ Len(t.indexes) = Len(h.indexes)
                  /\ \A k \in DOMAIN h.indexes : t.indexes[k] = PlainIndex(h.indexes[k])
<1>1. CASE catalogue[n] = none
  BY <1>1, ShownAt
<1>2. CASE catalogue[n] # none
  <2>1. catalogue[n] \in DOMAIN heap
    BY <1>2, PointerShape
  <2>2. heap[catalogue[n]] \in HeapTable
    BY <2>1, HeapShape
  <2>3. t = Plain(heap[catalogue[n]]) /\ f = TreesOf(heap[catalogue[n]], forest)
    BY <1>2, ShownAt
  <2> PICK h : h = heap[catalogue[n]]
    OBVIOUS
  <2>4. /\ Plain(h) \in Table /\ Plain(h) # none
        /\ Plain(h).columns = h.columns /\ Plain(h).columnTypes = h.columnTypes
        /\ Plain(h).rows = h.rows /\ DOMAIN Plain(h).indexes = DOMAIN h.indexes
        /\ Len(Plain(h).indexes) = Len(h.indexes)
        /\ \A k \in DOMAIN h.indexes : Plain(h).indexes[k] = PlainIndex(h.indexes[k])
    BY <2>2, PlainTable
  <2> QED
    BY <1>2, <2>1, <2>2, <2>3, <2>4
<1> QED
  BY <1>1, <1>2

\* The tree of an index of a table
LEMMA TreeShown ==
  ASSUME MemoryInv, NEW n \in TableNames, NEW t, NEW f, Shown(n, t, f), catalogue[n] # none,
         NEW k \in DOMAIN heap[catalogue[n]].indexes,
         \A i, j \in DOMAIN t.indexes : t.indexes[i].name = t.indexes[j].name => i = j
  PROVE  f[t.indexes[k].name] = forest[heap[catalogue[n]].indexes[k].tree]
<1> PICK h : h = heap[catalogue[n]]
  OBVIOUS
<1>1. /\ h \in HeapTable /\ f = TreesOf(h, forest) /\ DOMAIN t.indexes = DOMAIN h.indexes
      /\ \A i \in DOMAIN h.indexes : t.indexes[i] = PlainIndex(h.indexes[i])
  BY NameShown
<1>2. \A i \in DOMAIN h.indexes : t.indexes[i].name = h.indexes[i].name
  <2>1. \A x : PlainIndex(x).name = x.name
    BY DEF PlainIndex
  <2> QED
    BY ONLY <1>1, <2>1
<1>3. {i \in DOMAIN h.indexes : h.indexes[i].name = h.indexes[k].name} = {k}
  BY <1>1, <1>2
<1>4. h.indexes[k].name \in IndexNames
  <2>1. h.indexes \in Seq(HeapIndex)
    BY <1>1 DEF HeapTable
  <2>2. h.indexes[k] \in HeapIndex
    BY <2>1
  <2> QED
    BY <2>2 DEF HeapIndex
<1>5. f[h.indexes[k].name]
        = UNION {forest[h.indexes[i].tree] :
                   i \in {i \in DOMAIN h.indexes : h.indexes[i].name = h.indexes[k].name}}
  BY <1>1, <1>4 DEF TreesOf
<1>6. t.indexes[k].name = h.indexes[k].name
  BY <1>2
<1> HIDE DEF TreesOf
<1>7. f[t.indexes[k].name] = UNION {forest[h.indexes[i].tree] : i \in {k}}
  BY <1>3, <1>5, <1>6
<1> QED
  BY <1>7

\* Nothing that is shared has changed since the last statement ended.
LEMMA SameAsSettled ==
  ASSUME TypeOK, TreesMapped, \A n \in TableNames : ShownAsSettled(n),
         UNCHANGED <<catalogue, heap, forest>>,
         tables' = TablesAt(catalogue', heap'), trees' = TreesAt(catalogue', heap', forest')
  PROVE  UNCHANGED <<tables, trees>>
<1>1. \A n \in TableNames : tables'[n] = tables[n] /\ trees'[n] = trees[n]
  BY DEF ShownAsSettled, Shown
<1>2. /\ tables' = [n \in TableNames |-> tables'[n]]
      /\ trees' = [n \in TableNames |-> trees'[n]]
  BY DEF TablesAt, TreesAt
<1>3. /\ tables = [n \in TableNames |-> tables[n]]
      /\ trees = [n \in TableNames |-> trees[n]]
  BY DEF TypeOK, TreesMapped
<1> QED
  BY <1>1, <1>2, <1>3

\* The table of one name has changed.
LEMMA OneChanged ==
  ASSUME TypeOK, TreesMapped,
         NEW n \in TableNames, NEW t, NEW f, Shown(n, t, f)', OthersShown(n),
         \A q \in TableNames \ {n} : ShownAsSettled(q),
         tables' = TablesAt(catalogue', heap'), trees' = TreesAt(catalogue', heap', forest')
  PROVE  tables' = [tables EXCEPT ![n] = t] /\ trees' = [trees EXCEPT ![n] = f]
<1>1. tables'[n] = t /\ trees'[n] = f
  BY DEF Shown
<1>2. \A q \in TableNames \ {n} : tables'[q] = tables[q] /\ trees'[q] = trees[q]
  BY DEF OthersShown, ShownAsSettled, Shown
<1>3. /\ tables' = [q \in TableNames |-> tables'[q]]
      /\ trees' = [q \in TableNames |-> trees'[q]]
  BY DEF TablesAt, TreesAt
<1>4. /\ tables = [q \in TableNames |-> tables[q]]
      /\ trees = [q \in TableNames |-> trees[q]]
  BY DEF TypeOK, TreesMapped
<1> QED
  BY <1>1, <1>2, <1>3, <1>4

------------------------------------------------------------------------------
(***************************************************************************)
(* A statement adds one row at most, and one entry to each tree.           *)
(***************************************************************************)
LEMMA SizesAreNumbers ==
  ASSUME IndexInv, FiniteTrees, NEW n \in TableNames, Exists(n)
  PROVE  Len(tables[n].rows) \in Nat /\ \A x \in IndexNames : Cardinality(trees[n][x]) \in Nat
<1>1. tables[n].rows \in Seq(Row)
  BY TableShape DEF IndexInv
<1>2. \A x \in IndexNames : Cardinality(trees[n][x]) \in Nat
  BY FS_CardinalityType DEF FiniteTrees
<1> QED
  BY <1>1, <1>2

\* There may be more queries than that.
LEMMA SizedMore ==
  ASSUME IndexInv, FiniteTrees, NEW m \in Nat, Sized(m)
  PROVE  Sized(m + 1)
BY SizesAreNumbers DEF Sized

\* A tree that is filled has an entry for each row.
LEMMA FilledSize ==
  ASSUME NEW t, NEW exp, NEW m \in Nat
  PROVE  Cardinality(Filled(t, exp, m)) = m
<1> DEFINE T == Filled(t, exp, m)
           g == [i \in 1 .. m |-> TreeItem(IndexKey(t, t.rows[i], exp).value, i - 1, i - 1)]
<1>1. \A i \in 1 .. m : g[i].nth = i - 1
  BY DEF TreeItem
<1>2. g \in [1 .. m -> T] /\ \A y \in T : \E i \in 1 .. m : g[i] = y
  BY DEF Filled
<1>3. IsFiniteSet(1 .. m) /\ Cardinality(1 .. m) = m
  BY FS_Interval
<1> HIDE DEF g, T
<1>4. g \in Surjection(1 .. m, T)
  BY <1>2 DEF Surjection
<1>5. \A i, j \in 1 .. m : g[i] = g[j] => i = j
  <2> SUFFICES ASSUME NEW i \in 1 .. m, NEW j \in 1 .. m, g[i] = g[j] PROVE i = j
    OBVIOUS
  <2>1. i - 1 = j - 1
    BY <1>1
  <2> QED
    BY <2>1
<1>6. g \in Injection(1 .. m, T)
  BY <1>2, <1>5 DEF Injection, IsInjective
<1>7. Cardinality(T) = Cardinality(1 .. m)
  BY <1>3, <1>4, <1>6, FS_Surjection
<1> QED
  BY <1>3, <1>7 DEF T

\* No two indexes share a tree.
LEMMA AddedSize ==
  ASSUME IndexInv, FiniteTrees, NEW n \in TableNames, Exists(n), NEW row, NEW rowIndex,
         NEW m \in 0 .. Len(tables[n].indexes), NEW x \in IndexNames
  PROVE  Cardinality(Added(n, row, rowIndex, m)[x]) <= Cardinality(trees[n][x]) + 1
<1> DEFINE t == tables[n]
           some == {k \in 1 .. m : t.indexes[k].name = x}
           entry == [k \in some |-> TreeItem(IndexKey(t, row, t.indexes[k].exp).value,
                                             rowIndex, Cardinality(trees[n][x]))]
<1>1. Added(n, row, rowIndex, m)[x] = trees[n][x] \cup {entry[k] : k \in some}
  BY Zenon DEF Added
<1>2. IsFiniteSet(trees[n][x]) /\ Cardinality(trees[n][x]) \in Nat
  BY FS_CardinalityType DEF FiniteTrees
<1>3. \A k, l \in some : k = l
  <2>1. t.indexes \in Seq(Index)
    BY TableShape DEF IndexInv
  <2>2. \A k \in 1 .. m : k \in DOMAIN t.indexes
    BY <2>1
  <2> QED
    BY <2>2 DEF IndexInv, NamesDistinct
<1> HIDE DEF entry, some
<1> PICK a, b : a = Added(n, row, rowIndex, m)[x] /\ b = trees[n][x]
  OBVIOUS
<1>4. CASE some = {}
  <2>1. a = b
    BY <1>1, <1>4
  <2> QED
    BY <1>2, <2>1
<1>5. CASE some # {}
  <2>1. PICK k \in some : some = {k}
    BY <1>3, <1>5
  <2> PICK e : e = entry[k]
    OBVIOUS
  <2>2. a = b \cup {e}
    BY <1>1, <2>1
  <2>3. IsFiniteSet(b)
    BY <1>2
  <2>4. Cardinality(b \cup {e}) = IF e \in b THEN Cardinality(b) ELSE Cardinality(b) + 1
    BY <2>3, FS_AddElement
  <2> QED
    BY <1>2, <2>2, <2>4
<1> QED
  BY <1>4, <1>5

\* The table of one name is replaced.
LEMMA ReplacedSized ==
  ASSUME IndexInv, FiniteTrees, NEW m \in Nat, Sized(m), NEW n \in TableNames,
         NEW t, NEW f, tables' = [tables EXCEPT ![n] = t], trees' = [trees EXCEPT ![n] = f],
         t # none => Len(t.rows) <= m + 1 /\ \A x \in IndexNames : Cardinality(f[x]) <= m + 1
  PROVE  Sized(m + 1)'
<1>1. n \in DOMAIN tables /\ n \in DOMAIN trees
      /\ DOMAIN tables = TableNames /\ DOMAIN trees = TableNames
  BY DEF IndexInv, TypeOK
<1>2. Sized(m + 1)
  BY SizedMore
<1>3. tables'[n] = t /\ trees'[n] = f
  BY <1>1
<1>4. \A q \in TableNames : q # n => tables'[q] = tables[q] /\ trees'[q] = trees[q]
  BY <1>1
<1>5. ASSUME NEW q \in TableNames, tables'[q] # none
      PROVE  /\ Len(tables'[q].rows) <= m + 1
             /\ \A x \in IndexNames : Cardinality(trees'[q][x]) <= m + 1
  BY <1>2, <1>3, <1>4, <1>5 DEF Sized, Exists
<1> QED
  BY <1>5 DEF Sized, Exists

\* A statement that changes nothing that is stored
LEMMA UnchangedSized ==
  ASSUME IndexInv, FiniteTrees, NEW m \in Nat, Sized(m), UNCHANGED <<tables, trees>>
  PROVE  Sized(m + 1)'
<1>1. Sized(m + 1)
  BY SizedMore
<1> QED
  BY <1>1 DEF Sized, Exists

\* CREATE INDEX
LEMMA CreateIndexSized ==
  ASSUME IndexInv, FiniteTrees, NEW m \in Nat, Sized(m), NEW s \in CreateIndexes,
         CreateIndex(s)
  PROVE  Sized(m + 1)'
<1> PICK n, t : n = s.table /\ t = tables[n]
  OBVIOUS
<1>1. n \in TableNames /\ s.name \in IndexNames
  BY StatementsAssumption
<1>2. ASSUME NEW i \in Nat, Exists(n), i <= Len(t.rows),
             tables' = [tables EXCEPT ![n].indexes = Append(@, NewIndex(s))],
             trees' = [trees EXCEPT ![n][s.name] = Filled(t, s.exp, i)]
      PROVE  Sized(m + 1)'
  <2> PICK u, f : /\ u = [t EXCEPT !.indexes = Append(@, NewIndex(s))]
                  /\ f = [trees[n] EXCEPT ![s.name] = Filled(t, s.exp, i)]
    OBVIOUS
  <2>1. tables' = [tables EXCEPT ![n] = u] /\ trees' = [trees EXCEPT ![n] = f]
    BY <1>2
  <2>2. t \in Table /\ u.rows = t.rows
    BY <1>1, <1>2, TableShape DEF IndexInv, Table
  <2>3. Cardinality(Filled(t, s.exp, i)) = i
    BY FilledSize
  <2>4. \A x \in IndexNames : f[x] = IF x = s.name THEN Filled(t, s.exp, i) ELSE trees[n][x]
    BY <1>1 DEF IndexInv, TypeOK
  <2>5. Len(t.rows) <= m /\ \A x \in IndexNames : Cardinality(trees[n][x]) <= m
    BY <1>1, <1>2 DEF Sized
  <2>6. Len(t.rows) \in Nat /\ \A x \in IndexNames : Cardinality(trees[n][x]) \in Nat
    BY <1>1, <1>2, SizesAreNumbers
  <2>7. Len(u.rows) <= m + 1 /\ \A x \in IndexNames : Cardinality(f[x]) <= m + 1
    BY <1>2, <2>2, <2>3, <2>4, <2>5, <2>6
  <2> QED
    BY <1>1, <2>1, <2>7, ReplacedSized
<1>3. ASSUME Exists(n)
      PROVE  Len(t.rows) \in Nat /\ BadRows(t, s) \in SUBSET (1 .. Len(t.rows))
  <2>1. t.rows \in Seq(Row)
    BY <1>1, <1>3, TableShape DEF IndexInv
  <2> QED
    BY <2>1 DEF BadRows
<1>4. ASSUME Exists(n), BadRows(t, s) # {}
      PROVE  Min(BadRows(t, s)) - 1 \in Nat /\ Min(BadRows(t, s)) - 1 <= Len(t.rows)
  <2>1. Min(BadRows(t, s)) \in BadRows(t, s)
    BY <1>3, <1>4, LeastNatural
  <2>2. Min(BadRows(t, s)) \in 1 .. Len(t.rows)
    BY <1>3, <1>4, <2>1
  <2> QED
    BY <1>3, <1>4, <2>2
<1>5. \/ UNCHANGED <<tables, trees>>
      \/ /\ Exists(n) /\ BadRows(t, s) # {}
         /\ tables' = [tables EXCEPT ![n].indexes = Append(@, NewIndex(s))]
         /\ trees' = [trees EXCEPT ![n][s.name] = Filled(t, s.exp, Min(BadRows(t, s)) - 1)]
      \/ /\ Exists(n)
         /\ tables' = [tables EXCEPT ![n].indexes = Append(@, NewIndex(s))]
         /\ trees' = [trees EXCEPT ![n][s.name] = Filled(t, s.exp, Len(t.rows))]
  BY Zenon DEF CreateIndex, Refuse
<1>6. CASE UNCHANGED <<tables, trees>>
  BY <1>6, UnchangedSized
<1>7. ASSUME Exists(n), BadRows(t, s) # {},
             tables' = [tables EXCEPT ![n].indexes = Append(@, NewIndex(s))],
             trees' = [trees EXCEPT ![n][s.name] = Filled(t, s.exp, Min(BadRows(t, s)) - 1)]
      PROVE  Sized(m + 1)'
  BY <1>2, <1>4, <1>7
<1>8. ASSUME Exists(n),
             tables' = [tables EXCEPT ![n].indexes = Append(@, NewIndex(s))],
             trees' = [trees EXCEPT ![n][s.name] = Filled(t, s.exp, Len(t.rows))]
      PROVE  Sized(m + 1)'
  <2>1. Len(t.rows) \in Nat /\ Len(t.rows) <= Len(t.rows)
    BY <1>3, <1>8
  <2> QED
    BY <1>2, <1>8, <2>1
<1> QED
  BY <1>5, <1>6, <1>7, <1>8

\* INSERT
LEMMA InsertSized ==
  ASSUME IndexInv, FiniteTrees, NEW m \in Nat, Sized(m), NEW s \in Inserts, Insert(s)
  PROVE  Sized(m + 1)'
<1> PICK n, t, row : n = s.table /\ t = tables[n] /\ row = RowOf(s.values)
  OBVIOUS
<1>1. n \in TableNames /\ row \in Row
  BY StatementsAssumption DEF Row
<1>2. ASSUME Exists(n)
      PROVE  /\ Len(t.indexes) \in Nat /\ t.rows \in Seq(Row) /\ t \in Table
             /\ Refusals(n, row) \in SUBSET (1 .. Len(t.indexes))
  <2>1. t.indexes \in Seq(Index) /\ t.rows \in Seq(Row) /\ t \in Table
    BY <1>1, <1>2, TableShape DEF IndexInv
  <2> QED
    BY <2>1 DEF Refusals
<1>3. ASSUME NEW k \in 0 .. Len(t.indexes), NEW rows \in Seq(Row), Exists(n),
             Len(rows) <= Len(t.rows) + 1,
             tables' = [tables EXCEPT ![n].rows = rows],
             trees' = [trees EXCEPT ![n] = Added(n, row, Len(t.rows), k)]
      PROVE  Sized(m + 1)'
  <2> PICK u, f : /\ u = [t EXCEPT !.rows = rows]
                  /\ f = Added(n, row, Len(t.rows), k)
    OBVIOUS
  <2>1. tables' = [tables EXCEPT ![n] = u] /\ trees' = [trees EXCEPT ![n] = f]
    BY <1>3
  <2>2. u.rows = rows
    BY <1>2, <1>3 DEF Table
  <2>3. Len(t.rows) <= m /\ \A x \in IndexNames : Cardinality(trees[n][x]) <= m
    BY <1>1, <1>3 DEF Sized
  <2>4. Len(t.rows) \in Nat /\ \A x \in IndexNames : Cardinality(trees[n][x]) \in Nat
    BY <1>1, <1>3, SizesAreNumbers
  <2>5. ASSUME NEW x \in IndexNames PROVE Cardinality(f[x]) <= m + 1
    <3>1. Cardinality(f[x]) <= Cardinality(trees[n][x]) + 1
      BY <1>1, <1>3, AddedSize
    <3>2. IsFiniteSet(f[x])
      BY <1>1, <1>3, AddedFinite
    <3>3. Cardinality(f[x]) \in Nat
      BY <3>2, FS_CardinalityType
    <3> QED
      BY <2>3, <2>4, <3>1, <3>3
  <2>6. Len(u.rows) <= m + 1
    BY <1>3, <2>2, <2>3, <2>4
  <2> QED
    BY <1>1, <2>1, <2>5, <2>6, ReplacedSized
<1>4. ASSUME Exists(n), Refusals(n, row) # {}
      PROVE  Min(Refusals(n, row)) - 1 \in 0 .. Len(t.indexes)
  <2>1. Min(Refusals(n, row)) \in Refusals(n, row)
    BY <1>2, <1>4, LeastNatural
  <2>2. Min(Refusals(n, row)) \in 1 .. Len(t.indexes)
    BY <1>2, <1>4, <2>1
  <2> QED
    BY <1>2, <1>4, <2>2
<1>5. ASSUME Exists(n)
      PROVE  /\ Append(t.rows, row) \in Seq(Row) /\ DropRow(Append(t.rows, row)) \in Seq(Row)
             /\ Len(Append(t.rows, row)) <= Len(t.rows) + 1
             /\ Len(DropRow(Append(t.rows, row))) <= Len(t.rows) + 1
  BY <1>1, <1>2, <1>5 DEF DropRow
<1>6. \/ UNCHANGED <<tables, trees>>
      \/ /\ Exists(n) /\ Refusals(n, row) # {}
         /\ tables' = [tables EXCEPT ![n].rows = DropRow(Append(@, row))]
         /\ trees' = [trees EXCEPT ![n] = Added(n, row, Len(t.rows), Min(Refusals(n, row)) - 1)]
      \/ /\ Exists(n)
         /\ tables' = [tables EXCEPT ![n].rows = Append(@, row)]
         /\ trees' = [trees EXCEPT ![n] = Added(n, row, Len(t.rows), Len(t.indexes))]
  BY Zenon DEF Insert, Refuse
<1>7. \A r : /\ tables' = [tables EXCEPT ![n].rows = DropRow(Append(@, row))]
                  => tables' = [tables EXCEPT ![n].rows = DropRow(Append(t.rows, row))]
             /\ tables' = [tables EXCEPT ![n].rows = Append(@, row)]
                  => tables' = [tables EXCEPT ![n].rows = Append(t.rows, row)]
  OBVIOUS
<1>8. ASSUME Exists(n) PROVE Len(t.indexes) \in 0 .. Len(t.indexes)
  BY <1>2, <1>8
<1>9. CASE UNCHANGED <<tables, trees>>
  BY <1>9, UnchangedSized
<1>10. CASE /\ Exists(n) /\ Refusals(n, row) # {}
            /\ tables' = [tables EXCEPT ![n].rows = DropRow(Append(@, row))]
            /\ trees' = [trees EXCEPT ![n] =
                           Added(n, row, Len(t.rows), Min(Refusals(n, row)) - 1)]
  BY <1>3, <1>4, <1>5, <1>7, <1>10
<1>11. CASE /\ Exists(n)
            /\ tables' = [tables EXCEPT ![n].rows = Append(@, row)]
            /\ trees' = [trees EXCEPT ![n] = Added(n, row, Len(t.rows), Len(t.indexes))]
  BY <1>3, <1>5, <1>7, <1>8, <1>11
<1> QED
  BY <1>6, <1>9, <1>10, <1>11

\* Any statement
LEMMA StepSized ==
  ASSUME IndexInv, FiniteTrees, NEW m \in Nat, Sized(m), [Next]_vars
  PROVE  Sized(m + 1)'
<1>1. ASSUME NEW n \in TableNames, NEW t, tables' = [tables EXCEPT ![n] = t],
             t # none => t.rows = <<>>,
             trees' = [trees EXCEPT ![n] = [x \in IndexNames |-> {}]]
      PROVE  Sized(m + 1)'
  <2> PICK f : f = [x \in IndexNames |-> {}]
    OBVIOUS
  <2>1. \A x \in IndexNames : Cardinality(f[x]) = 0
    BY FS_EmptySet
  <2>2. t # none => Len(t.rows) <= m + 1 /\ \A x \in IndexNames : Cardinality(f[x]) <= m + 1
    BY <1>1, <2>1
  <2> QED
    BY <1>1, <2>2, ReplacedSized
<1>2. ASSUME NEW s \in CreateTables, CreateTable(s) PROVE Sized(m + 1)'
  <2> PICK n, t : n = s.table /\ t = NewTable(n, s.cols)
    OBVIOUS
  <2>1. n \in TableNames /\ t.rows = <<>>
    BY StatementsAssumption DEF NewTable
  <2>2. \/ UNCHANGED <<tables, trees>>
        \/ /\ tables' = [tables EXCEPT ![n] = t]
           /\ trees' = [trees EXCEPT ![n] = [x \in IndexNames |-> {}]]
    BY <1>2, Zenon DEF CreateTable, Refuse
  <2> QED
    BY <1>1, <2>1, <2>2, UnchangedSized
<1>3. ASSUME NEW s \in DropTables, DropTable(s) PROVE Sized(m + 1)'
  <2>1. s.table \in TableNames
    BY StatementsAssumption
  <2>2. \/ UNCHANGED <<tables, trees>>
        \/ /\ tables' = [tables EXCEPT ![s.table] = none]
           /\ trees' = [trees EXCEPT ![s.table] = [x \in IndexNames |-> {}]]
    BY <1>3, Zenon DEF DropTable, Refuse
  <2> QED
    BY <1>1, <2>1, <2>2, UnchangedSized
<1>4. ASSUME NEW s \in Selects, Select(s) PROVE Sized(m + 1)'
  BY <1>4, UnchangedSized DEF Select
<1>5. CASE UNCHANGED vars
  BY <1>5, UnchangedSized DEF vars
<1> QED
  BY <1>2, <1>3, <1>4, <1>5, CreateIndexSized, InsertSized DEF Next

------------------------------------------------------------------------------
(***************************************************************************)
(* What a step of a method comes to.                                       *)
(***************************************************************************)

\* No other connection is in use.
LEMMA OthersIdle ==
  ASSUME ConnsInv, OneBusy, NEW c \in Conns, conns[c].pc # "idle", NEW r, Goto(c, r)
  PROVE  /\ conns'[c] = r /\ DOMAIN conns' = Conns
         /\ \A d \in Conns \ {c} : conns'[d] = conns[d] /\ conns[d].pc = "idle"
         /\ OneBusy'
<1>1. conns'[c] = r /\ DOMAIN conns' = Conns
      /\ \A d \in Conns \ {c} : conns'[d] = conns[d]
  BY DEF ConnsInv, Goto
<1>2. \A d \in Conns \ {c} : conns[d].pc = "idle"
  BY DEF OneBusy
<1> QED
  BY <1>1, <1>2 DEF OneBusy

\* A statement being executed is of one of the kinds, and the bound on the
\* queries holds for those before it.
LEMMA Executed ==
  ASSUME SerialInv, NEW c \in Conns, Alive, Busy(c)
  PROVE  /\ conns[c].call \in Statements /\ conns[c].pc # "idle" /\ Progress(c)
         /\ Ends = asked - 1 /\ Ends \in Nat /\ IndexInv /\ FiniteTrees /\ TreesMapped
         /\ Sized(Ends) /\ TypeOK /\ MemoryInv /\ ConnsInv /\ OneBusy /\ Running
BY DEF SerialInv, BackendInv, IndexInv, Busy, Ends, Running

\* The statement goes on.
LEMMA Working ==
  ASSUME SerialInv, NEW c \in Conns, Alive, Busy(c),
         NEW r, Goto(c, r), r.pc \notin {"idle", "rows"}, r.call = conns[c].call,
         UNCHANGED <<settled, process, asked>>,
         ConnsInv', MemoryInv', Progress(c)'
  PROVE  SerialInv' /\ [Next]_vars
<1>1. /\ conns'[c] = r /\ OneBusy'
      /\ \A d \in Conns \ {c} : conns'[d].pc = "idle"
  BY Executed, OthersIdle
<1>2. UNCHANGED vars
  BY DEF settled
<1>3. UNCHANGED <<tables, trees, granted, reply>>
  BY <1>2 DEF vars
<1>4. Busy(c)' /\ \A d \in Conns : Busy(d)' => d = c
  BY <1>1 DEF Busy
<1>5. Ends' = Ends
  BY <1>4 DEF Ends
<1>6. IndexInv' /\ FiniteTrees' /\ TreesMapped'
  BY <1>2, <1>3, Executed, NextInv, StepFinite DEF TreesMapped
<1>7. Sized(Ends)'
  BY <1>3, <1>5, Executed DEF Sized, Exists
<1>8. conns'[c].call \in Statements /\ asked' > 0
  BY <1>1, Executed DEF SerialInv
<1>9. ~Quiet'
  BY <1>4 DEF Quiet, Busy
<1>10. reply'.err # Panic /\ asked' \in Nat /\ asked' <= MaxQueries
  BY <1>3 DEF SerialInv
<1> QED
  BY <1>1, <1>2, <1>4, <1>6, <1>7, <1>8, <1>9, <1>10 DEF SerialInv, BackendInv

\* What names show is what the statement that ends leaves behind.
LEMMA SettledShown ==
  ASSUME tables' = TablesAt(catalogue', heap'), trees' = TreesAt(catalogue', heap', forest')
  PROVE  (\A n \in TableNames : ShownAsSettled(n)') /\ TreesMapped'
<1>1. trees' = [n \in TableNames |-> trees'[n]]
  BY DEF TreesAt
<1> QED
  BY <1>1 DEF ShownAsSettled, Shown, TreesMapped

\* The statement ends.
LEMMA Settling ==
  ASSUME SerialInv, NEW c \in Conns, Alive, Busy(c),
         NEW r, Goto(c, r), r.pc \in {"idle", "rows"},
         NEW answer, Settle(c, answer), answer.err # Panic,
         UNCHANGED <<process, asked>>,
         ConnsInv', MemoryInv', AllBalanced', Next
  PROVE  SerialInv' /\ [Next]_vars
<1>1. /\ conns'[c] = r /\ OneBusy'
      /\ \A d \in Conns \ {c} : conns'[d].pc = "idle"
  BY Executed, OthersIdle
<1>2. \A d \in Conns : ~Busy(d)'
  BY <1>1 DEF Busy
<1>3. Ends' = Ends + 1
  BY <1>2, Executed DEF Ends, SerialInv
<1>4. IndexInv' /\ FiniteTrees' /\ Sized(Ends)'
  <2> PICK m \in Nat : m = Ends
    BY Executed
  <2>1. Sized(m + 1)'
    BY Executed, StepSized
  <2>2. Sized(Ends)'
    BY <1>3, <2>1 DEF Sized
  <2>3. IndexInv' /\ FiniteTrees'
    BY Executed, NextInv, StepFinite
  <2> QED
    BY <2>2, <2>3
<1>5. (\A n \in TableNames : ShownAsSettled(n)') /\ TreesMapped'
  BY SettledShown DEF Settle
<1>6. Settled'
  BY <1>5 DEF Settled
<1>7. reply'.err # Panic /\ asked' \in Nat /\ asked' <= MaxQueries
  BY DEF SerialInv, Settle
<1> QED
  BY <1>1, <1>2, <1>4, <1>5, <1>6, <1>7 DEF SerialInv, BackendInv

\* The statement panics, and the process with it.
LEMMA Crashing ==
  ASSUME SerialInv, NEW c \in Conns, Alive, Busy(c), Crash(c), UNCHANGED asked, Next
  PROVE  SerialInv' /\ [Next]_vars
<1>1. UNCHANGED <<tables, trees, granted, catalogue, heap, forest, conns, accepted>>
  BY DEF Crash
<1>2. OneBusy' /\ ConnsInv'
  BY <1>1, Executed DEF OneBusy, ConnsInv
<1>3. MemoryInv'
  BY <1>1, Executed DEF MemoryInv, NamesApart, TreesApart
<1>4. Ends' = Ends
  BY <1>1 DEF Ends, Busy
<1>5. IndexInv' /\ FiniteTrees' /\ TreesMapped'
  BY <1>1, Executed, NextInv, StepFinite DEF TreesMapped
<1>6. Sized(Ends)'
  BY <1>1, <1>4, Executed DEF Sized, Exists
<1>7. ~Alive' /\ asked' \in Nat /\ asked' <= MaxQueries
  BY DEF Crash, Alive, SerialInv
<1> QED
  BY <1>2, <1>3, <1>5, <1>6, <1>7 DEF SerialInv, BackendInv

\* Steps that leave what is shared alone
LEMMA MemoryUnmoved ==
  ASSUME MemoryInv, UNCHANGED <<catalogue, heap, forest, accepted>>
  PROVE  /\ MemoryInv' /\ (AllBalanced => AllBalanced')
         /\ \A n \in TableNames : \A t, f : Shown(n, t, f) => Shown(n, t, f)'
BY DEF MemoryInv, NamesApart, TreesApart, AllBalanced, Balanced, Shown

\* A step that changes nothing that has been settled leaves it settled.
LEMMA StillSettled ==
  ASSUME MemoryInv, Settled, UNCHANGED <<settled, catalogue, heap, forest, accepted>>
  PROVE  MemoryInv' /\ Settled'
<1>1. UNCHANGED <<tables, trees>>
  BY DEF settled, vars
<1> QED
  BY <1>1, MemoryUnmoved DEF Settled, ShownAsSettled, Shown

\* A step that only reads what is shared
LEMMA Reading ==
  ASSUME SerialInv, NEW c \in Conns, Alive, Busy(c), NEW r, Goto(c, r),
         UNCHANGED <<catalogue, heap, forest, process, asked, accepted, settled>>
  PROVE  /\ conns'[c] = r /\ UNCHANGED <<tables, trees>>
         /\ (Settled => Settled') /\ (AllBalanced => AllBalanced')
         /\ \A n \in TableNames : \A t, f :
              Holds(c, n, t, f) /\ r.table = conns[c].table => Holds(c, n, t, f)'
         /\ ConnsInv' /\ r.pc \notin {"idle", "rows"} /\ r.call = conns[c].call /\ Progress(c)'
              => SerialInv' /\ [Next]_vars
<1>1. MemoryInv /\ ConnsInv /\ OneBusy /\ conns[c].pc # "idle"
  BY Executed
<1>2. conns'[c] = r
  BY <1>1, OthersIdle
<1>3. UNCHANGED <<tables, trees>>
  BY DEF settled, vars
<1>4. /\ MemoryInv' /\ (AllBalanced => AllBalanced')
      /\ \A n \in TableNames : \A t, f : Shown(n, t, f) => Shown(n, t, f)'
  BY <1>1, MemoryUnmoved
<1>5. Settled => Settled'
  BY <1>1, StillSettled
<1>6. ASSUME NEW n \in TableNames, NEW t, NEW f,
             Holds(c, n, t, f), r.table = conns[c].table
      PROVE  Holds(c, n, t, f)'
  BY <1>2, <1>3, <1>4, <1>6 DEF Holds, ShownAsSettled
<1>7. ASSUME ConnsInv', r.pc \notin {"idle", "rows"}, r.call = conns[c].call, Progress(c)'
      PROVE  SerialInv' /\ [Next]_vars
  BY <1>4, <1>7, Working
<1> QED
  BY <1>2, <1>3, <1>4, <1>5, <1>6, <1>7

\* A statement is refused before it has done anything.
LEMMA Refusing ==
  ASSUME SerialInv, NEW c \in Conns, Alive, Busy(c), Settled,
         NEW err, err \notin {NoError, Panic}, Return(c, err),
         UNCHANGED <<catalogue, heap, forest, accepted, process, asked>>, ConnsInv',
         Refuse(Stmt(c), err) => Next
  PROVE  SerialInv' /\ [Next]_vars
<1>1. MemoryInv /\ TypeOK /\ TreesMapped
  BY Executed
<1>2. MemoryInv' /\ AllBalanced'
  BY <1>1, MemoryUnmoved DEF Settled
<1>3. Goto(c, Idle) /\ Settle(c, Reply(Stmt(c), err)) /\ Reply(Stmt(c), err).err = err
  BY DEF Return, Reply
<1>4. UNCHANGED <<tables, trees>>
  BY <1>1, <1>3, SameAsSettled DEF Settled, Settle
<1>5. granted' = granted
  BY <1>3 DEF Settle, Granted
<1>6. Next
  BY <1>3, <1>4, <1>5 DEF Refuse, Settle
<1>7. Idle.pc = "idle"
  BY DEF Idle
<1> QED
  BY <1>2, <1>3, <1>6, <1>7, Settling

\* Where the program counter is tells how far the method has come.
LEMMA Whereabouts ==
  ASSUME NEW c, Progress(c)
  PROVE  LET pc == conns[c].pc
         IN  /\ pc = "execute" => Settled
             /\ pc = "enter" => Entering(c)
             /\ pc = "remove" => Removing(c)
             /\ pc = "columns" => AddingColumns(c)
             /\ pc = "type" => AddingType(c)
             /\ pc = "names" => InstallingKey(c) \/ NamingIndex(c)
             /\ pc \in {"install", "join"} => InstallingKey(c) \/ InstallingIndex(c)
             /\ pc = "fill" => KeyInstalled(c) \/ Filling(c)
             /\ pc = "add" => KeyInstalled(c) \/ Filling(c) \/ AddingRow(c)
             /\ pc \in {"key", "look", "entry"} => Filling(c) \/ AddingRow(c)
             /\ pc = "values" => Valuing(c)
             /\ pc \in {"append", "store"} => AppendingRow(c)
             /\ pc \in {"indexes", "drop", "reslice"} => AddingRow(c)
             /\ pc = "narrow" => Narrowing(c)
             /\ pc = "scan" => Scanning(c)
             /\ pc # "undo"
<1>1. Executing(c) => conns[c].pc = "execute" /\ Settled
  BY Zenon DEF Executing
<1>2. /\ Entering(c) => conns[c].pc = "enter"
      /\ Removing(c) => conns[c].pc = "remove"
  BY Zenon DEF Entering, Removing
<1>3. /\ AddingColumns(c) => conns[c].pc = "columns"
      /\ AddingType(c) => conns[c].pc = "type"
  BY Zenon DEF AddingColumns, AddingType
<1>4. /\ InstallingKey(c) => conns[c].pc \in {"names", "install", "join"}
      /\ KeyInstalled(c) => conns[c].pc \in {"fill", "add"}
  BY Zenon DEF InstallingKey, KeyInstalled
<1>5. /\ NamingIndex(c) => conns[c].pc = "names"
      /\ InstallingIndex(c) => conns[c].pc \in {"install", "join"}
  BY Zenon DEF NamingIndex, InstallingIndex
<1>6. Filling(c) => conns[c].pc \in {"fill", "add", "key", "look", "entry"}
  BY Zenon DEF Filling, AmongRows, AmidRow
<1>7. /\ Valuing(c) => conns[c].pc = "values"
      /\ AppendingRow(c) => conns[c].pc \in {"append", "store"}
  BY Zenon DEF Valuing, AppendingRow
<1>8. AddingRow(c) =>
        conns[c].pc \in {"indexes", "add", "key", "look", "entry", "drop", "reslice"}
  BY Zenon DEF AddingRow, AmidRow
<1>9. /\ Narrowing(c) => conns[c].pc = "narrow"
      /\ Scanning(c) => conns[c].pc = "scan"
  BY Zenon DEF Narrowing, Scanning, AmongRead
<1> QED
  BY <1>1, <1>2, <1>3, <1>4, <1>5, <1>6, <1>7, <1>8, <1>9 DEF Progress

\* A connection that takes a step inside the driver executes a statement.
LEMMA Underway ==
  ASSUME SerialInv, NEW c \in Conns, NEW pc, Local(c, pc), pc \notin {"idle", "rows"}
  PROVE  /\ Alive /\ Busy(c) /\ conns[c].pc = pc /\ Progress(c)
         /\ conns[c].call \in Statements /\ DOMAIN conns[c] = DOMAIN Idle
BY DEF SerialInv, Local, Busy, ConnsInv

\* What a step is called for, when a method begins
LEMMA Called ==
  ASSUME SerialInv, NEW c \in Conns, NEW kind, Executes(c, kind)
  PROVE  /\ Alive /\ Busy(c) /\ Settled /\ conns[c].call.kind = kind
         /\ kind = "create table" => Stmt(c) \in CreateTables
         /\ kind = "drop table" => Stmt(c) \in DropTables
         /\ kind = "create index" => Stmt(c) \in CreateIndexes
         /\ kind = "insert" => Stmt(c) \in Inserts
         /\ kind = "select" => Stmt(c) \in Selects
<1>1. Local(c, "execute") /\ conns[c].call.kind = kind
  BY DEF Executes
<1>2. Alive /\ Busy(c) /\ conns[c].pc = "execute" /\ Progress(c) /\ conns[c].call \in Statements
  BY <1>1, Underway
<1>3. Settled
  BY <1>2, Whereabouts
<1>4. LET st == conns[c].call
      IN  /\ st.kind = "create table" => st.stmt \in CreateTables
          /\ st.kind = "drop table" => st.stmt \in DropTables
          /\ st.kind = "create index" => st.stmt \in CreateIndexes
          /\ st.kind = "insert" => st.stmt \in Inserts
          /\ st.kind = "select" => st.stmt \in Selects
  BY <1>2, StatementShape
<1> QED
  BY <1>1, <1>2, <1>3, <1>4 DEF Stmt

\* The local variables stay.
LEMMA ConnsKept ==
  ASSUME SerialInv, NEW c \in Conns, Run(c)
  PROVE  ConnsInv'
BY RunInv DEF SerialInv

------------------------------------------------------------------------------
(***************************************************************************)
(* CreateTable.                                                            *)
(***************************************************************************)

\* A step has changed the table a connection holds, and no other.
LEMMA HoldsAfter ==
  ASSUME NEW c, NEW n \in TableNames, NEW t, NEW f,
         conns'[c].table = catalogue'[n], catalogue'[n] # none,
         Shown(n, t, f)', OthersShown(n),
         \A q \in TableNames \ {n} : ShownAsSettled(q), UNCHANGED <<tables, trees>>
  PROVE  Holds(c, n, t, f)'
BY DEF Holds, OthersShown, ShownAsSettled, Shown

\* The rows and the accepted rows of every table stay.
LEMMA BalanceKept ==
  ASSUME AllBalanced, DOMAIN heap' = DOMAIN heap, UNCHANGED accepted,
         \A q \in DOMAIN heap : heap'[q].rows = heap[q].rows
  PROVE  AllBalanced'
BY DEF AllBalanced, Balanced

\* The first columns have been added.
LEMMA ColumnsAdded ==
  ASSUME NEW c, NEW s, NEW i \in 0 .. Len(s.cols), NEW t, t = FirstColumns(s.cols, i),
         conns'[c].pc = "columns", Stmt(c)' = s, conns'[c].call.kind = "create table",
         tables'[s.table] = none, trees'[s.table] = NoEntries, AllBalanced',
         conns'[c].todo = SubSeq(s.cols, i + 1, Len(s.cols)),
         \A j \in 1 .. i : ColumnError(s.cols, j) = NoError,
         Holds(c, s.table, t, NoEntries)'
  PROVE  AddingColumns(c)'
BY DEF AddingColumns, Creating

\* CheckName
LEMMA CheckNameStep ==
  ASSUME SerialInv, NEW c \in Conns, CheckName(c)
  PROVE  SerialInv' /\ [Next]_vars
<1>1. /\ Executes(c, "create table")
      /\ UNCHANGED <<catalogue, heap, forest, accepted, process, asked>>
  BY DEF CheckName
<1>2. /\ Alive /\ Busy(c) /\ Settled /\ conns[c].call.kind = "create table"
      /\ Stmt(c) \in CreateTables
  BY <1>1, Called
<1> PICK s, n : s = Stmt(c) /\ n = s.table
  OBVIOUS
<1>3. n \in TableNames /\ MemoryInv /\ TypeOK /\ Running /\ ConnsInv /\ ConnsInv'
  BY <1>2, StatementsAssumption, Executed, ConnsKept DEF Run
<1>4. CASE Pointer(c) # none
  <2>1. Return(c, "ErrTableAlreadyExists")
    BY <1>4 DEF CheckName
  <2>2. Exists(n)
    <3>1. Shown(n, tables[n], trees[n])
      BY <1>2, <1>3 DEF Settled, ShownAsSettled
    <3> QED
      BY <1>3, <1>4, <3>1, NameShown DEF Exists, Pointer
  <2>3. Refuse(s, "ErrTableAlreadyExists") => CreateTable(s)
    BY <1>3, <2>2 DEF CreateTable
  <2>4. Refuse(s, "ErrTableAlreadyExists") => Next
    BY <1>2, <2>3 DEF Next
  <2>5. "ErrTableAlreadyExists" \notin {NoError, Panic}
    BY DEF NoError, Panic
  <2> QED
    BY <1>1, <1>2, <1>3, <2>1, <2>4, <2>5, Refusing
<1>5. CASE Pointer(c) = none
  <2> PICK r : r = [conns[c] EXCEPT !.pc = "enter"]
    OBVIOUS
  <2>1. Goto(c, r) /\ UNCHANGED settled
    BY <1>5 DEF CheckName
  <2>2. r.pc = "enter" /\ r.call = conns[c].call
    BY <1>3 DEF ConnsInv, Idle
  <2>3. /\ conns'[c] = r /\ (Settled => Settled')
        /\ r.pc \notin {"idle", "rows"} /\ r.call = conns[c].call /\ Progress(c)'
             => SerialInv' /\ [Next]_vars
    BY <1>1, <1>2, <1>3, <2>1, Reading
  <2>4. Entering(c)'
    BY <1>1, <1>2, <1>5, <2>2, <2>3 DEF Entering, Stmt, Pointer
  <2> QED
    BY <2>2, <2>3, <2>4 DEF Progress
<1> QED
  BY <1>4, <1>5

\* EnterTable
LEMMA EnterTableStep ==
  ASSUME SerialInv, NEW c \in Conns, EnterTable(c)
  PROVE  SerialInv' /\ [Next]_vars
<1>1. Local(c, "enter")
  BY DEF EnterTable
<1>2. /\ Alive /\ Busy(c) /\ Settled /\ conns[c].call.kind = "create table"
      /\ Stmt(c) \in CreateTables /\ Pointer(c) = none /\ DOMAIN conns[c] = DOMAIN Idle
  <2>1. /\ Alive /\ Busy(c) /\ conns[c].pc = "enter" /\ Progress(c)
        /\ conns[c].call \in Statements /\ DOMAIN conns[c] = DOMAIN Idle
    BY <1>1, Underway
  <2>2. Entering(c)
    BY <2>1, Whereabouts
  <2> QED
    BY <2>1, <2>2, StatementShape DEF Entering, Stmt, Pointer
<1> PICK s, n : s = Stmt(c) /\ n = s.table
  OBVIOUS
<1>3. s \in CreateTables /\ n \in TableNames /\ s.cols \in Seq(ColumnDefinition)
  BY <1>2, StatementsAssumption
<1>4. ConnsInv'
  BY ConnsKept DEF Run
<1>5. MemoryInv /\ TypeOK /\ Running /\ AllBalanced
  BY <1>2, Executed DEF Settled
<1>6. Shown(n, tables[n], trees[n])
  BY <1>2, <1>3 DEF Settled, ShownAsSettled
<1>7. /\ heap' = Append(heap, EmptyTable) /\ accepted' = Append(accepted, <<>>)
      /\ catalogue' = [catalogue EXCEPT ![n] = Len(heap) + 1]
      /\ UNCHANGED <<settled, forest, process, asked>>
      /\ Goto(c, [conns[c] EXCEPT !.pc = "columns", !.table = Len(heap) + 1,
                                  !.todo = s.cols])
      /\ catalogue[n] = none
  BY <1>2 DEF EnterTable, Pointer
<1> PICK r : r = [conns[c] EXCEPT !.pc = "columns", !.table = Len(heap) + 1, !.todo = s.cols]
  OBVIOUS
<1>8. /\ r.pc = "columns" /\ r.table = Len(heap) + 1 /\ r.todo = s.cols
      /\ r.call = conns[c].call
  BY <1>2 DEF Idle
<1>9. conns'[c] = r
  BY <1>2, <1>7, Executed, OthersIdle
<1>10. MemoryInv' /\ OthersShown(n) /\ Shown(n, EmptyTable, NoEntries)'
  BY <1>3, <1>5, <1>7, TableEntered
<1>11. AllBalanced'
  <2>1. heap \in Seq(HeapTable) /\ accepted \in Seq(Seq(Row)) /\ Len(accepted) = Len(heap)
    BY <1>5 DEF MemoryInv
  <2>2. /\ DOMAIN heap' = DOMAIN heap \cup {Len(heap) + 1}
        /\ heap'[Len(heap) + 1] = EmptyTable /\ accepted'[Len(heap) + 1] = <<>>
        /\ \A q \in DOMAIN heap : heap'[q] = heap[q] /\ accepted'[q] = accepted[q]
    BY <1>7, <2>1
  <2>3. EmptyTable.rows = <<>>
    BY DEF EmptyTable
  <2> QED
    BY <1>5, <2>2, <2>3 DEF AllBalanced, Balanced
<1>12. tables[n] = none /\ trees[n] = NoEntries /\ UNCHANGED <<tables, trees>>
  BY <1>3, <1>5, <1>6, <1>7, NameShown DEF settled, vars
<1>13. Holds(c, n, EmptyTable, NoEntries)'
  <2>1. catalogue'[n] = Len(heap) + 1 /\ Len(heap) + 1 \in Nat
    BY <1>3, <1>5, <1>7 DEF MemoryInv
  <2>2. conns'[c].table = catalogue'[n] /\ catalogue'[n] # none
    BY <1>8, <1>9, <2>1, PointersAssumption
  <2>3. \A q \in TableNames \ {n} : ShownAsSettled(q)
    BY <1>2 DEF Settled
  <2> QED
    BY <1>3, <1>10, <1>12, <2>2, <2>3, HoldsAfter
<1>14. EmptyTable = FirstColumns(s.cols, 0)
  BY DEF EmptyTable, FirstColumns
<1>15. s.cols = SubSeq(s.cols, 1, Len(s.cols)) /\ 0 \in 0 .. Len(s.cols)
  BY <1>3
<1>16. AddingColumns(c)'
  <2>1. /\ conns'[c].pc = "columns" /\ Stmt(c)' = s
        /\ conns'[c].call.kind = "create table"
        /\ tables'[s.table] = none /\ trees'[s.table] = NoEntries
        /\ conns'[c].todo = SubSeq(s.cols, 0 + 1, Len(s.cols))
    <3>1. 0 + 1 = 1
      OBVIOUS
    <3>2. conns'[c].todo = SubSeq(s.cols, 0 + 1, Len(s.cols))
      BY ONLY <1>8, <1>9, <1>15, <3>1
    <3>3. Stmt(c)' = s /\ conns'[c].call.kind = "create table"
      BY <1>2, <1>8, <1>9 DEF Stmt
    <3> QED
      BY <1>8, <1>9, <1>12, <3>2, <3>3
  <2>2. \A j \in 1 .. 0 : ColumnError(s.cols, j) = NoError
    OBVIOUS
  <2> QED
    BY <1>11, <1>13, <1>14, <1>15, <2>1, <2>2, ColumnsAdded
<1> QED
  BY <1>2, <1>4, <1>7, <1>8, <1>10, <1>16, Working DEF Progress

\* The least element of a set of numbers
LEMMA LeastIs ==
  ASSUME NEW S \in SUBSET Nat, NEW m \in S, \A j \in 1 .. (m - 1) : j \notin S, 0 \notin S
  PROVE  Min(S) = m
<1> PICK x : x = Min(S)
  OBVIOUS
<1>1. x \in S /\ x <= m /\ x \in Nat /\ m \in Nat /\ x # 0
  BY LeastNatural
<1>2. x \notin 1 .. (m - 1)
  BY <1>1
<1> QED
  BY <1>1, <1>2

\* The columns that are left to be added
LEMMA ColumnsLeft ==
  ASSUME NEW S, NEW cols \in Seq(S), NEW i \in 0 .. Len(cols),
         NEW todo, todo = SubSeq(cols, i + 1, Len(cols))
  PROVE  /\ Len(todo) = Len(cols) - i
         /\ todo = <<>> <=> i = Len(cols)
         /\ todo # <<>> => /\ i + 1 \in 1 .. Len(cols)
                           /\ Tail(todo) = SubSeq(cols, (i + 1) + 1, Len(cols))
<1>1. todo \in Seq(S) /\ Len(todo) = Len(cols) - i
  OBVIOUS
<1>2. todo = <<>> <=> i = Len(cols)
  <2>1. todo = <<>> <=> Len(todo) = 0
    BY ONLY <1>1
  <2>2. Len(cols) \in Nat
    OBVIOUS
  <2> QED
    BY ONLY i \in 0 .. Len(cols), <1>1, <2>1, <2>2
<1>3. ASSUME todo # <<>> PROVE Tail(todo) = SubSeq(cols, (i + 1) + 1, Len(cols))
  <2>1. i + 1 \in 1 .. Len(cols) /\ Len(cols) \in 1 .. Len(cols) /\ i + 1 <= Len(cols)
    BY <1>2, <1>3
  <2> QED
    BY <2>1
<1> QED
  BY <1>1, <1>2, <1>3

\* A table gets one column more: its name first, then its type.
LEMMA NextColumn ==
  ASSUME NEW cols \in Seq(ColumnDefinition), NEW i \in 0 .. Len(cols), i < Len(cols),
         NEW h \in HeapTable, Plain(h) = FirstColumns(cols, i),
         NEW u, u = [h EXCEPT !.columns = Append(@, cols[i + 1].name)]
  PROVE  u \in HeapTable /\ u.indexes = h.indexes /\ u.rows = h.rows
         /\ Plain(u) = HalfColumns(cols, i)
<1> PICK x : x = cols[i + 1].name
  OBVIOUS
<1>1. x \in ColumnNames
  <2>1. cols[i + 1] \in ColumnDefinition
    OBVIOUS
  <2> QED
    BY <2>1 DEF ColumnDefinition
<1>2. /\ h.columns \in Seq(ColumnNames) /\ h.columnTypes \in Seq(Datatypes)
      /\ h.rows \in Seq(Row) /\ h.indexes \in Seq(HeapIndex)
  BY DEF HeapTable
<1>3. u = [columns |-> Append(h.columns, x), columnTypes |-> h.columnTypes,
           rows |-> h.rows, indexes |-> h.indexes]
  BY DEF HeapTable
<1>4. u \in HeapTable
  <2>1. Append(h.columns, x) \in Seq(ColumnNames)
    BY <1>1, <1>2
  <2> QED
    BY ONLY <1>2, <1>3, <2>1 DEF HeapTable
<1>5. h.columns = [j \in 1 .. i |-> cols[j].name]
  BY DEF Plain, FirstColumns
<1>6. Append(h.columns, x) = [j \in 1 .. (i + 1) |-> cols[j].name]
  BY <1>1, <1>2, <1>5
<1>7. Plain(u) = [Plain(h) EXCEPT !.columns = Append(h.columns, x)]
  <2>1. /\ u.columns = Append(h.columns, x) /\ u.columnTypes = h.columnTypes
        /\ u.rows = h.rows /\ u.indexes = h.indexes
    BY ONLY <1>3
  <2> PICK xs, a : /\ xs = [k \in DOMAIN h.indexes |-> PlainIndex(h.indexes[k])]
                   /\ a = Append(h.columns, x)
    OBVIOUS
  <2>2. Plain(h) = [columns |-> h.columns, columnTypes |-> h.columnTypes, rows |-> h.rows,
                    indexes |-> xs]
    BY Zenon DEF Plain
  <2>3. Plain(u) = [columns |-> u.columns, columnTypes |-> u.columnTypes, rows |-> u.rows,
                    indexes |-> [k \in DOMAIN u.indexes |-> PlainIndex(u.indexes[k])]]
    BY Zenon DEF Plain
  <2>4. Plain(u) = [columns |-> a, columnTypes |-> h.columnTypes, rows |-> h.rows,
                    indexes |-> xs]
    BY <2>1, <2>3
  <2>5. Plain(u) = [Plain(h) EXCEPT !.columns = a]
    BY ONLY <2>2, <2>4
  <2> QED
    BY <2>5
<1>8. Plain(u) = HalfColumns(cols, i)
  BY <1>6, <1>7 DEF HalfColumns
<1> QED
  BY <1>3, <1>4, <1>8

LEMMA NextType ==
  ASSUME NEW cols \in Seq(ColumnDefinition), NEW i \in 0 .. Len(cols), i < Len(cols),
         NEW h \in HeapTable, Plain(h) = HalfColumns(cols, i),
         cols[i + 1].datatype \in Datatypes,
         NEW u, u = [h EXCEPT !.columnTypes = Append(@, cols[i + 1].datatype)]
  PROVE  u \in HeapTable /\ u.indexes = h.indexes /\ u.rows = h.rows
         /\ Plain(u) = FirstColumns(cols, i + 1)
<1> PICK y : y = cols[i + 1].datatype
  OBVIOUS
<1>1. y \in Datatypes
  OBVIOUS
<1>2. /\ h.columns \in Seq(ColumnNames) /\ h.columnTypes \in Seq(Datatypes)
      /\ h.rows \in Seq(Row) /\ h.indexes \in Seq(HeapIndex)
  BY DEF HeapTable
<1>3. u = [columns |-> h.columns, columnTypes |-> Append(h.columnTypes, y),
           rows |-> h.rows, indexes |-> h.indexes]
  BY DEF HeapTable
<1>4. u \in HeapTable
  <2>1. Append(h.columnTypes, y) \in Seq(Datatypes)
    BY <1>1, <1>2
  <2> QED
    BY ONLY <1>2, <1>3, <2>1 DEF HeapTable
<1> PICK a : a = [j \in 1 .. (i + 1) |-> cols[j].name]
  OBVIOUS
<1>5. HalfColumns(cols, i) =
        [columns |-> a, columnTypes |-> [j \in 1 .. i |-> cols[j].datatype],
         rows |-> <<>>, indexes |-> <<>>]
  BY DEF HalfColumns, FirstColumns
<1>6. /\ h.columns = a /\ h.columnTypes = [j \in 1 .. i |-> cols[j].datatype]
      /\ h.rows = <<>> /\ [k \in DOMAIN h.indexes |-> PlainIndex(h.indexes[k])] = <<>>
  <2>1. Plain(h) = [columns |-> h.columns, columnTypes |-> h.columnTypes, rows |-> h.rows,
                    indexes |-> [k \in DOMAIN h.indexes |-> PlainIndex(h.indexes[k])]]
    BY Zenon DEF Plain
  <2> PICK xs, b : /\ xs = [k \in DOMAIN h.indexes |-> PlainIndex(h.indexes[k])]
                   /\ b = [j \in 1 .. i |-> cols[j].datatype]
    OBVIOUS
  <2>2. [columns |-> h.columns, columnTypes |-> h.columnTypes, rows |-> h.rows,
         indexes |-> xs]
          = [columns |-> a, columnTypes |-> b, rows |-> <<>>, indexes |-> <<>>]
    BY <1>5, <2>1
  <2>3. h.columns = a /\ h.columnTypes = b /\ h.rows = <<>> /\ xs = <<>>
    BY ONLY <2>2
  <2> QED
    BY <2>3
<1>7. Append(h.columnTypes, y) = [j \in 1 .. (i + 1) |-> cols[j].datatype]
  BY <1>1, <1>2, <1>6
<1>8. Plain(u) = FirstColumns(cols, i + 1)
  <2>1. /\ u.columns = h.columns /\ u.columnTypes = Append(h.columnTypes, y)
        /\ u.rows = h.rows /\ u.indexes = h.indexes
    BY ONLY <1>3
  <2>2. Plain(u) = [columns |-> u.columns, columnTypes |-> u.columnTypes, rows |-> u.rows,
                    indexes |-> [k \in DOMAIN u.indexes |-> PlainIndex(u.indexes[k])]]
    BY Zenon DEF Plain
  <2>3. [k \in DOMAIN u.indexes |-> PlainIndex(u.indexes[k])] = <<>>
    BY ONLY <1>6, <2>1, Zenon
  <2> QED
    BY ONLY <1>6, <1>7, <2>1, <2>2, <2>3, a = [j \in 1 .. (i + 1) |-> cols[j].name], Zenon
       DEF FirstColumns
<1> QED
  BY <1>3, <1>4, <1>8

\* What a connection knows while it adds columns
LEMMA WhileAdding ==
  ASSUME SerialInv, NEW c \in Conns, NEW pc \in {"columns", "type"}, Local(c, pc),
         NEW s, s = Stmt(c), NEW n, n = s.table
  PROVE  /\ Alive /\ Busy(c) /\ s \in CreateTables /\ n \in TableNames
         /\ s.cols \in Seq(ColumnDefinition)
         /\ MemoryInv /\ TypeOK /\ TreesMapped /\ Running /\ ConnsInv /\ OneBusy
         /\ AllBalanced /\ conns[c].call.kind = "create table" /\ Creating(c)
         /\ (pc = "columns" => AddingColumns(c)) /\ (pc = "type" => AddingType(c))
         /\ DOMAIN conns[c] = DOMAIN Idle
         /\ tables[n] = none /\ trees[n] = NoEntries
<1>1. /\ Alive /\ Busy(c) /\ conns[c].pc = pc /\ Progress(c)
      /\ conns[c].call \in Statements /\ DOMAIN conns[c] = DOMAIN Idle
  BY Underway
<1>2. (pc = "columns" => AddingColumns(c)) /\ (pc = "type" => AddingType(c))
  BY <1>1, Whereabouts
<1>3. Creating(c)
  BY <1>2 DEF AddingColumns, AddingType
<1>4. conns[c].call.kind = "create table" /\ AllBalanced
      /\ tables[n] = none /\ trees[n] = NoEntries
  BY <1>3 DEF Creating
<1>5. s \in CreateTables
  BY <1>1, <1>4, StatementShape DEF Stmt
<1>6. n \in TableNames /\ s.cols \in Seq(ColumnDefinition)
  BY <1>5, StatementsAssumption
<1>7. MemoryInv /\ TypeOK /\ TreesMapped /\ Running /\ ConnsInv /\ OneBusy
  BY <1>1, Executed
<1> QED
  BY <1>1, <1>2, <1>3, <1>4, <1>5, <1>6, <1>7

\* The table that a connection creates is given a column or a type.
LEMMA TableGrows ==
  ASSUME SerialInv, NEW c \in Conns, Alive, Busy(c), AllBalanced,
         NEW n \in TableNames, NEW t, Holds(c, n, t, NoEntries),
         NEW h, h = heap[conns[c].table],
         NEW u \in HeapTable, u.indexes = h.indexes, u.rows = h.rows,
         heap' = [heap EXCEPT ![conns[c].table] = u],
         NEW r, Goto(c, r), r.table = conns[c].table,
         UNCHANGED <<catalogue, forest, accepted, settled>>
  PROVE  /\ MemoryInv' /\ AllBalanced' /\ Holds(c, n, Plain(u), NoEntries)'
         /\ conns'[c] = r /\ UNCHANGED <<tables, trees>>
<1>1. MemoryInv /\ conns'[c] = r
  BY Executed, OthersIdle
<1>2. /\ conns[c].table = catalogue[n] /\ catalogue[n] # none /\ Shown(n, t, NoEntries)
      /\ \A q \in TableNames \ {n} : ShownAsSettled(q)
  BY DEF Holds
<1>3. catalogue[n] \in DOMAIN heap
  BY <1>1, <1>2 DEF MemoryInv
<1>4. accepted' \in Seq(Seq(Row)) /\ Len(accepted') = Len(accepted)
  BY <1>1 DEF MemoryInv
<1>5. MemoryInv' /\ OthersShown(n) /\ Shown(n, Plain(u), NoEntries)'
  <2>1. u.indexes = heap[catalogue[n]].indexes /\ heap' = [heap EXCEPT ![catalogue[n]] = u]
        /\ catalogue[n] # none /\ catalogue' = catalogue /\ forest' = forest
    BY <1>2
  <2>2. /\ MemoryInv' /\ OthersShown(n)
        /\ \A a, f : Shown(n, a, f) => Shown(n, Plain(u), f)'
    BY <1>1, <1>4, <2>1, TableReplaced
  <2>3. Shown(n, Plain(u), NoEntries)'
    BY ONLY <1>2, <2>2
  <2> QED
    BY <2>2, <2>3
<1>6. AllBalanced'
  <2>1. DOMAIN heap' = DOMAIN heap /\ \A q \in DOMAIN heap : heap'[q].rows = heap[q].rows
    BY <1>2, <1>3
  <2> QED
    BY <2>1, BalanceKept
<1>7. UNCHANGED <<tables, trees>>
  BY DEF settled, vars
<1>8. Holds(c, n, Plain(u), NoEntries)'
  <2>1. conns'[c].table = catalogue'[n] /\ catalogue'[n] # none
    BY <1>1, <1>2
  <2> QED
    BY <1>2, <1>5, <1>7, <2>1, HoldsAfter
<1> QED
  BY <1>1, <1>5, <1>6, <1>7, <1>8

\* AddColumn
LEMMA AddColumnStep ==
  ASSUME SerialInv, NEW c \in Conns, AddColumn(c)
  PROVE  SerialInv' /\ [Next]_vars
<1> PICK s, n, cols, h :
      s = Stmt(c) /\ n = s.table /\ cols = s.cols /\ h = heap[conns[c].table]
  OBVIOUS
<1>1. /\ Local(c, "columns") /\ conns[c].todo # <<>>
      /\ heap' = [heap EXCEPT ![conns[c].table].columns = Append(@, Head(conns[c].todo).name)]
      /\ Goto(c, [conns[c] EXCEPT !.pc = "type"])
      /\ UNCHANGED <<catalogue, forest, process, asked, accepted, settled>>
  BY DEF AddColumn
<1>2. /\ Alive /\ Busy(c) /\ s \in CreateTables /\ n \in TableNames
      /\ cols \in Seq(ColumnDefinition)
      /\ MemoryInv /\ AllBalanced /\ AddingColumns(c) /\ conns[c].call.kind = "create table"
      /\ DOMAIN conns[c] = DOMAIN Idle
      /\ tables[n] = none /\ trees[n] = NoEntries
  BY <1>1, WhileAdding
<1>3. PICK i \in 0 .. Len(cols) :
        /\ conns[c].todo = SubSeq(cols, i + 1, Len(cols))
        /\ \A j \in 1 .. i : ColumnError(cols, j) = NoError
        /\ Holds(c, n, FirstColumns(cols, i), NoEntries)
  BY <1>2 DEF AddingColumns
<1>4. /\ i < Len(cols) /\ i \in 0 .. Len(cols) - 1
      /\ Head(conns[c].todo) = cols[i + 1]
  <2> PICK todo : todo = conns[c].todo
    OBVIOUS
  <2>1. cols \in Seq(ColumnDefinition) /\ i \in 0 .. Len(cols)
        /\ todo = SubSeq(cols, i + 1, Len(cols)) /\ todo # <<>>
    BY <1>1, <1>2, <1>3
  <2>2. i < Len(cols) /\ i \in 0 .. Len(cols) - 1 /\ Head(todo) = cols[i + 1]
    BY ONLY <2>1, ColumnsLeft
  <2> QED
    BY <2>2
<1> PICK t : t = FirstColumns(cols, i)
  OBVIOUS
<1>5. Holds(c, n, t, NoEntries)
  BY <1>3
<1>6. conns[c].table = catalogue[n] /\ catalogue[n] # none /\ Shown(n, t, NoEntries)
  BY <1>5 DEF Holds
<1>7. conns[c].table \in DOMAIN heap /\ h \in HeapTable /\ Plain(h) = t
  <2>1. MemoryInv /\ n \in TableNames /\ h = heap[catalogue[n]]
    BY <1>2, <1>6
  <2> QED
    BY ONLY <1>6, <2>1, NameShown
<1> PICK u, r : /\ u = [h EXCEPT !.columns = Append(@, cols[i + 1].name)]
                /\ r = [conns[c] EXCEPT !.pc = "type"]
  OBVIOUS
<1>8. /\ u \in HeapTable /\ u.indexes = h.indexes /\ u.rows = h.rows
      /\ Plain(u) = HalfColumns(cols, i)
  <2>1. /\ cols \in Seq(ColumnDefinition) /\ i \in 0 .. Len(cols)
        /\ Plain(h) = FirstColumns(cols, i)
    BY <1>2, <1>7
  <2> QED
    BY ONLY <1>4, <1>7, <2>1, NextColumn,
            u = [h EXCEPT !.columns = Append(@, cols[i + 1].name)]
<1>9. heap' = [heap EXCEPT ![conns[c].table] = u]
  BY <1>1, <1>4, <1>7
<1>10. /\ r.pc = "type" /\ r.table = conns[c].table /\ r.call = conns[c].call
      /\ r.todo = conns[c].todo
  BY <1>2 DEF Idle
<1>11. /\ MemoryInv' /\ AllBalanced' /\ Holds(c, n, Plain(u), NoEntries)'
       /\ conns'[c] = r /\ UNCHANGED <<tables, trees>>
  <2>1. /\ UNCHANGED <<catalogue, forest, accepted, settled>> /\ Goto(c, r)
        /\ SerialInv /\ c \in Conns /\ Alive /\ Busy(c) /\ AllBalanced /\ n \in TableNames
        /\ h = heap[conns[c].table]
    BY <1>1, <1>2
  <2> QED
    BY ONLY <1>8, <1>9, <1>10, <1>5, <2>1, TableGrows
<1>12. Stmt(c)' = s
  BY <1>10, <1>11 DEF Stmt
<1>13. AddingType(c)'
  <2>1. Creating(c)'
    BY <1>2, <1>10, <1>11, <1>12 DEF Creating
  <2>2. conns'[c].todo = SubSeq(cols, i + 1, Len(cols))
    BY <1>3, <1>10, <1>11
  <2>3. Holds(c, n, HalfColumns(cols, i), NoEntries)'
    <3> PICK w : w = HalfColumns(cols, i)
      OBVIOUS
    <3>1. Holds(c, n, w, NoEntries)'
      BY <1>8, <1>11
    <3> QED
      BY <3>1
  <2> QED
    BY <1>3, <1>4, <1>10, <1>11, <1>12, <2>1, <2>2, <2>3 DEF AddingType
<1>14. ConnsInv'
  BY ConnsKept DEF Run
<1>15. Progress(c)'
  BY <1>13 DEF Progress
<1> QED
  BY <1>1, <1>2, <1>10, <1>11, <1>14, <1>15, Working

\* AddType, when the column is refused: the table is deleted.
LEMMA ColumnRefused ==
  ASSUME SerialInv, NEW c \in Conns, Local(c, "type"), NEW s, s = Stmt(c),
         NEW i \in 0 .. Len(s.cols), i < Len(s.cols), NEW t, Holds(c, s.table, t, NoEntries),
         \A j \in 1 .. i : ColumnError(s.cols, j) = NoError,
         NEW err, err = ColumnError(s.cols, i + 1), err # NoError,
         DeleteTable(c, err), ConnsInv'
  PROVE  SerialInv' /\ [Next]_vars
<1> PICK n, cols, p, h : n = s.table /\ cols = s.cols /\ p = catalogue[n] /\ h = heap[p]
  OBVIOUS
<1>1. /\ Alive /\ Busy(c) /\ s \in CreateTables /\ n \in TableNames
      /\ cols \in Seq(ColumnDefinition)
      /\ MemoryInv /\ TypeOK /\ TreesMapped /\ Running /\ ConnsInv
      /\ AllBalanced /\ conns[c].call.kind = "create table"
      /\ tables[n] = none /\ trees[n] = NoEntries
  BY WhileAdding
<1>2. /\ catalogue' = [catalogue EXCEPT ![n] = none]
      /\ UNCHANGED <<heap, forest, accepted, process, asked>> /\ Return(c, err)
  BY DEF DeleteTable
<1>3. /\ p # none /\ Shown(n, t, NoEntries)
      /\ \A q \in TableNames \ {n} : ShownAsSettled(q)
  BY DEF Holds
<1>4. p \in DOMAIN heap /\ h \in HeapTable
  <2>1. MemoryInv /\ n \in TableNames /\ p = catalogue[n] /\ h = heap[p]
    BY <1>1
  <2> QED
    BY ONLY <1>3, <2>1, NameShown
<1>5. MemoryInv' /\ OthersShown(n)
  <2>1. heap' = [heap EXCEPT ![catalogue[n]] = h] /\ h.indexes = heap[catalogue[n]].indexes
    <3>1. heap \in Seq(HeapTable)
      BY <1>1 DEF MemoryInv
    <3> QED
      BY <1>2, <1>4, <3>1
  <2>2. accepted' \in Seq(Seq(Row)) /\ Len(accepted') = Len(accepted)
    BY <1>1, <1>2 DEF MemoryInv
  <2> QED
    BY <1>1, <1>2, <1>3, <1>4, <2>1, <2>2, TableReplaced
<1>6. AllBalanced'
  BY <1>1, <1>2 DEF AllBalanced, Balanced
<1>7. Shown(n, none, NoEntries)'
  <2>1. catalogue'[n] = none
    BY <1>1, <1>2 DEF MemoryInv
  <2> QED
    BY <1>1, <2>1 DEF Shown, TablesAt, TreesAt, NoEntries
<1>8. tables' = [tables EXCEPT ![n] = none] /\ trees' = [trees EXCEPT ![n] = NoEntries]
  <2>1. /\ tables' = TablesAt(catalogue', heap')
        /\ trees' = TreesAt(catalogue', heap', forest')
    BY <1>2 DEF Return, Settle
  <2>2. TypeOK /\ TreesMapped /\ n \in TableNames
    BY ONLY <1>1
  <2> QED
    BY ONLY <1>3, <1>5, <1>7, <2>1, <2>2, OneChanged
<1>9. UNCHANGED <<tables, trees>>
  BY <1>1, <1>8 DEF TypeOK, TreesMapped
<1>10. Goto(c, Idle) /\ Settle(c, Reply(s, err)) /\ Reply(s, err).err = err
  BY <1>2 DEF Return, Reply
<1>11. err # Panic
  BY DEF ColumnError, Panic, NoError
<1>12. Refuse(s, err)
  BY <1>9, <1>10 DEF Refuse, Settle, Granted
<1>13. BadColumns(cols) # {} /\ Min(BadColumns(cols)) = i + 1
  <2>1. cols \in Seq(ColumnDefinition) /\ i \in 0 .. Len(cols) /\ i < Len(cols)
    BY <1>1
  <2>2. /\ (i + 1) - 1 = i /\ DOMAIN cols = 1 .. Len(cols) /\ i + 1 \in 1 .. Len(cols)
        /\ Len(cols) \in Nat
    BY ONLY <2>1
  <2>3. i + 1 \in BadColumns(cols) /\ \A j \in 1 .. i : j \notin BadColumns(cols)
    BY <2>2 DEF BadColumns
  <2>4. BadColumns(cols) \in SUBSET (1 .. Len(cols))
    BY <2>2 DEF BadColumns
  <2> PICK S, m : S = BadColumns(cols) /\ m = i + 1
    OBVIOUS
  <2>5. S \in SUBSET Nat /\ m \in S /\ 0 \notin S /\ \A j \in 1 .. (m - 1) : j \notin S
    BY ONLY <2>2, <2>3, <2>4, S = BadColumns(cols), m = i + 1
  <2>6. Min(S) = m
    BY ONLY <2>5, LeastIs
  <2> QED
    BY <2>5, <2>6
<1>14. CreateTable(s)
  BY <1>1, <1>12, <1>13 DEF CreateTable, Exists
<1>15. Next
  BY <1>1, <1>14 DEF Next
<1>16. Idle.pc = "idle"
  BY DEF Idle
<1> QED
  BY <1>1, <1>2, <1>5, <1>6, <1>10, <1>11, <1>15, <1>16, Settling

\* AddType
LEMMA AddTypeStep ==
  ASSUME SerialInv, NEW c \in Conns, AddType(c)
  PROVE  SerialInv' /\ [Next]_vars
<1> PICK s, n, cols, h :
      s = Stmt(c) /\ n = s.table /\ cols = s.cols /\ h = heap[conns[c].table]
  OBVIOUS
<1>1. Local(c, "type")
  BY DEF AddType
<1>2. /\ Alive /\ Busy(c) /\ s \in CreateTables /\ n \in TableNames
      /\ cols \in Seq(ColumnDefinition)
      /\ MemoryInv /\ AllBalanced /\ AddingType(c) /\ conns[c].call.kind = "create table"
      /\ DOMAIN conns[c] = DOMAIN Idle
      /\ tables[n] = none /\ trees[n] = NoEntries
  BY <1>1, WhileAdding
<1>3. ConnsInv'
  BY ConnsKept DEF Run
<1>4. PICK i \in 0 .. Len(cols) - 1 :
        /\ conns[c].todo = SubSeq(cols, i + 1, Len(cols))
        /\ \A j \in 1 .. i : ColumnError(cols, j) = NoError
        /\ Holds(c, n, HalfColumns(cols, i), NoEntries)
  BY <1>2 DEF AddingType
<1>5. /\ i < Len(cols) /\ i \in 0 .. Len(cols) /\ i + 1 \in 0 .. Len(cols)
      /\ Head(conns[c].todo) = cols[i + 1]
      /\ Tail(conns[c].todo) = SubSeq(cols, (i + 1) + 1, Len(cols))
      /\ Len(cols) - Len(conns[c].todo) + 1 = i + 1
  <2> PICK todo : todo = conns[c].todo
    OBVIOUS
  <2>1. cols \in Seq(ColumnDefinition) /\ i \in 0 .. Len(cols) - 1
        /\ todo = SubSeq(cols, i + 1, Len(cols))
    BY <1>2, <1>4
  <2>2. i < Len(cols) /\ i \in 0 .. Len(cols) /\ i + 1 \in 0 .. Len(cols) /\ i # Len(cols)
    BY ONLY <2>1
  <2>3. /\ Len(todo) = Len(cols) - i /\ todo # <<>>
        /\ Tail(todo) = SubSeq(cols, (i + 1) + 1, Len(cols))
    BY ONLY <2>1, <2>2, ColumnsLeft
  <2>4. Head(todo) = cols[i + 1]
    BY ONLY <2>1, <2>2
  <2>5. Len(cols) - Len(todo) + 1 = i + 1
    <3>1. Len(cols) \in Nat /\ Len(todo) = Len(cols) - i /\ i \in 0 .. Len(cols)
      BY <2>1, <2>2, <2>3
    <3> QED
      BY ONLY <3>1
  <2> QED
    BY <2>2, <2>3, <2>4, <2>5
<1> PICK err : err = ColumnError(cols, i + 1)
  OBVIOUS
<1>6. CASE err # NoError
  <2>1. DeleteTable(c, err)
    BY <1>5, <1>6 DEF AddType
  <2> PICK half : half = HalfColumns(cols, i)
    OBVIOUS
  <2>2. Holds(c, n, half, NoEntries) /\ \A j \in 1 .. i : ColumnError(cols, j) = NoError
    BY <1>4
  <2> QED
    BY <1>1, <1>3, <1>5, <1>6, <2>1, <2>2, ColumnRefused
<1>7. CASE err = NoError
  <2>1. /\ heap' = [heap EXCEPT ![conns[c].table].columnTypes =
                                  Append(@, Head(conns[c].todo).datatype)]
        /\ Goto(c, [conns[c] EXCEPT !.pc = "columns", !.todo = Tail(@)])
        /\ UNCHANGED <<catalogue, forest, accepted, process, asked, settled>>
    BY <1>5, <1>7 DEF AddType
  <2> PICK t : t = HalfColumns(cols, i)
    OBVIOUS
  <2>2. Holds(c, n, t, NoEntries)
    BY <1>4
  <2>3. conns[c].table = catalogue[n] /\ catalogue[n] # none /\ Shown(n, t, NoEntries)
    BY <2>2 DEF Holds
  <2>4. conns[c].table \in DOMAIN heap /\ h \in HeapTable /\ Plain(h) = t
    <3>1. MemoryInv /\ n \in TableNames /\ h = heap[catalogue[n]]
      BY <1>2, <2>3
    <3> QED
      BY ONLY <2>3, <3>1, NameShown
  <2> PICK u, r :
        /\ u = [h EXCEPT !.columnTypes = Append(@, cols[i + 1].datatype)]
        /\ r = [conns[c] EXCEPT !.pc = "columns", !.todo = Tail(@)]
    OBVIOUS
  <2>5. /\ u \in HeapTable /\ u.indexes = h.indexes /\ u.rows = h.rows
        /\ Plain(u) = FirstColumns(cols, i + 1)
    <3>1. cols[i + 1].datatype \in Datatypes
      BY <1>7 DEF ColumnError, NoError
    <3>2. /\ cols \in Seq(ColumnDefinition) /\ Plain(h) = HalfColumns(cols, i)
          /\ h \in HeapTable /\ i \in 0 .. Len(cols) /\ i < Len(cols)
      BY <1>2, <1>5, <2>4
    <3> QED
      BY ONLY <3>1, <3>2, NextType,
              u = [h EXCEPT !.columnTypes = Append(@, cols[i + 1].datatype)]
  <2>6. heap' = [heap EXCEPT ![conns[c].table] = u]
    BY <1>5, <2>1, <2>4
  <2>7. /\ r.pc = "columns" /\ r.table = conns[c].table /\ r.call = conns[c].call
        /\ r.todo = SubSeq(cols, (i + 1) + 1, Len(cols))
    BY <1>2, <1>5 DEF Idle
  <2>8. /\ MemoryInv' /\ AllBalanced' /\ Holds(c, n, Plain(u), NoEntries)'
        /\ conns'[c] = r /\ UNCHANGED <<tables, trees>>
    <3>1. /\ UNCHANGED <<catalogue, forest, accepted, settled>> /\ Goto(c, r)
          /\ SerialInv /\ c \in Conns /\ Alive /\ Busy(c) /\ AllBalanced
          /\ n \in TableNames /\ h = heap[conns[c].table]
      BY <1>2, <2>1
    <3> QED
      BY ONLY <2>5, <2>6, <2>7, <2>2, <3>1, TableGrows
  <2>9. AddingColumns(c)'
    <3> PICK w : w = FirstColumns(cols, i + 1)
      OBVIOUS
    <3>1. /\ conns'[c].pc = "columns" /\ Stmt(c)' = s
          /\ conns'[c].call.kind = "create table"
          /\ tables'[s.table] = none /\ trees'[s.table] = NoEntries
          /\ conns'[c].todo = SubSeq(s.cols, (i + 1) + 1, Len(s.cols))
      BY <1>2, <2>7, <2>8 DEF Stmt
    <3>2. \A j \in 1 .. (i + 1) : ColumnError(s.cols, j) = NoError
      BY <1>4, <1>7
    <3>3. Holds(c, n, w, NoEntries)'
      BY <2>5, <2>8
    <3>4. AllBalanced'
      BY <2>8
    <3> QED
      BY <1>5, <3>1, <3>2, <3>3, <3>4, ColumnsAdded
  <2>10. Progress(c)'
    BY <2>9 DEF Progress
  <2> QED
    BY <1>2, <1>3, <2>1, <2>7, <2>8, <2>10, Working
<1> QED
  BY <1>6, <1>7

\* A statement that ends here leaves what its connection holds.
LEMMA HeldSettles ==
  ASSUME TypeOK, TreesMapped, MemoryInv, NEW c, NEW n \in TableNames, NEW t, NEW f,
         Holds(c, n, t, f), UNCHANGED <<catalogue, heap, forest, accepted>>,
         NEW answer, Settle(c, answer)
  PROVE  tables' = [tables EXCEPT ![n] = t] /\ trees' = [trees EXCEPT ![n] = f]
<1>1. Shown(n, t, f)' /\ OthersShown(n)
  BY MemoryUnmoved DEF Holds, OthersShown
<1> QED
  BY <1>1, OneChanged DEF Settle, Holds

\* With its last column a table is what CREATE TABLE makes, but for the
\* index of its primary key.
LEMMA AllColumns ==
  ASSUME NEW n, NEW cols \in Seq(ColumnDefinition), NEW t, t = FirstColumns(cols, Len(cols))
  PROVE  /\ PrimaryKeyIndexes(n, cols) = <<>> => t = NewTable(n, cols)
         /\ \A x : PrimaryKeyIndexes(n, cols) = <<x>> =>
              [t EXCEPT !.indexes = Append(@, x)] = NewTable(n, cols)
<1>1. DOMAIN cols = 1 .. Len(cols)
  OBVIOUS
<1> PICK a, b : /\ a = [i \in DOMAIN cols |-> cols[i].name]
                /\ b = [i \in DOMAIN cols |-> cols[i].datatype]
  OBVIOUS
<1> PICK xs : xs = PrimaryKeyIndexes(n, cols)
  OBVIOUS
<1>2. t = [columns |-> a, columnTypes |-> b, rows |-> <<>>, indexes |-> <<>>]
  BY <1>1 DEF FirstColumns
<1>3. NewTable(n, cols) = [columns |-> a, columnTypes |-> b, rows |-> <<>>, indexes |-> xs]
  BY DEF NewTable
<1>4. ASSUME NEW x, xs = <<x>>
      PROVE  [t EXCEPT !.indexes = Append(@, x)] = NewTable(n, cols)
  <2>1. t.indexes = <<>> /\ Append(<<>>, x) = <<x>>
    BY <1>2
  <2>2. [t EXCEPT !.indexes = xs] = NewTable(n, cols)
    BY ONLY <1>2, <1>3
  <2> QED
    BY <1>4, <2>1, <2>2
<1> QED
  BY <1>2, <1>3, <1>4

\* CREATE TABLE ends well.
LEMMA TableMade ==
  ASSUME SerialInv, NEW c \in Conns, Alive, Busy(c), Creating(c), BadColumns(Stmt(c).cols) = {},
         Holds(c, Stmt(c).table, NewTable(Stmt(c).table, Stmt(c).cols), NoEntries),
         Return(c, NoError), UNCHANGED <<catalogue, heap, forest, accepted, process, asked>>,
         ConnsInv'
  PROVE  SerialInv' /\ [Next]_vars
<1> PICK s, n, t : s = Stmt(c) /\ n = s.table /\ t = NewTable(n, s.cols)
  OBVIOUS
<1>1. MemoryInv /\ TypeOK /\ TreesMapped /\ Running /\ conns[c].call \in Statements
  BY Executed
<1>2. conns[c].call.kind = "create table" /\ AllBalanced /\ tables[n] = none
  BY DEF Creating
<1>3. s \in CreateTables /\ n \in TableNames
  BY <1>1, <1>2, StatementShape, StatementsAssumption DEF Stmt
<1>4. MemoryInv' /\ AllBalanced'
  BY <1>1, <1>2, MemoryUnmoved
<1>5. Goto(c, Idle) /\ Settle(c, Reply(s, NoError)) /\ Reply(s, NoError).err = NoError
  BY DEF Return, Reply
<1>6. tables' = [tables EXCEPT ![n] = t] /\ trees' = [trees EXCEPT ![n] = NoEntries]
  BY <1>1, <1>3, <1>5, HeldSettles
<1>7. granted' = granted \cup {<<n, x.name>> : x \in ToSet(PrimaryKeyIndexes(n, s.cols))}
  BY <1>2, <1>5 DEF Settle, Granted, Stmt
<1>8. CreateTable(s)
  <2>1. ~Exists(n) /\ BadColumns(s.cols) = {} /\ reply' = Reply(s, NoError)
    BY <1>2, <1>5 DEF Exists, Settle
  <2> QED
    BY <1>1, <1>6, <1>7, <2>1, Zenon DEF CreateTable, NoEntries
<1>9. Next
  BY <1>3, <1>8 DEF Next
<1>10. Idle.pc = "idle" /\ NoError # Panic
  BY DEF Idle, NoError, Panic
<1> QED
  BY <1>4, <1>5, <1>9, <1>10, Settling

\* With the last column every column has been checked.
LEMMA ColumnsDone ==
  ASSUME NEW cols \in Seq(ColumnDefinition), NEW i \in 0 .. Len(cols),
         SubSeq(cols, i + 1, Len(cols)) = <<>>,
         \A j \in 1 .. i : ColumnError(cols, j) = NoError
  PROVE  i = Len(cols) /\ BadColumns(cols) = {}
<1>1. i = Len(cols)
  BY ColumnsLeft
<1> QED
  BY <1>1 DEF BadColumns

\* EndColumns
LEMMA EndColumnsStep ==
  ASSUME SerialInv, NEW c \in Conns, EndColumns(c)
  PROVE  SerialInv' /\ [Next]_vars
<1> PICK s, n, cols, pkeys :
      /\ s = Stmt(c) /\ n = s.table /\ cols = s.cols
      /\ pkeys = PrimaryKeyIndexes(n, cols)
  OBVIOUS
<1>1. Local(c, "columns") /\ conns[c].todo = <<>> /\ UNCHANGED <<process, asked>>
  BY DEF EndColumns
<1>2. /\ Alive /\ Busy(c) /\ s \in CreateTables /\ n \in TableNames
      /\ cols \in Seq(ColumnDefinition)
      /\ MemoryInv /\ TypeOK /\ TreesMapped /\ Running /\ ConnsInv /\ OneBusy
      /\ AllBalanced /\ AddingColumns(c) /\ conns[c].call.kind = "create table"
      /\ DOMAIN conns[c] = DOMAIN Idle
      /\ tables[n] = none /\ trees[n] = NoEntries
  BY <1>1, WhileAdding
<1>3. ConnsInv'
  BY ConnsKept DEF Run
<1>4. PICK i \in 0 .. Len(cols) :
        /\ conns[c].todo = SubSeq(cols, i + 1, Len(cols))
        /\ \A j \in 1 .. i : ColumnError(cols, j) = NoError
        /\ Holds(c, n, FirstColumns(cols, i), NoEntries)
  BY <1>2 DEF AddingColumns
<1>5. i = Len(cols) /\ BadColumns(cols) = {}
  <2>1. cols \in Seq(ColumnDefinition) /\ i \in 0 .. Len(cols)
        /\ SubSeq(cols, i + 1, Len(cols)) = <<>>
        /\ \A j \in 1 .. i : ColumnError(cols, j) = NoError
    BY <1>1, <1>2, <1>4
  <2> QED
    BY ONLY <2>1, ColumnsDone
<1> PICK t : t = FirstColumns(cols, Len(cols))
  OBVIOUS
<1>6. Holds(c, n, t, NoEntries) /\ Creating(c)
  BY <1>2, <1>4, <1>5 DEF AddingColumns
<1>7. CASE pkeys = <<>>
  <2>1. UNCHANGED <<catalogue, heap, forest, accepted>> /\ Return(c, NoError)
    BY <1>7 DEF EndColumns
  <2>2. t = NewTable(n, cols)
    <3>1. cols \in Seq(ColumnDefinition) /\ t = FirstColumns(cols, Len(cols))
          /\ PrimaryKeyIndexes(n, cols) = <<>>
      BY <1>2, <1>7
    <3> QED
      BY ONLY <3>1, AllColumns
  <2> QED
    BY <1>1, <1>2, <1>3, <1>5, <1>6, <2>1, <2>2, TableMade
<1>8. CASE pkeys # <<>>
  <2>1. Pointer(c) # none /\ Pointer(c) = conns[c].table
    BY <1>6 DEF Holds, Pointer
  <2>2. /\ UNCHANGED <<catalogue, heap, forest, accepted, settled>>
        /\ Goto(c, [conns[c] EXCEPT !.pc = "names", !.table = Pointer(c), !.key = pkeys[1]])
    BY <1>8, <2>1 DEF EndColumns
  <2> PICK r : r = [conns[c] EXCEPT !.pc = "names", !.table = Pointer(c), !.key = pkeys[1]]
    OBVIOUS
  <2>3. /\ r.pc = "names" /\ r.table = conns[c].table /\ r.call = conns[c].call
        /\ r.key = pkeys[1]
    BY <1>2, <2>1 DEF Idle
  <2>4. /\ conns'[c] = r /\ UNCHANGED <<tables, trees>> /\ AllBalanced'
        /\ Holds(c, n, t, NoEntries)'
        /\ (Progress(c)' => SerialInv' /\ [Next]_vars)
    BY <1>1, <1>2, <1>3, <1>6, <2>2, <2>3, Reading
  <2>5. Stmt(c)' = s
    BY <2>3, <2>4 DEF Stmt
  <2>6. InstallingKey(c)'
    <3>1. Creating(c)'
      BY <1>2, <2>3, <2>4, <2>5 DEF Creating
    <3>2. conns'[c].pc = "names" /\ conns'[c].key = pkeys[1]
      BY <2>3, <2>4
    <3> QED
      BY <1>5, <1>8, <2>4, <2>5, <3>1, <3>2 DEF InstallingKey
  <2> QED
    BY <2>4, <2>6 DEF Progress
<1> QED
  BY <1>7, <1>8

------------------------------------------------------------------------------
(***************************************************************************)
(* DropTable, and the first steps of CreateIndex and of Insert.            *)
(***************************************************************************)

\* A method that begins finds the table as the last statement left it.
LEMMA Found ==
  ASSUME MemoryInv, Settled, NEW n \in TableNames
  PROVE  /\ catalogue[n] # none <=> Exists(n)
         /\ Exists(n) =>
              LET h == heap[catalogue[n]]
                  t == tables[n]
              IN  /\ catalogue[n] \in DOMAIN heap /\ h \in HeapTable /\ t \in Table
                  /\ t = Plain(h) /\ t.columns = h.columns /\ t.rows = h.rows
                  /\ DOMAIN t.indexes = DOMAIN h.indexes /\ Len(t.indexes) = Len(h.indexes)
                  /\ \A k \in DOMAIN h.indexes : t.indexes[k] = PlainIndex(h.indexes[k])
                  /\ \A x : HasIndex(h, x) <=> HasIndex(t, x)
<1> PICK h, t : h = heap[catalogue[n]] /\ t = tables[n]
  OBVIOUS
<1>1. Shown(n, tables[n], trees[n])
  BY DEF Settled, ShownAsSettled
<1>2. catalogue[n] # none <=> Exists(n)
  BY <1>1, NameShown DEF Exists
<1>3. ASSUME Exists(n)
      PROVE  /\ catalogue[n] \in DOMAIN heap /\ h \in HeapTable /\ t \in Table
             /\ t = Plain(h) /\ t.columns = h.columns /\ t.rows = h.rows
             /\ DOMAIN t.indexes = DOMAIN h.indexes /\ Len(t.indexes) = Len(h.indexes)
             /\ \A k \in DOMAIN h.indexes : t.indexes[k] = PlainIndex(h.indexes[k])
  BY <1>1, <1>2, <1>3, NameShown
<1>4. \A x : PlainIndex(x).name = x.name
  BY DEF PlainIndex
<1>5. ASSUME Exists(n), NEW x PROVE HasIndex(h, x) <=> HasIndex(t, x)
  <2>1. \A k \in DOMAIN h.indexes : t.indexes[k].name = h.indexes[k].name
    BY ONLY <1>3, <1>4, Exists(n)
  <2> QED
    BY <1>3, <1>5, <2>1 DEF HasIndex
<1> QED
  BY <1>2, <1>3, <1>5

\* LookUpDrop
LEMMA LookUpDropStep ==
  ASSUME SerialInv, NEW c \in Conns, LookUpDrop(c)
  PROVE  SerialInv' /\ [Next]_vars
<1> PICK s, n : s = Stmt(c) /\ n = s.table
  OBVIOUS
<1>1. /\ Executes(c, "drop table")
      /\ UNCHANGED <<catalogue, heap, forest, accepted, process, asked>>
  BY DEF LookUpDrop
<1>2. /\ Alive /\ Busy(c) /\ Settled /\ conns[c].call.kind = "drop table"
      /\ s \in DropTables /\ n \in TableNames
  BY <1>1, Called, StatementsAssumption
<1>3. MemoryInv /\ Running /\ ConnsInv /\ ConnsInv'
  BY <1>2, Executed, ConnsKept DEF Run
<1>4. catalogue[n] # none <=> Exists(n)
  BY <1>2, <1>3, Found
<1>5. CASE Pointer(c) = none
  <2>1. Return(c, "ErrTableDoesNotExist")
    BY <1>5 DEF LookUpDrop
  <2>2. ~Exists(n)
    BY <1>4, <1>5 DEF Pointer
  <2>3. Refuse(s, "ErrTableDoesNotExist") => Next
    BY <1>2, <1>3, <2>2 DEF DropTable, Next
  <2>4. "ErrTableDoesNotExist" \notin {NoError, Panic}
    BY DEF NoError, Panic
  <2> QED
    BY <1>1, <1>2, <1>3, <2>1, <2>3, <2>4, Refusing
<1>6. CASE Pointer(c) # none
  <2> PICK r : r = [conns[c] EXCEPT !.pc = "remove"]
    OBVIOUS
  <2>1. Goto(c, r) /\ UNCHANGED settled
    BY <1>6 DEF LookUpDrop
  <2>2. r.pc = "remove" /\ r.call = conns[c].call
    BY <1>3 DEF ConnsInv, Idle
  <2>3. /\ conns'[c] = r /\ Settled'
        /\ (Progress(c)' => SerialInv' /\ [Next]_vars)
    BY <1>1, <1>2, <1>3, <2>1, <2>2, Reading
  <2>4. Removing(c)'
    BY <1>1, <1>2, <1>6, <2>2, <2>3 DEF Removing, Stmt, Pointer
  <2> QED
    BY <2>3, <2>4 DEF Progress
<1> QED
  BY <1>5, <1>6

\* RemoveTable
LEMMA RemoveTableStep ==
  ASSUME SerialInv, NEW c \in Conns, RemoveTable(c)
  PROVE  SerialInv' /\ [Next]_vars
<1> PICK s, n : s = Stmt(c) /\ n = s.table
  OBVIOUS
<1>1. /\ Local(c, "remove") /\ UNCHANGED <<heap, forest, accepted, process, asked>>
      /\ catalogue' = [catalogue EXCEPT ![n] = none] /\ Return(c, NoError)
  BY DEF RemoveTable, DeleteTable
<1>2. /\ Alive /\ Busy(c) /\ Settled /\ conns[c].call.kind = "drop table"
      /\ s \in DropTables /\ n \in TableNames /\ catalogue[n] # none
  <2>1. /\ Alive /\ Busy(c) /\ conns[c].pc = "remove" /\ Progress(c)
        /\ conns[c].call \in Statements
    BY <1>1, Underway
  <2>2. Removing(c)
    BY <2>1, Whereabouts
  <2>3. s \in DropTables
    BY <2>1, <2>2, StatementShape DEF Removing, Stmt
  <2> QED
    BY <2>1, <2>2, <2>3, StatementsAssumption DEF Removing
<1>3. ConnsInv'
  BY ConnsKept DEF Run
<1>4. MemoryInv /\ TypeOK /\ TreesMapped /\ Running /\ AllBalanced
  BY <1>2, Executed DEF Settled
<1>5. Exists(n)
  BY <1>2, <1>4, Found
<1>6. Goto(c, Idle) /\ Settle(c, Reply(s, NoError)) /\ Reply(s, NoError).err = NoError
  BY <1>1 DEF Return, Reply
<1> PICK p, h : p = catalogue[n] /\ h = heap[p]
  OBVIOUS
<1>7. p # none /\ p \in DOMAIN heap /\ h \in HeapTable
  BY <1>2, <1>4, <1>5, Found
<1>8. MemoryInv' /\ OthersShown(n)
  <2>1. /\ heap' = [heap EXCEPT ![catalogue[n]] = h] /\ h.indexes = heap[catalogue[n]].indexes
        /\ accepted' \in Seq(Seq(Row)) /\ Len(accepted') = Len(accepted)
        /\ catalogue[n] # none /\ forest' = forest
    <3>1. /\ heap \in Seq(HeapTable) /\ accepted \in Seq(Seq(Row))
          /\ Len(accepted) = Len(heap)
      BY <1>4 DEF MemoryInv
    <3>2. heap' = [heap EXCEPT ![p] = h]
      <4>1. heap = [q \in DOMAIN heap |-> heap[q]]
        BY ONLY <3>1
      <4>2. heap' = heap /\ h = heap[p]
        BY <1>1
      <4>3. heap = [heap EXCEPT ![p] = heap[p]]
        BY ONLY <4>1, Zenon
      <4> QED
        BY ONLY <4>2, <4>3
    <3> QED
      BY <1>1, <1>7, <3>1, <3>2
  <2> QED
    BY ONLY <1>1, <1>2, <1>4, <1>7, <2>1, TableReplaced
<1>9. AllBalanced'
  BY <1>1, <1>4, BalanceKept
<1>10. Shown(n, none, NoEntries)'
  <2>1. catalogue'[n] = none
    BY <1>1, <1>2, <1>4 DEF MemoryInv
  <2> QED
    BY <1>2, <2>1 DEF Shown, TablesAt, TreesAt, NoEntries
<1>11. tables' = [tables EXCEPT ![n] = none] /\ trees' = [trees EXCEPT ![n] = NoEntries]
  BY <1>2, <1>4, <1>6, <1>8, <1>10, OneChanged DEF Settled, Settle
<1>12. granted' = {g \in granted : g[1] # n} /\ reply' = Reply(s, NoError)
  BY <1>2, <1>6 DEF Settle, Granted, Stmt
<1>13. DropTable(s)
  BY <1>4, <1>5, <1>11, <1>12 DEF DropTable, NoEntries
<1>14. Next
  BY <1>2, <1>13 DEF Next
<1>15. Idle.pc = "idle" /\ NoError # Panic
  BY DEF Idle, NoError, Panic
<1> QED
  BY <1>1, <1>2, <1>3, <1>6, <1>8, <1>9, <1>14, <1>15, Settling

\* LookUpIndex
LEMMA LookUpIndexStep ==
  ASSUME SerialInv, NEW c \in Conns, LookUpIndex(c)
  PROVE  SerialInv' /\ [Next]_vars
<1> PICK s, n, p : s = Stmt(c) /\ n = s.table /\ p = catalogue[n]
  OBVIOUS
<1>1. /\ Executes(c, "create index")
      /\ UNCHANGED <<catalogue, heap, forest, accepted, process, asked>>
  BY DEF LookUpIndex
<1>2. /\ Alive /\ Busy(c) /\ Settled /\ conns[c].call.kind = "create index"
      /\ s \in CreateIndexes /\ n \in TableNames
  BY <1>1, Called, StatementsAssumption
<1>3. MemoryInv /\ Running /\ ConnsInv /\ ConnsInv'
  BY <1>2, Executed, ConnsKept DEF Run
<1>4. Pointer(c) = p
  BY DEF Pointer
<1>5. p # none <=> Exists(n)
  BY <1>2, <1>3, Found
<1>6. CASE p = none
  <2>1. Return(c, "ErrTableDoesNotExist")
    BY <1>4, <1>6 DEF LookUpIndex
  <2>2. Refuse(s, "ErrTableDoesNotExist") => CreateIndex(s)
    BY <1>3, <1>5, <1>6, Zenon DEF CreateIndex
  <2>3. Refuse(s, "ErrTableDoesNotExist") => Next
    BY <1>2, <2>2 DEF Next
  <2>4. "ErrTableDoesNotExist" \notin {NoError, Panic}
    BY DEF NoError, Panic
  <2> QED
    BY <1>1, <1>2, <1>3, <2>1, <2>3, <2>4, Refusing
<1>7. CASE p # none
  <2> PICK r : r = [conns[c] EXCEPT !.pc = "names", !.table = p, !.key = NewIndex(s)]
    OBVIOUS
  <2>1. Goto(c, r) /\ UNCHANGED settled
    BY <1>4, <1>7 DEF LookUpIndex
  <2>2. DOMAIN conns[c] = DOMAIN Idle
    BY <1>3 DEF ConnsInv
  <2>3. /\ r.pc = "names" /\ r.table = p /\ r.key = NewIndex(s) /\ r.call = conns[c].call
    BY <2>2 DEF Idle
  <2>4. /\ conns'[c] = r /\ Settled' /\ UNCHANGED <<tables, trees>>
        /\ (Progress(c)' => SerialInv' /\ [Next]_vars)
    BY <1>1, <1>2, <1>3, <2>1, <2>3, Reading
  <2>5. Stmt(c)' = s
    BY <2>3, <2>4 DEF Stmt
  <2>6. NamingIndex(c)'
    BY <1>1, <1>2, <1>5, <1>7, <2>3, <2>4, <2>5 DEF NamingIndex, Exists
  <2> QED
    BY <2>4, <2>6 DEF Progress
<1> QED
  BY <1>6, <1>7

\* CheckIndexName, for CREATE INDEX
LEMMA CheckIndexNameStep ==
  ASSUME SerialInv, NEW c \in Conns, CheckIndexName(c), NamingIndex(c)
  PROVE  SerialInv' /\ [Next]_vars
<1> PICK s, n, p : s = Stmt(c) /\ n = s.table /\ p = catalogue[n]
  OBVIOUS
<1>1. /\ Local(c, "names")
      /\ UNCHANGED <<catalogue, heap, forest, accepted, process, asked>>
  BY DEF CheckIndexName
<1>2. /\ Alive /\ Busy(c) /\ Settled /\ conns[c].call.kind = "create index"
      /\ conns[c].key = NewIndex(s) /\ conns[c].table = p /\ Exists(n)
      /\ conns[c].call \in Statements
  BY <1>1, Underway DEF NamingIndex
<1>3. s \in CreateIndexes /\ n \in TableNames
  BY <1>2, StatementShape, StatementsAssumption DEF Stmt
<1>4. MemoryInv /\ Running /\ ConnsInv /\ ConnsInv'
  BY <1>2, Executed, ConnsKept DEF Run
<1>5. HasIndex(heap[p], s.name) <=> HasIndex(tables[n], s.name)
  <2>1. n \in TableNames /\ Exists(n) /\ MemoryInv /\ Settled /\ p = catalogue[n]
    BY <1>2, <1>3, <1>4
  <2> QED
    BY ONLY <2>1, Found
<1>6. conns[c].key.name = s.name
  <2>1. conns[c].key = NewIndex(s)
    BY <1>2
  <2> QED
    BY ONLY <2>1 DEF NewIndex
<1>7. CASE HasIndex(heap[p], s.name)
  <2>1. Return(c, "ErrIndexAlreadyExists")
    BY <1>2, <1>6, <1>7 DEF CheckIndexName, Fail
  <2>2. Refuse(s, "ErrIndexAlreadyExists") => CreateIndex(s)
    BY <1>2, <1>4, <1>5, <1>7, Zenon DEF CreateIndex
  <2>3. Refuse(s, "ErrIndexAlreadyExists") => Next
    BY <1>3, <2>2 DEF Next
  <2>4. "ErrIndexAlreadyExists" \notin {NoError, Panic}
    BY DEF NoError, Panic
  <2> QED
    BY <1>1, <1>2, <1>4, <2>1, <2>3, <2>4, Refusing
<1>8. CASE ~HasIndex(heap[p], s.name)
  <2> PICK r : r = [conns[c] EXCEPT !.pc = "install"]
    OBVIOUS
  <2>1. Goto(c, r) /\ UNCHANGED settled
    BY <1>2, <1>6, <1>8 DEF CheckIndexName
  <2>2. /\ r.pc = "install" /\ r.table = conns[c].table /\ r.key = conns[c].key
        /\ r.call = conns[c].call
    BY <1>4 DEF ConnsInv, Idle
  <2>3. /\ conns'[c] = r /\ Settled' /\ UNCHANGED <<tables, trees>>
        /\ (Progress(c)' => SerialInv' /\ [Next]_vars)
    BY <1>1, <1>2, <1>4, <2>1, <2>2, Reading
  <2>4. Stmt(c)' = s
    BY <2>2, <2>3 DEF Stmt
  <2>5. Indexing(c)'
    BY <1>2, <1>5, <1>8, <2>2, <2>3, <2>4 DEF Indexing, Exists
  <2>6. InstallingIndex(c)'
    BY <1>1, <1>2, <2>2, <2>3, <2>4, <2>5 DEF InstallingIndex
  <2> QED
    BY <2>3, <2>6 DEF Progress
<1> QED
  BY <1>7, <1>8

\* The table that CREATE TABLE makes has no index before its key's.
LEMMA Bare ==
  ASSUME SerialInv, NEW c \in Conns, NEW pc, Local(c, pc), pc \notin {"idle", "rows"},
         InstallingKey(c)
  PROVE  /\ Alive /\ Busy(c) /\ MemoryInv /\ ConnsInv /\ Stmt(c).table \in TableNames
         /\ heap[conns[c].table].indexes = <<>>
<1> PICK s, n, t : s = Stmt(c) /\ n = s.table /\ t = FirstColumns(s.cols, Len(s.cols))
  OBVIOUS
<1>1. Alive /\ Busy(c) /\ conns[c].call \in Statements
  BY Underway
<1>2. MemoryInv /\ ConnsInv
  BY <1>1, Executed
<1>3. Holds(c, n, t, NoEntries) /\ conns[c].call.kind = "create table"
  BY DEF InstallingKey, Creating
<1>4. n \in TableNames
  BY <1>1, <1>3, StatementShape, StatementsAssumption DEF Stmt
<1>5. /\ Shown(n, t, NoEntries) /\ conns[c].table = catalogue[n] /\ catalogue[n] # none
      /\ t.indexes = <<>>
  BY <1>3 DEF Holds, FirstColumns
<1> PICK h : h = heap[conns[c].table]
  OBVIOUS
<1>6. h \in HeapTable /\ Len(t.indexes) = Len(h.indexes)
  <2>1. h = heap[catalogue[n]]
    BY <1>5
  <2> QED
    BY ONLY <1>2, <1>4, <1>5, <2>1, NameShown
<1>7. h.indexes \in Seq(HeapIndex) /\ Len(h.indexes) = 0
  BY <1>5, <1>6 DEF HeapTable
<1>8. h.indexes = <<>>
  BY ONLY <1>7
<1> QED
  BY <1>1, <1>2, <1>4, <1>8

\* A step of installing the key that only reads
LEMMA KeyGoesOn ==
  ASSUME SerialInv, NEW c \in Conns, Alive, Busy(c), InstallingKey(c),
         Stmt(c).table \in TableNames, ConnsInv',
         UNCHANGED <<catalogue, heap, forest, process, asked, accepted, settled>>,
         NEW r, Goto(c, r), r.pc \in {"install", "join"}, r.table = conns[c].table,
         r.call = conns[c].call, r.key = conns[c].key, r.pc = "join" => r.slice = <<>>
  PROVE  SerialInv' /\ [Next]_vars
<1> PICK s, n, t : s = Stmt(c) /\ n = s.table /\ t = FirstColumns(s.cols, Len(s.cols))
  OBVIOUS
<1>1. Creating(c) /\ Holds(c, n, t, NoEntries)
  BY DEF InstallingKey
<1>2. /\ conns'[c] = r /\ UNCHANGED <<tables, trees>> /\ AllBalanced'
      /\ Holds(c, n, t, NoEntries)'
      /\ (Progress(c)' => SerialInv' /\ [Next]_vars)
  <2>1. AllBalanced /\ r.pc \notin {"idle", "rows"}
    BY <1>1 DEF Creating
  <2> QED
    BY <1>1, <2>1, Reading
<1>3. Stmt(c)' = s
  BY <1>2 DEF Stmt
<1>4. Creating(c)'
  BY <1>1, <1>2, <1>3 DEF Creating
<1>5. InstallingKey(c)'
  BY <1>2, <1>3, <1>4 DEF InstallingKey
<1> QED
  BY <1>2, <1>5 DEF Progress

\* CheckIndexName, for the primary key of a new table
LEMMA CheckKeyNameStep ==
  ASSUME SerialInv, NEW c \in Conns, CheckIndexName(c), InstallingKey(c)
  PROVE  SerialInv' /\ [Next]_vars
<1>1. /\ Local(c, "names")
      /\ UNCHANGED <<catalogue, heap, forest, accepted, process, asked>>
  BY DEF CheckIndexName
<1>2. /\ Alive /\ Busy(c) /\ ConnsInv /\ Stmt(c).table \in TableNames
      /\ heap[conns[c].table].indexes = <<>>
  BY <1>1, Bare
<1>3. ~HasIndex(heap[conns[c].table], conns[c].key.name)
  BY <1>2 DEF HasIndex
<1> PICK r : r = [conns[c] EXCEPT !.pc = "install"]
  OBVIOUS
<1>4. Goto(c, r) /\ UNCHANGED settled
  BY <1>3 DEF CheckIndexName
<1>5. /\ r.pc = "install" /\ r.table = conns[c].table /\ r.key = conns[c].key
      /\ r.call = conns[c].call
  BY <1>2 DEF ConnsInv, Idle
<1>6. ConnsInv'
  BY ConnsKept DEF Run
<1> QED
  BY <1>1, <1>2, <1>4, <1>5, <1>6, KeyGoesOn

\* ReadIndexes, for the primary key of a new table
LEMMA ReadNoIndexesStep ==
  ASSUME SerialInv, NEW c \in Conns, ReadIndexes(c), InstallingKey(c)
  PROVE  SerialInv' /\ [Next]_vars
<1> PICK r : r = [conns[c] EXCEPT !.pc = "join", !.slice = heap[conns[c].table].indexes]
  OBVIOUS
<1>1. /\ Local(c, "install") /\ Goto(c, r)
      /\ UNCHANGED <<catalogue, heap, forest, process, asked, accepted, settled>>
  BY DEF ReadIndexes
<1>2. /\ Alive /\ Busy(c) /\ ConnsInv /\ Stmt(c).table \in TableNames
      /\ heap[conns[c].table].indexes = <<>>
  BY <1>1, Bare
<1>3. /\ r.pc = "join" /\ r.table = conns[c].table /\ r.key = conns[c].key
      /\ r.call = conns[c].call /\ r.slice = <<>>
  BY <1>2 DEF ConnsInv, Idle
<1>4. ConnsInv'
  BY ConnsKept DEF Run
<1> QED
  BY <1>1, <1>2, <1>3, <1>4, KeyGoesOn

\* ReadIndexes, for CREATE INDEX
LEMMA ReadIndexesStep ==
  ASSUME SerialInv, NEW c \in Conns, ReadIndexes(c), InstallingIndex(c)
  PROVE  SerialInv' /\ [Next]_vars
<1> PICK s, r : /\ s = Stmt(c)
                /\ r = [conns[c] EXCEPT !.pc = "join", !.slice = heap[conns[c].table].indexes]
  OBVIOUS
<1>1. /\ Local(c, "install") /\ Goto(c, r)
      /\ UNCHANGED <<catalogue, heap, forest, process, asked, accepted, settled>>
  BY DEF ReadIndexes
<1>2. Alive /\ Busy(c) /\ DOMAIN conns[c] = DOMAIN Idle
  BY <1>1, Underway
<1>3. /\ r.pc = "join" /\ r.table = conns[c].table /\ r.key = conns[c].key
      /\ r.call = conns[c].call /\ r.slice = heap[conns[c].table].indexes
  BY <1>2 DEF Idle
<1>4. ConnsInv'
  BY ConnsKept DEF Run
<1>5. /\ Settled /\ Indexing(c) /\ conns[c].key = NewIndex(s)
      /\ conns[c].table = catalogue[s.table]
  BY DEF InstallingIndex
<1>6. /\ conns'[c] = r /\ Settled' /\ UNCHANGED <<tables, trees>>
      /\ (Progress(c)' => SerialInv' /\ [Next]_vars)
  BY <1>1, <1>2, <1>3, <1>4, <1>5, Reading
<1>7. Stmt(c)' = s
  BY <1>3, <1>6 DEF Stmt
<1>8. Indexing(c)'
  BY <1>3, <1>5, <1>6, <1>7 DEF Indexing, Exists
<1>9. InstallingIndex(c)'
  BY <1>1, <1>3, <1>5, <1>6, <1>7, <1>8 DEF InstallingIndex
<1> QED
  BY <1>6, <1>9 DEF Progress

\* A literal on its own may name a column that is not there; no more can go wrong.
LEMMA LiteralErrors ==
  ASSUME NEW lit
  PROVE  EvaluateConstant(lit).err # Panic
<1> DEFINE found == {i \in 1 .. Len(<<>>) : <<>>[i] = lit.name}
           i == SelectInSeq(<<>>, LAMBDA d : d = lit.name)
<1>1. i = 0
  <2>1. i = IF found # {} THEN Min(found) ELSE 0
    BY Zenon DEF SelectInSeq
  <2>2. found = {}
    <3>1. Len(<<>>) = 0 /\ 1 .. 0 = {}
      OBVIOUS
    <3> QED
      BY <3>1
  <2> HIDE DEF i, found
  <2> QED
    BY <2>1, <2>2
<1>2. CASE lit.kind = "identifier"
  <2>1. EvaluateConstant(lit) =
          CASE i = 0 -> Failure("ErrColumnDoesNotExist")
            [] i # 0 /\ (noRow = noRow \/ i \notin DOMAIN noRow \cap DOMAIN <<>>) -> Failure(Panic)
            [] OTHER -> Value(noRow[i], <<>>[i])
    BY <1>2, Zenon DEF EvaluateConstant, EvaluateLiteralCell
  <2> HIDE DEF i
  <2>2. EvaluateConstant(lit) = Failure("ErrColumnDoesNotExist")
    BY <1>1, <2>1, Zenon
  <2> QED
    BY <2>2 DEF Failure, Panic
<1>3. CASE lit.kind # "identifier"
  <2>1. \E x, y : EvaluateConstant(lit) = Value(x, y)
    BY <1>3, Zenon DEF EvaluateConstant, EvaluateLiteralCell
  <2>2. \A x, y : Value(x, y).err = NoError
    BY DEF Value
  <2>3. NoError # Panic
    BY DEF NoError, Panic
  <2> QED
    BY <2>1, <2>2, <2>3
<1> QED
  BY <1>2, <1>3

\* LookUpInsert
LEMMA LookUpInsertStep ==
  ASSUME SerialInv, NEW c \in Conns, LookUpInsert(c)
  PROVE  SerialInv' /\ [Next]_vars
<1> PICK s, n, p : s = Stmt(c) /\ n = s.table /\ p = catalogue[n]
  OBVIOUS
<1>1. /\ Executes(c, "insert")
      /\ UNCHANGED <<catalogue, heap, forest, accepted, process, asked>>
  BY DEF LookUpInsert
<1>2. /\ Alive /\ Busy(c) /\ Settled /\ conns[c].call.kind = "insert"
      /\ s \in Inserts /\ n \in TableNames
  BY <1>1, Called, StatementsAssumption
<1>3. MemoryInv /\ Running /\ ConnsInv /\ ConnsInv'
  BY <1>2, Executed, ConnsKept DEF Run
<1>4. Pointer(c) = p
  BY DEF Pointer
<1>5. p # none <=> Exists(n)
  BY <1>2, <1>3, Found
<1>6. CASE p = none
  <2>1. Return(c, "ErrTableDoesNotExist")
    BY <1>4, <1>6 DEF LookUpInsert
  <2>2. Refuse(s, "ErrTableDoesNotExist") => Insert(s)
    BY <1>3, <1>5, <1>6, Zenon DEF Insert
  <2>3. Refuse(s, "ErrTableDoesNotExist") => Next
    BY <1>2, <2>2 DEF Next
  <2>4. "ErrTableDoesNotExist" \notin {NoError, Panic}
    BY DEF NoError, Panic
  <2> QED
    BY <1>1, <1>2, <1>3, <2>1, <2>3, <2>4, Refusing
<1>7. CASE p # none
  <2> PICK r : r = [conns[c] EXCEPT !.pc = "values", !.table = p]
    OBVIOUS
  <2>1. Goto(c, r) /\ UNCHANGED settled
    BY <1>4, <1>7 DEF LookUpInsert
  <2>2. r.pc = "values" /\ r.table = p /\ r.call = conns[c].call
    BY <1>3 DEF ConnsInv, Idle
  <2>3. /\ conns'[c] = r /\ Settled' /\ UNCHANGED <<tables, trees>>
        /\ (Progress(c)' => SerialInv' /\ [Next]_vars)
    BY <1>1, <1>2, <1>3, <2>1, <2>2, Reading
  <2>4. Valuing(c)'
    BY <1>1, <1>2, <1>5, <1>7, <2>2, <2>3 DEF Valuing, Stmt, Exists
  <2> QED
    BY <2>3, <2>4 DEF Progress
<1> QED
  BY <1>6, <1>7

\* CheckValues
LEMMA CheckValuesStep ==
  ASSUME SerialInv, NEW c \in Conns, CheckValues(c)
  PROVE  SerialInv' /\ [Next]_vars
<1> PICK s, n, p : s = Stmt(c) /\ n = s.table /\ p = catalogue[n]
  OBVIOUS
<1>1. /\ Local(c, "values")
      /\ UNCHANGED <<catalogue, heap, forest, accepted, process, asked>>
  BY DEF CheckValues
<1>2. /\ Alive /\ Busy(c) /\ Settled /\ conns[c].call.kind = "insert" /\ Exists(n)
      /\ conns[c].table = p /\ conns[c].call \in Statements
  <2>1. /\ Alive /\ Busy(c) /\ conns[c].pc = "values" /\ Progress(c)
        /\ conns[c].call \in Statements
    BY <1>1, Underway
  <2>2. Valuing(c)
    BY <2>1, Whereabouts
  <2> QED
    BY <2>1, <2>2 DEF Valuing
<1>3. s \in Inserts /\ n \in TableNames /\ s.values \in Seq(Exprs)
  BY <1>2, StatementShape, StatementsAssumption DEF Stmt
<1>4. MemoryInv /\ Running /\ ConnsInv /\ ConnsInv'
  BY <1>2, Executed, ConnsKept DEF Run
<1>5. heap[p].columns = tables[n].columns
  BY <1>2, <1>3, <1>4, Found
<1>6. ASSUME NEW err, err \notin {NoError, Panic}, Return(c, err),
             Refuse(s, err) => Insert(s)
      PROVE  SerialInv' /\ [Next]_vars
  <2>1. Refuse(s, err) => Next
    BY <1>3, <1>6 DEF Next
  <2> QED
    BY <1>1, <1>2, <1>4, <1>6, <2>1, Refusing
<1>7. CASE Len(s.values) # Len(heap[p].columns)
  <2>1. Return(c, "ErrMissingValues")
    BY <1>2, <1>7 DEF CheckValues
  <2>2. Refuse(s, "ErrMissingValues") => Insert(s)
    BY <1>2, <1>4, <1>5, <1>7, Zenon DEF Insert
  <2>3. "ErrMissingValues" \notin {NoError, Panic}
    BY DEF NoError, Panic
  <2> QED
    BY <1>6, <2>1, <2>2, <2>3
<1>8. CASE Len(s.values) = Len(heap[p].columns) /\ BadValues(s.values) # {}
  <2> PICK err : err = EvaluateConstant(s.values[Min(BadValues(s.values))]).err
    OBVIOUS
  <2>1. Return(c, err)
    BY <1>2, <1>8 DEF CheckValues
  <2>2. Refuse(s, err) => Insert(s)
    BY <1>2, <1>4, <1>5, <1>8, Zenon DEF Insert
  <2>3. Min(BadValues(s.values)) \in BadValues(s.values)
    <3>1. BadValues(s.values) \in SUBSET Nat
      BY <1>3 DEF BadValues
    <3> QED
      BY <1>8, <3>1, LeastNatural
  <2>4. err # NoError
    BY <2>3 DEF BadValues
  <2>5. err # Panic
    BY LiteralErrors
  <2> QED
    BY <1>6, <2>1, <2>2, <2>4, <2>5
<1>9. CASE Len(s.values) = Len(heap[p].columns) /\ BadValues(s.values) = {}
  <2> PICK r : r = [conns[c] EXCEPT !.pc = "append", !.row = RowOf(s.values)]
    OBVIOUS
  <2>1. Goto(c, r) /\ UNCHANGED settled
    BY <1>2, <1>9 DEF CheckValues
  <2>2. /\ r.pc = "append" /\ r.table = p /\ r.row = RowOf(s.values)
        /\ r.call = conns[c].call
    BY <1>2, <1>4 DEF ConnsInv, Idle
  <2>3. /\ conns'[c] = r /\ Settled' /\ UNCHANGED <<tables, trees>>
        /\ (Progress(c)' => SerialInv' /\ [Next]_vars)
    BY <1>1, <1>2, <1>4, <2>1, <2>2, Reading
  <2>4. Stmt(c)' = s
    BY <2>2, <2>3 DEF Stmt
  <2>5. Inserting(c)'
    BY <1>2, <1>5, <1>9, <2>2, <2>3, <2>4 DEF Inserting, Exists
  <2>6. AppendingRow(c)'
    BY <1>1, <2>2, <2>3, <2>4, <2>5 DEF AppendingRow
  <2> QED
    BY <2>3, <2>6 DEF Progress
<1> QED
  BY <1>7, <1>8, <1>9

------------------------------------------------------------------------------
(***************************************************************************)
(* Insert.                                                                 *)
(***************************************************************************)

\* What a connection knows while it appends a row
LEMMA WhileAppending ==
  ASSUME SerialInv, NEW c \in Conns, NEW pc \in {"append", "store"}, Local(c, pc),
         NEW s, s = Stmt(c), NEW n, n = s.table
  PROVE  /\ Alive /\ Busy(c) /\ s \in Inserts /\ n \in TableNames
         /\ MemoryInv /\ TypeOK /\ TreesMapped /\ Running /\ ConnsInv /\ OneBusy /\ IndexInv
         /\ Settled /\ AllBalanced /\ conns[c].pc = pc
         /\ DOMAIN conns[c] = DOMAIN Idle /\ Inserting(c) /\ Exists(n)
         /\ conns[c].table = catalogue[n] /\ catalogue[n] # none /\ conns[c].row \in Row
         /\ pc = "store" => conns[c].slice = tables[n].rows
<1>1. /\ Alive /\ Busy(c) /\ conns[c].pc = pc /\ Progress(c)
      /\ conns[c].call \in Statements /\ DOMAIN conns[c] = DOMAIN Idle
  BY Underway
<1>2. AppendingRow(c)
  BY <1>1, Whereabouts
<1>3. Inserting(c) /\ Settled /\ conns[c].table = catalogue[n]
      /\ (pc = "store" => conns[c].slice = tables[n].rows)
  BY <1>1, <1>2 DEF AppendingRow
<1>4. conns[c].call.kind = "insert" /\ Exists(n) /\ conns[c].row = RowOf(s.values)
  BY <1>3 DEF Inserting
<1>5. s \in Inserts
  BY <1>1, <1>4, StatementShape DEF Stmt
<1>6. n \in TableNames /\ conns[c].row \in Row
  BY <1>4, <1>5, StatementsAssumption DEF Row
<1>7. MemoryInv /\ TypeOK /\ TreesMapped /\ Running /\ ConnsInv /\ OneBusy /\ IndexInv
  BY <1>1, Executed
<1>8. catalogue[n] # none
  BY <1>3, <1>4, <1>6, <1>7, Found
<1> QED
  BY <1>1, <1>3, <1>4, <1>5, <1>6, <1>7, <1>8 DEF Settled

\* ReadRows
LEMMA ReadRowsStep ==
  ASSUME SerialInv, NEW c \in Conns, ReadRows(c)
  PROVE  SerialInv' /\ [Next]_vars
<1> PICK s, n : s = Stmt(c) /\ n = s.table
  OBVIOUS
<1>1. /\ Local(c, "append")
      /\ UNCHANGED <<catalogue, heap, forest, process, asked, accepted, settled>>
  BY DEF ReadRows
<1>2. /\ Alive /\ Busy(c) /\ s \in Inserts /\ n \in TableNames
      /\ MemoryInv /\ ConnsInv /\ OneBusy
      /\ Settled /\ DOMAIN conns[c] = DOMAIN Idle /\ Inserting(c) /\ Exists(n)
      /\ conns[c].table = catalogue[n]
  BY <1>1, WhileAppending
<1>3. ConnsInv'
  BY ConnsKept DEF Run
<1> PICK r : r = [conns[c] EXCEPT !.pc = "store", !.slice = heap[conns[c].table].rows]
  OBVIOUS
<1>4. /\ r.pc = "store" /\ r.table = conns[c].table /\ r.call = conns[c].call
      /\ r.row = conns[c].row /\ r.slice = heap[conns[c].table].rows
  BY <1>2 DEF Idle
<1>5. Goto(c, r)
  BY DEF ReadRows
<1>6. conns'[c] = r
  BY <1>2, <1>5, Executed, OthersIdle
<1>7. Stmt(c)' = s
  BY <1>4, <1>6 DEF Stmt
<1>8. MemoryInv' /\ Settled'
  BY <1>1, <1>2, StillSettled
<1>9. tables' = tables /\ catalogue' = catalogue
  BY <1>1 DEF settled, vars
<1>10. r.slice = tables[n].rows
  BY <1>2, <1>4, Found
<1>11. Inserting(c)'
  BY <1>2, <1>4, <1>6, <1>7, <1>9 DEF Inserting, Exists
<1>12. AppendingRow(c)'
  BY <1>2, <1>4, <1>6, <1>7, <1>8, <1>9, <1>10, <1>11 DEF AppendingRow
<1>13. Progress(c)'
  BY <1>12 DEF Progress
<1> QED
  BY <1>1, <1>2, <1>3, <1>4, <1>5, <1>8, <1>13, Working

\* A table gets other rows.
LEMMA PlainWithRows ==
  ASSUME NEW h \in HeapTable, NEW rows \in Seq(Row), NEW u, u = [h EXCEPT !.rows = rows],
         NEW t, t = Plain(h)
  PROVE  /\ u \in HeapTable /\ u.indexes = h.indexes /\ u.rows = rows
         /\ Plain(u) = [t EXCEPT !.rows = rows]
<1>1. /\ h.columns \in Seq(ColumnNames) /\ h.columnTypes \in Seq(Datatypes)
      /\ h.rows \in Seq(Row) /\ h.indexes \in Seq(HeapIndex)
  BY DEF HeapTable
<1>2. /\ u.columns = h.columns /\ u.columnTypes = h.columnTypes
      /\ u.rows = rows /\ u.indexes = h.indexes
  BY DEF HeapTable
<1>3. u \in HeapTable
  BY <1>2 DEF HeapTable
<1> PICK xs : xs = [k \in DOMAIN h.indexes |-> PlainIndex(h.indexes[k])]
  OBVIOUS
<1>4. Plain(h) = [columns |-> h.columns, columnTypes |-> h.columnTypes, rows |-> h.rows,
                  indexes |-> xs]
  BY Zenon DEF Plain
<1>5. Plain(u) = [columns |-> h.columns, columnTypes |-> h.columnTypes, rows |-> rows,
                  indexes |-> xs]
  <2>1. Plain(u) = [columns |-> u.columns, columnTypes |-> u.columnTypes, rows |-> u.rows,
                    indexes |-> [k \in DOMAIN u.indexes |-> PlainIndex(u.indexes[k])]]
    BY Zenon DEF Plain
  <2> QED
    BY ONLY <1>2, <2>1, xs = [k \in DOMAIN h.indexes |-> PlainIndex(h.indexes[k])], Zenon
<1>6. [t EXCEPT !.rows = rows] = Plain(u)
  BY ONLY <1>4, <1>5, t = Plain(h)
<1> QED
  BY <1>2, <1>3, <1>6

\* Before the first index has added the row, the trees are as they were.
LEMMA NothingAdded ==
  ASSUME NEW n \in TableNames, NEW row, NEW at, ShownAsSettled(n)
  PROVE  Added(n, row, at, 0) = trees[n]
<1>1. trees[n] = [x \in IndexNames |-> trees[n][x]]
  BY ShownAt DEF ShownAsSettled, NoEntries, TreesOf
<1>2. ASSUME NEW x \in IndexNames PROVE Added(n, row, at, 0)[x] = trees[n][x]
  <2>1. {k \in 1 .. 0 : tables[n].indexes[k].name = x} = {}
    OBVIOUS
  <2> QED
    BY <2>1 DEF Added
<1>3. Added(n, row, at, 0) = [x \in IndexNames |-> Added(n, row, at, 0)[x]]
  BY DEF Added
<1> QED
  BY ONLY <1>1, <1>2, <1>3, Zenon

\* StoreRows
LEMMA StoreRowsStep ==
  ASSUME SerialInv, NEW c \in Conns, StoreRows(c)
  PROVE  SerialInv' /\ [Next]_vars
<1> PICK s, n, p, h, row, t :
      /\ s = Stmt(c) /\ n = s.table /\ p = catalogue[n] /\ h = heap[p]
      /\ row = conns[c].row /\ t = tables[n]
  OBVIOUS
<1>1. /\ Local(c, "store")
      /\ UNCHANGED <<catalogue, forest, process, asked, accepted, settled>>
  BY DEF StoreRows
<1>2. /\ Alive /\ Busy(c) /\ s \in Inserts /\ n \in TableNames
      /\ MemoryInv /\ ConnsInv /\ OneBusy /\ IndexInv
      /\ Settled /\ AllBalanced /\ DOMAIN conns[c] = DOMAIN Idle /\ Inserting(c) /\ Exists(n)
      /\ conns[c].table = p /\ p # none /\ row \in Row /\ conns[c].slice = t.rows
  BY <1>1, WhileAppending
<1>3. ConnsInv'
  BY ConnsKept DEF Run
<1>4. p \in DOMAIN heap /\ h \in HeapTable /\ t = Plain(h) /\ t.rows = h.rows
  BY <1>2, Found
<1> PICK u : u = [h EXCEPT !.rows = Append(h.rows, row)]
  OBVIOUS
<1>5. /\ u \in HeapTable /\ u.indexes = h.indexes /\ u.rows = Append(h.rows, row)
      /\ Plain(u) = WithNewRow(t, row)
  <2> PICK rows : rows = Append(h.rows, row)
    OBVIOUS
  <2>1. rows \in Seq(Row)
    BY <1>2, <1>4 DEF HeapTable
  <2>2. /\ u \in HeapTable /\ u.indexes = h.indexes /\ u.rows = rows
        /\ Plain(u) = [t EXCEPT !.rows = rows]
    <3>1. u = [h EXCEPT !.rows = rows]
      OBVIOUS
    <3> QED
      BY ONLY <1>4, <2>1, <3>1, PlainWithRows
  <2> QED
    BY <1>4, <2>2 DEF WithNewRow
<1>6. heap' = [heap EXCEPT ![p] = u]
  BY <1>2, <1>4 DEF StoreRows
<1>7. /\ MemoryInv' /\ OthersShown(n)
      /\ Shown(n, WithNewRow(t, row), trees[n])'
  <2>1. accepted' \in Seq(Seq(Row)) /\ Len(accepted') = Len(accepted)
    BY <1>1, <1>2 DEF MemoryInv
  <2>2. /\ u.indexes = heap[catalogue[n]].indexes /\ heap' = [heap EXCEPT ![catalogue[n]] = u]
        /\ catalogue[n] # none /\ catalogue' = catalogue /\ forest' = forest
    BY <1>1, <1>2, <1>5, <1>6
  <2>3. Shown(n, t, trees[n])
    BY <1>2 DEF Settled, ShownAsSettled
  <2>4. /\ MemoryInv' /\ OthersShown(n)
        /\ \A a, f : Shown(n, a, f) => Shown(n, Plain(u), f)'
    BY ONLY <1>2, <1>5, <2>1, <2>2, TableReplaced
  <2>5. Shown(n, Plain(u), trees[n])'
    <3> PICK f : f = trees[n]
      OBVIOUS
    <3>1. Shown(n, Plain(u), f)'
      BY <2>3, <2>4
    <3>2. trees' = trees
      BY <1>1 DEF settled, vars
    <3> QED
      BY <3>1, <3>2
  <2> QED
    BY <1>5, <2>4, <2>5
<1> PICK r : r = [conns[c] EXCEPT !.pc = "indexes"]
  OBVIOUS
<1>8. /\ r.pc = "indexes" /\ r.table = p /\ r.call = conns[c].call /\ r.row = row
  BY <1>2 DEF Idle
<1>9. Goto(c, r)
  BY DEF StoreRows
<1>10. conns'[c] = r
  BY <1>2, <1>9, Executed, OthersIdle
<1>11. Stmt(c)' = s
  BY <1>8, <1>10 DEF Stmt
<1>12. UNCHANGED <<tables, trees>>
  BY <1>1 DEF settled, vars
<1>13. Inserting(c)'
  BY <1>2, <1>8, <1>10, <1>11, <1>12 DEF Inserting, Exists
<1>14. Holds(c, n, WithNewRow(t, row), Added(n, row, Len(t.rows), 0))'
  <2> PICK a, f : a = WithNewRow(t, row) /\ f = trees[n]
    OBVIOUS
  <2>1. Holds(c, n, a, f)'
    <3>1. conns'[c].table = catalogue'[n] /\ catalogue'[n] # none
      BY <1>1, <1>2, <1>8, <1>10
    <3>2. Shown(n, a, f)'
      BY <1>7, <1>12
    <3>3. \A q \in TableNames \ {n} : ShownAsSettled(q)
      BY <1>2 DEF Settled
    <3> QED
      BY <1>2, <1>7, <1>12, <3>1, <3>2, <3>3, HoldsAfter
  <2>2. Added(n, row, Len(t.rows), 0) = f
    BY <1>2, NothingAdded DEF Settled
  <2>3. Added(n, row, Len(t.rows), 0)' = Added(n, row, Len(t.rows), 0)
    BY <1>12 DEF Added
  <2> QED
    BY <2>1, <2>2, <2>3
<1>15. heap'[p].rows = Append(accepted[p], row) /\ \A q \in DOMAIN heap' \ {p} : Balanced(q)'
  BY <1>1, <1>2, <1>4, <1>5, <1>6 DEF AllBalanced, Balanced
<1>16. AddingRow(c)'
  <2>1. 0 \in 0 .. Len(t.indexes)
    BY <1>2, TableShape DEF IndexInv
  <2>2. \A k \in 1 .. 0 : InsertError(n, row, k)' = NoError
    OBVIOUS
  <2> QED
    BY <1>1, <1>8, <1>10, <1>11, <1>12, <1>13, <1>14, <1>15, <2>1, <2>2 DEF AddingRow
<1>17. Progress(c)'
  BY <1>16 DEF Progress
<1> QED
  BY <1>1, <1>2, <1>3, <1>7, <1>8, <1>9, <1>17, Working

\* What a connection knows while the indexes add its row
InInserting(c, pc, s, n, p, h, t, row) ==
  /\ Alive /\ Busy(c) /\ s \in Inserts /\ n \in TableNames /\ conns[c].pc = pc
  /\ MemoryInv /\ TypeOK /\ TreesMapped /\ Running /\ ConnsInv /\ OneBusy /\ IndexInv
  /\ DOMAIN conns[c] = DOMAIN Idle /\ Inserting(c) /\ Exists(n)
  /\ conns[c].table = p /\ p # none /\ p \in DOMAIN heap /\ h \in HeapTable
  /\ row \in Row /\ t \in Table /\ t.rows \in Seq(Row) /\ t.indexes \in Seq(Index)
  /\ Shown(n, WithNewRow(t, row), TreesOf(h, forest))
  /\ \A q \in TableNames \ {n} : ShownAsSettled(q)
  /\ h.columns = t.columns /\ h.columnTypes = t.columnTypes
  /\ h.rows = Append(t.rows, row) /\ h.rows = Append(accepted[p], row)
  /\ \A q \in DOMAIN heap \ {p} : Balanced(q)
  /\ DOMAIN h.indexes = DOMAIN t.indexes /\ Len(h.indexes) = Len(t.indexes)
  /\ \A k \in DOMAIN h.indexes : t.indexes[k] = PlainIndex(h.indexes[k])
  /\ WithNewRow(t, row).indexes = t.indexes

LEMMA WhileInserting ==
  ASSUME SerialInv, NEW c \in Conns, NEW pc, pc \notin {"idle", "rows"}, Local(c, pc),
         AddingRow(c),
         NEW s, s = Stmt(c), NEW n, n = s.table, NEW p, p = catalogue[n],
         NEW h, h = heap[p], NEW t, t = tables[n], NEW row, row = conns[c].row
  PROVE  InInserting(c, pc, s, n, p, h, t, row)
<1>1. /\ Alive /\ Busy(c) /\ conns[c].pc = pc
      /\ conns[c].call \in Statements /\ DOMAIN conns[c] = DOMAIN Idle
  BY Underway
<1>2. /\ Inserting(c) /\ heap[conns[c].table].rows = Append(accepted[conns[c].table], row)
      /\ \A q \in DOMAIN heap \ {conns[c].table} : Balanced(q)
  BY DEF AddingRow
<1>3. conns[c].call.kind = "insert" /\ Exists(n) /\ row = RowOf(s.values)
  BY <1>2 DEF Inserting
<1>4. s \in Inserts
  BY <1>1, <1>3, StatementShape DEF Stmt
<1>5. n \in TableNames /\ row \in Row
  BY <1>3, <1>4, StatementsAssumption DEF Row
<1>6. MemoryInv /\ TypeOK /\ TreesMapped /\ Running /\ ConnsInv /\ OneBusy /\ IndexInv
  BY <1>1, Executed
<1>7. t \in Table /\ t.rows \in Seq(Row) /\ t.indexes \in Seq(Index)
  BY <1>3, <1>5, <1>6, TableShape DEF IndexInv
<1> PICK w : w = WithNewRow(t, row)
  OBVIOUS
<1>8. PICK m \in 0 .. Len(t.indexes) : Holds(c, n, w, Added(n, row, Len(t.rows), m))
  BY DEF AddingRow
<1> PICK f : f = Added(n, row, Len(t.rows), m)
  OBVIOUS
<1>9. /\ conns[c].table = p /\ p # none /\ Shown(n, w, f)
      /\ \A q \in TableNames \ {n} : ShownAsSettled(q)
  BY <1>8 DEF Holds
<1>10. /\ p \in DOMAIN heap /\ h \in HeapTable /\ f = TreesOf(h, forest)
       /\ w.columns = h.columns /\ w.columnTypes = h.columnTypes /\ w.rows = h.rows
       /\ DOMAIN w.indexes = DOMAIN h.indexes /\ Len(w.indexes) = Len(h.indexes)
       /\ \A k \in DOMAIN h.indexes : w.indexes[k] = PlainIndex(h.indexes[k])
  <2>1. catalogue[n] # none /\ p = catalogue[n] /\ h = heap[catalogue[n]]
    BY <1>9
  <2> QED
    BY ONLY <1>5, <1>6, <1>9, <2>1, NameShown
<1>11. /\ w.columns = t.columns /\ w.columnTypes = t.columnTypes
       /\ w.rows = Append(t.rows, row) /\ w.indexes = t.indexes
  BY <1>7 DEF WithNewRow, Table
<1>12. /\ h.columns = t.columns /\ h.columnTypes = t.columnTypes
       /\ h.rows = Append(t.rows, row)
       /\ DOMAIN h.indexes = DOMAIN t.indexes /\ Len(h.indexes) = Len(t.indexes)
       /\ \A k \in DOMAIN h.indexes : t.indexes[k] = PlainIndex(h.indexes[k])
  BY ONLY <1>10, <1>11
<1>13. h.rows = Append(accepted[p], row) /\ \A q \in DOMAIN heap \ {p} : Balanced(q)
  BY <1>2, <1>9
<1>14. Shown(n, w, TreesOf(h, forest))
  BY <1>9, <1>10
<1> QED
  BY <1>1, <1>2, <1>3, <1>4, <1>5, <1>6, <1>7, <1>9, <1>10, <1>11, <1>12, <1>13, <1>14 DEF InInserting

\* The tasks that are left
LEMMA IndexTasksLeft ==
  ASSUME NEW xs \in Seq(HeapIndex), NEW m \in 0 .. Len(xs), NEW todo, todo = IndexTasks(xs, m)
  PROVE  /\ todo = <<>> <=> m = Len(xs)
         /\ todo # <<>> => /\ m < Len(xs) /\ m + 1 \in DOMAIN xs
                           /\ Head(todo) = Task(xs[m + 1], last)
                           /\ Tail(todo) = IndexTasks(xs, m + 1)
<1>1. Len(xs) \in Nat /\ DOMAIN xs = 1 .. Len(xs)
  OBVIOUS
<1> PICK l : l = Len(xs)
  OBVIOUS
<1>2. l - m \in Nat /\ todo = [k \in 1 .. l - m |-> Task(xs[m + k], last)]
  BY <1>1 DEF IndexTasks
<1> PICK S : S = {todo[k] : k \in 1 .. l - m}
  OBVIOUS
<1>3. todo \in Seq(S) /\ Len(todo) = l - m
  BY ONLY <1>2, S = {todo[k] : k \in 1 .. l - m}
<1>4. todo = <<>> <=> m = l
  <2>1. todo = <<>> <=> Len(todo) = 0
    BY ONLY <1>3
  <2>2. l \in Nat /\ m \in 0 .. l
    BY <1>1
  <2> QED
    BY ONLY <1>3, <2>1, <2>2
<1>5. ASSUME todo # <<>>
      PROVE  /\ m < l /\ m + 1 \in 1 .. l /\ Head(todo) = Task(xs[m + 1], last)
             /\ Tail(todo) = IndexTasks(xs, m + 1)
  <2>1. m < l /\ m + 1 \in 1 .. l
    BY <1>1, <1>4, <1>5
  <2>2. Head(todo) = todo[1] /\ 1 \in 1 .. l - m
    BY <1>2, <1>3, <2>1
  <2>3. todo[1] = Task(xs[m + 1], last)
    BY <1>2, <2>2
  <2>4. Tail(todo) = [k \in 1 .. l - m - 1 |-> todo[k + 1]]
    BY ONLY <1>2, <1>3, <2>1, m \in 0 .. Len(xs)
  <2>5. \A k \in 1 .. l - m - 1 : k + 1 \in 1 .. l - m /\ m + (k + 1) = (m + 1) + k
    BY ONLY <1>1, <2>1, l = Len(xs), m \in 0 .. Len(xs)
  <2>6. l - m - 1 = l - (m + 1)
    BY ONLY <1>1, <2>1, l = Len(xs), m \in 0 .. Len(xs)
  <2>7. \A k \in 1 .. l - m - 1 : todo[k + 1] = Task(xs[(m + 1) + k], last)
    BY ONLY <1>2, <2>5
  <2>8. IndexTasks(xs, m + 1) = [k \in 1 .. l - m - 1 |-> Task(xs[(m + 1) + k], last)]
    BY <2>6 DEF IndexTasks
  <2> QED
    BY ONLY <2>1, <2>2, <2>3, <2>4, <2>7, <2>8
<1> QED
  BY <1>1, <1>4, <1>5

\* A connection holds what it held.
LEMMA HoldsStill ==
  ASSUME MemoryInv, NEW c, NEW n \in TableNames, NEW t, NEW f, Holds(c, n, t, f),
         UNCHANGED <<catalogue, heap, forest, accepted, tables, trees>>,
         conns'[c].table = conns[c].table
  PROVE  Holds(c, n, t, f)'
BY MemoryUnmoved DEF Holds, ShownAsSettled, Shown

\* Where the method is among the indexes, of which m have added the row
AmongIndexes(r, t, xs, m, err, key) ==
  \/ r.pc = "indexes" /\ m = 0
  \/ r.pc = "add" /\ r.todo = IndexTasks(xs, m)
  \/ /\ r.todo = IndexTasks(xs, m) /\ m < Len(t.indexes)
     /\ AmidRow(r, Len(t.rows), key, err)
  \/ /\ r.pc \in {"drop", "reslice"} /\ m < Len(t.indexes)
     /\ r.err = err /\ err \notin {NoError, Panic}
     /\ r.pc = "reslice" => r.slice = t.rows

\* What it takes to be among the indexes still
StillInserting(c, n, t, row, p, r, m) ==
  /\ Inserting(c) /\ n = Stmt(c).table /\ t = tables[n] /\ row = conns[c].row
  /\ UNCHANGED <<heap, accepted, tables, trees>>
  /\ heap[p].rows = Append(accepted[p], row) /\ \A q \in DOMAIN heap \ {p} : Balanced(q)
  /\ conns'[c] = r /\ r.call = conns[c].call /\ r.row = row /\ r.table = p
  /\ m \in 0 .. Len(t.indexes)
  /\ Holds(c, n, WithNewRow(t, row), Added(n, row, Len(t.rows), m))'
  /\ \A k \in 1 .. m : InsertError(n, row, k) = NoError
  /\ AmongIndexes(r, t, heap[p].indexes, m, InsertError(n, row, m + 1),
                  IndexKey(t, row, t.indexes[m + 1].exp))

\* The row is being added still.
LEMMA RowGoesOn ==
  ASSUME NEW c, NEW n, NEW t, NEW row, NEW p, NEW r, NEW m,
         StillInserting(c, n, t, row, p, r, m)
  PROVE  AddingRow(c)'
<1> USE DEF StillInserting
<1>1. Stmt(c)' = Stmt(c)
  BY DEF Stmt
<1>2. Inserting(c)'
  BY <1>1 DEF Inserting, Exists
<1>3. \A k : InsertError(n, row, k)' = InsertError(n, row, k)
  BY DEF InsertError
<1>4. heap'[p].rows = Append(accepted'[p], row) /\ \A q \in DOMAIN heap' \ {p} : Balanced(q)'
  BY DEF Balanced
<1>5. \/ r.pc = "indexes" /\ m = 0
      \/ r.pc = "add" /\ r.todo = IndexTasks(heap'[p].indexes, m)
      \/ /\ r.todo = IndexTasks(heap'[p].indexes, m) /\ m < Len(t.indexes)
         /\ AmidRow(r, Len(t.rows), IndexKey(t, row, t.indexes[m + 1].exp),
                    InsertError(n, row, m + 1)')
      \/ /\ r.pc \in {"drop", "reslice"} /\ m < Len(t.indexes)
         /\ r.err = InsertError(n, row, m + 1)' /\ r.err \notin {NoError, Panic}
         /\ r.pc = "reslice" => r.slice = t.rows
  BY <1>3 DEF AmongIndexes
<1> QED
  BY <1>1, <1>2, <1>3, <1>4, <1>5 DEF AddingRow

\* The same, of where the method is now
LEMMA RowGoingOn ==
  ASSUME NEW c, AddingRow(c), NEW n, n = Stmt(c).table, NEW t, t = tables[n],
         NEW row, row = conns[c].row
  PROVE  \E m \in 0 .. Len(t.indexes) :
           /\ Holds(c, n, WithNewRow(t, row), Added(n, row, Len(t.rows), m))
           /\ \A k \in 1 .. m : InsertError(n, row, k) = NoError
           /\ AmongIndexes(conns[c], t, heap[conns[c].table].indexes, m,
                           InsertError(n, row, m + 1),
                           IndexKey(t, row, t.indexes[m + 1].exp))
BY Zenon DEF AddingRow, AmongIndexes

\* RangeOverIndexes
LEMMA RangeOverIndexesStep ==
  ASSUME SerialInv, NEW c \in Conns, RangeOverIndexes(c)
  PROVE  SerialInv' /\ [Next]_vars
<1> PICK s, n, p, h, t, row :
      /\ s = Stmt(c) /\ n = s.table /\ p = catalogue[n] /\ h = heap[p]
      /\ t = tables[n] /\ row = conns[c].row
  OBVIOUS
<1>1. /\ Local(c, "indexes")
      /\ UNCHANGED <<catalogue, heap, forest, process, asked, accepted, settled>>
  BY DEF RangeOverIndexes
<1>2. AddingRow(c)
  BY <1>1, Underway, Whereabouts
<1>3. /\ Alive /\ Busy(c) /\ n \in TableNames /\ conns[c].pc = "indexes"
      /\ MemoryInv /\ ConnsInv /\ OneBusy
      /\ DOMAIN conns[c] = DOMAIN Idle /\ Inserting(c)
      /\ conns[c].table = p /\ h \in HeapTable
      /\ h.rows = Append(accepted[p], row) /\ \A q \in DOMAIN heap \ {p} : Balanced(q)
  <2>1. InInserting(c, "indexes", s, n, p, h, t, row)
    BY <1>1, <1>2, WhileInserting
  <2> QED
    BY ONLY <2>1 DEF InInserting
<1>4. ConnsInv'
  BY ConnsKept DEF Run
<1> PICK xs : xs = h.indexes
  OBVIOUS
<1> PICK r : r = [conns[c] EXCEPT !.pc = "add",
                    !.todo = [k \in DOMAIN xs |-> Task(xs[k], last)]]
  OBVIOUS
<1>5. /\ r.pc = "add" /\ r.todo = [k \in DOMAIN xs |-> Task(xs[k], last)]
      /\ r.call = conns[c].call /\ r.row = row /\ r.table = p
  BY <1>3 DEF Idle
<1>6. r.todo = IndexTasks(xs, 0)
  <2>1. xs \in Seq(HeapIndex)
    BY <1>3 DEF HeapTable
  <2>2. DOMAIN xs = 1 .. Len(xs) - 0 /\ \A k \in DOMAIN xs : 0 + k = k
    BY <2>1
  <2> QED
    BY <1>5, <2>2 DEF IndexTasks
<1>7. Goto(c, r)
  BY <1>3 DEF RangeOverIndexes
<1>8. conns'[c] = r
  BY <1>3, <1>7, Executed, OthersIdle
<1>9. PICK m \in 0 .. Len(t.indexes) :
        /\ Holds(c, n, WithNewRow(t, row), Added(n, row, Len(t.rows), m))
        /\ m = 0
  <2> PICK m \in 0 .. Len(t.indexes) :
        /\ Holds(c, n, WithNewRow(t, row), Added(n, row, Len(t.rows), m))
        /\ AmongIndexes(conns[c], t, heap[conns[c].table].indexes, m,
                        InsertError(n, row, m + 1),
                        IndexKey(t, row, t.indexes[m + 1].exp))
    BY <1>2, RowGoingOn
  <2>1. m = 0
    BY <1>3 DEF AmongIndexes, AmidRow
  <2> QED
    BY <2>1
<1>10. UNCHANGED <<tables, trees>>
  BY <1>1 DEF settled, vars
<1>11. Holds(c, n, WithNewRow(t, row), Added(n, row, Len(t.rows), m))'
  <2> PICK w, f : w = WithNewRow(t, row) /\ f = Added(n, row, Len(t.rows), m)
    OBVIOUS
  <2>1. Holds(c, n, w, f)'
    BY <1>1, <1>3, <1>5, <1>8, <1>9, <1>10, HoldsStill
  <2>2. Added(n, row, Len(t.rows), m)' = f
    BY <1>10 DEF Added
  <2> QED
    BY <2>1, <2>2
<1>12. MemoryInv'
  BY <1>1, <1>3, MemoryUnmoved
<1>13. AddingRow(c)'
  <2>1. \A k \in 1 .. m : InsertError(n, row, k) = NoError
    BY <1>9
  <2>2. AmongIndexes(r, t, heap[p].indexes, m, InsertError(n, row, m + 1),
                     IndexKey(t, row, t.indexes[m + 1].exp))
    BY <1>5, <1>6, <1>9 DEF AmongIndexes
  <2>3. /\ Inserting(c) /\ n = Stmt(c).table /\ t = tables[n] /\ row = conns[c].row
        /\ UNCHANGED <<heap, accepted, tables, trees>>
        /\ heap[p].rows = Append(accepted[p], row) /\ \A q \in DOMAIN heap \ {p} : Balanced(q)
        /\ conns'[c] = r /\ r.call = conns[c].call /\ r.row = row /\ r.table = p
        /\ m \in 0 .. Len(t.indexes)
    BY <1>1, <1>3, <1>5, <1>8, <1>10
  <2>4. StillInserting(c, n, t, row, p, r, m)
    BY <1>11, <2>1, <2>2, <2>3 DEF StillInserting
  <2> QED
    BY ONLY <2>4, RowGoesOn
<1>14. Progress(c)'
  BY <1>13 DEF Progress
<1> QED
  BY <1>1, <1>3, <1>4, <1>5, <1>7, <1>12, <1>14, Working

\* The bounds of MemoryBackend are not reached.
LEMMA Bounded ==
  ASSUME OneAtATime, SerialInv, NEW c \in Conns, Alive, Busy(c), NEW n \in TableNames, Exists(n)
  PROVE  WithinBounds(n)
<1>1. IndexInv /\ FiniteTrees /\ Sized(Ends) /\ Ends = asked - 1
  BY Executed
<1>2. asked \in Nat /\ asked <= MaxQueries /\ MaxQueries <= MaxRows /\ MaxQueries <= MaxEntries
      /\ MaxQueries \in Nat /\ MaxRows \in Nat /\ MaxEntries \in Nat
  BY QueriesAssumption, StatementsAssumption DEF SerialInv, OneAtATime
<1>3. /\ Len(tables[n].rows) \in Nat /\ \A x \in IndexNames : Cardinality(trees[n][x]) \in Nat
      /\ Len(tables[n].rows) <= asked - 1
      /\ \A x \in IndexNames : Cardinality(trees[n][x]) <= asked - 1
  BY <1>1, SizesAreNumbers DEF Sized
<1> QED
  BY <1>2, <1>3 DEF WithinBounds

\* No index has added the row to the tree of the next.
LEMMA NextTree ==
  ASSUME IndexInv, NEW n \in TableNames, Exists(n), NEW row, NEW at,
         NEW m \in Nat, m < Len(tables[n].indexes)
  PROVE  LET x == tables[n].indexes[m + 1].name
         IN  x \in IndexNames /\ Added(n, row, at, m)[x] = trees[n][x]
<1> PICK t, x : t = tables[n] /\ x = tables[n].indexes[m + 1].name
  OBVIOUS
<1>1. t.indexes \in Seq(Index)
  BY TableShape DEF IndexInv
<1>2. m + 1 \in DOMAIN t.indexes /\ t.indexes[m + 1] \in Index
      /\ \A k \in 1 .. m : k \in DOMAIN t.indexes /\ k # m + 1
  BY <1>1
<1>3. x \in IndexNames
  BY <1>2 DEF Index
<1>4. \A k \in 1 .. m : t.indexes[k].name # x
  BY <1>2 DEF IndexInv, NamesDistinct
<1>5. {k \in 1 .. m : t.indexes[k].name = x} = {}
  BY <1>4
<1> QED
  BY <1>3, <1>5 DEF Added

\* err is what addRow returns for a key that an index x is to add.
ErrorIs(key, x, err) ==
  /\ AddRowError(key, FALSE, {}) # NoError => err = AddRowError(key, FALSE, {})
  /\ AddRowError(key, FALSE, {}) = NoError /\ HasKey(x, key.value) =>
       err = "ErrViolatesUniqueConstraint"
  /\ AddRowError(key, FALSE, {}) = NoError /\ ~HasKey(x, key.value) => err = NoError

\* The key is looked up when it is neither nil nor an error.
LEMMA RowErrors ==
  ASSUME NEW key, NEW x, NEW keys, keys = {ti.value : ti \in forest[x.tree]}
  PROVE  ErrorIs(key, x, AddRowError(key, x.unique, keys))
<1>1. HasKey(x, key.value) <=> x.unique /\ \E k \in keys : SameKey(k, key.value)
  BY Zenon DEF HasKey
<1> QED
  BY <1>1 DEF ErrorIs, AddRowError, NoError

\* The next index finds for the row what it would have found in its turn.
LEMMA NextIndexError ==
  ASSUME IndexInv, MemoryInv, NEW n \in TableNames, Exists(n), NEW row \in Row,
         NEW m \in Nat, m < Len(tables[n].indexes), catalogue[n] # none,
         NEW h, h = heap[catalogue[n]],
         Shown(n, WithNewRow(tables[n], row), Added(n, row, Len(tables[n].rows), m)),
         NEW x, x = h.indexes[m + 1],
         NEW key, key = IndexKey(h, RowAt(h.rows, (Len(h.rows) - 1) + 1), x.exp)
  PROVE  /\ Len(h.rows) - 1 = Len(tables[n].rows)
         /\ key = IndexKey(tables[n], row, tables[n].indexes[m + 1].exp)
         /\ ErrorIs(key, x, InsertError(n, row, m + 1))
         /\ forest[x.tree] = trees[n][tables[n].indexes[m + 1].name]
         /\ m + 1 \in DOMAIN h.indexes
<1> PICK t, w, f, y :
      /\ t = tables[n] /\ w = WithNewRow(t, row) /\ f = Added(n, row, Len(t.rows), m)
      /\ y = t.indexes[m + 1]
  OBVIOUS
<1>1. t \in Table /\ t.rows \in Seq(Row) /\ t.indexes \in Seq(Index)
  BY TableShape DEF IndexInv
<1>2. /\ w.columns = t.columns /\ w.columnTypes = t.columnTypes
      /\ w.rows = Append(t.rows, row) /\ w.indexes = t.indexes
  BY <1>1 DEF WithNewRow, Table
<1>3. /\ h \in HeapTable /\ w.columns = h.columns /\ w.columnTypes = h.columnTypes
      /\ w.rows = h.rows /\ DOMAIN w.indexes = DOMAIN h.indexes
      /\ \A k \in DOMAIN h.indexes : w.indexes[k] = PlainIndex(h.indexes[k])
  BY NameShown
<1>4. m + 1 \in DOMAIN t.indexes /\ m + 1 \in DOMAIN h.indexes
  BY <1>1, <1>2, <1>3
<1>5. y.name = x.name /\ y.exp = x.exp /\ y.unique = x.unique
  <2>1. y = PlainIndex(x)
    BY <1>2, <1>3, <1>4
  <2> QED
    BY <2>1 DEF PlainIndex
<1>6. Len(h.rows) - 1 = Len(t.rows) /\ RowAt(h.rows, (Len(h.rows) - 1) + 1) = row
  <2> PICK a, b : a = t.rows /\ b = h.rows
    OBVIOUS
  <2>1. a \in Seq(Row) /\ b = Append(a, row)
    BY <1>1, <1>2, <1>3
  <2>2. /\ Len(b) - 1 = Len(a) /\ (Len(b) - 1) + 1 \in DOMAIN b
        /\ b[(Len(b) - 1) + 1] = row
    BY ONLY <2>1, row \in Row
  <2> QED
    BY <2>2 DEF RowAt
<1>7. key = IndexKey(t, row, y.exp)
  BY <1>2, <1>3, <1>5, <1>6 DEF IndexKey
<1>8. f[y.name] = forest[x.tree]
  <2>1. \A i, j \in DOMAIN w.indexes : w.indexes[i].name = w.indexes[j].name => i = j
    BY <1>2 DEF IndexInv, NamesDistinct
  <2>2. f[w.indexes[m + 1].name] = forest[heap[catalogue[n]].indexes[m + 1].tree]
    <3>1. /\ MemoryInv /\ n \in TableNames /\ Shown(n, w, f) /\ catalogue[n] # none
          /\ m + 1 \in DOMAIN heap[catalogue[n]].indexes
      BY <1>4
    <3> QED
      BY ONLY <2>1, <3>1, TreeShown
  <2> QED
    BY <1>2, <2>2
<1>9. f[y.name] = trees[n][y.name]
  BY NextTree
<1>10. ErrorIs(key, x, InsertError(n, row, m + 1))
  <2> PICK keys : keys = {ti.value : ti \in forest[x.tree]}
    OBVIOUS
  <2>1. InsertError(n, row, m + 1) = AddRowError(key, x.unique, keys)
    BY <1>5, <1>7, <1>8, <1>9 DEF InsertError
  <2>2. ErrorIs(key, x, AddRowError(key, x.unique, keys))
    BY RowErrors
  <2> QED
    BY <2>1, <2>2
<1> QED
  BY <1>4, <1>6, <1>7, <1>8, <1>9, <1>10

\* The first index to refuse a row
LEMMA FirstRefusal ==
  ASSUME NEW n, NEW row, tables[n].indexes \in Seq(Index),
         NEW m \in Nat, m < Len(tables[n].indexes),
         \A k \in 1 .. m : InsertError(n, row, k) = NoError,
         InsertError(n, row, m + 1) # NoError
  PROVE  Refusals(n, row) # {} /\ Min(Refusals(n, row)) = m + 1
<1> PICK S, k : S = Refusals(n, row) /\ k = m + 1
  OBVIOUS
<1>1. DOMAIN tables[n].indexes = 1 .. Len(tables[n].indexes)
  OBVIOUS
<1>2. S \in SUBSET Nat /\ 0 \notin S /\ k \in S /\ k - 1 = m
  BY <1>1 DEF Refusals
<1>3. \A j \in 1 .. (k - 1) : j \notin S
  BY <1>2 DEF Refusals
<1>4. Min(S) = k
  BY <1>2, <1>3, LeastIs
<1> QED
  BY <1>2, <1>4

\* An index after which the process panics, or one that refuses the row
LEMMA InsertPanics ==
  ASSUME OneAtATime, SerialInv, NEW c \in Conns, Alive, Busy(c), Inserting(c), Running,
         NEW s, s = Stmt(c), NEW n, n = s.table, NEW row, row = conns[c].row,
         s \in Inserts, n \in TableNames,
         Refusals(n, row) # {}, InsertError(n, row, Min(Refusals(n, row))) = Panic,
         Refuse(s, Panic)
  PROVE  Next
<1>1. /\ Exists(n) /\ Len(s.values) = Len(tables[n].columns) /\ BadValues(s.values) = {}
      /\ row = RowOf(s.values)
  BY DEF Inserting
<1>2. WithinBounds(n)
  BY <1>1, Bounded
<1>3. Insert(s)
  BY <1>1, <1>2, Zenon DEF Insert
<1> QED
  BY <1>3 DEF Next

\* Where addRow is: the index after the m-th, x, adds the row or returns err.
NextTask(c, n, t, h, row, m, x, key, err) ==
  /\ m \in Nat /\ m \in 0 .. Len(t.indexes)
  /\ m + 1 \in 0 .. Len(t.indexes) /\ m < Len(t.indexes)
  /\ x = h.indexes[m + 1] /\ m + 1 \in DOMAIN h.indexes
  /\ err = InsertError(n, row, m + 1) /\ key = IndexKey(t, row, t.indexes[m + 1].exp)
  /\ Holds(c, n, WithNewRow(t, row), Added(n, row, Len(t.rows), m))
  /\ \A k \in 1 .. m : InsertError(n, row, k) = NoError
  /\ conns[c].todo = IndexTasks(h.indexes, m)
  /\ Head(conns[c].todo) = Task(x, last)
  /\ Tail(conns[c].todo) = IndexTasks(h.indexes, m + 1)
  /\ Len(h.rows) - 1 = Len(t.rows) /\ key = IndexKey(h, RowAt(h.rows, Len(t.rows) + 1), x.exp)
  /\ ErrorIs(key, x, err)
  /\ forest[x.tree] = trees[n][t.indexes[m + 1].name]
  /\ conns[c].pc # "add" => AmidRow(conns[c], Len(t.rows), key, err)

LEMMA NextIndex ==
  ASSUME SerialInv, NEW c \in Conns, NEW pc \in {"add", "key", "look", "entry"}, Local(c, pc),
         AddingRow(c), pc = "add" => conns[c].todo # <<>>,
         NEW s, NEW n, NEW p, NEW h, NEW t, NEW row, InInserting(c, pc, s, n, p, h, t, row),
         n = Stmt(c).table, p = catalogue[n], h = heap[p], t = tables[n], row = conns[c].row
  PROVE  \E m, x, key, err : NextTask(c, n, t, h, row, m, x, key, err)
<1>1. /\ Alive /\ Busy(c) /\ n \in TableNames /\ conns[c].pc = pc
      /\ MemoryInv /\ IndexInv /\ Exists(n) /\ conns[c].table = p /\ p # none
      /\ h \in HeapTable /\ row \in Row /\ t.indexes \in Seq(Index) /\ t.rows \in Seq(Row)
      /\ Len(h.indexes) = Len(t.indexes)
  BY DEF InInserting
<1>2. PICK m \in 0 .. Len(t.indexes) :
        /\ Holds(c, n, WithNewRow(t, row), Added(n, row, Len(t.rows), m))
        /\ \A k \in 1 .. m : InsertError(n, row, k) = NoError
        /\ AmongIndexes(conns[c], t, heap[conns[c].table].indexes, m,
                        InsertError(n, row, m + 1),
                        IndexKey(t, row, t.indexes[m + 1].exp))
  BY RowGoingOn
<1> PICK xs, x, key, err, todo :
      /\ xs = h.indexes /\ x = xs[m + 1] /\ err = InsertError(n, row, m + 1)
      /\ key = IndexKey(t, row, t.indexes[m + 1].exp) /\ todo = conns[c].todo
  OBVIOUS
<1>3. /\ todo = IndexTasks(xs, m)
      /\ pc # "add" => m < Len(t.indexes) /\ AmidRow(conns[c], Len(t.rows), key, err)
  BY <1>1, <1>2 DEF AmongIndexes
<1>4. xs \in Seq(HeapIndex) /\ Len(xs) = Len(t.indexes) /\ Len(t.indexes) \in Nat
  BY <1>1 DEF HeapTable
<1>5. todo # <<>> /\ m < Len(xs)
  <2>1. pc = "add" => todo # <<>>
    OBVIOUS
  <2> QED
    BY ONLY <1>3, <1>4, <2>1, m \in 0 .. Len(t.indexes), IndexTasksLeft
<1>6. Head(todo) = Task(x, last) /\ Tail(todo) = IndexTasks(xs, m + 1)
  BY ONLY <1>3, <1>4, <1>5, m \in 0 .. Len(t.indexes), x = xs[m + 1], IndexTasksLeft
<1>7. m \in Nat /\ m + 1 \in 0 .. Len(t.indexes)
  BY ONLY <1>4, <1>5, m \in 0 .. Len(t.indexes)
<1> PICK seen : seen = IndexKey(h, RowAt(h.rows, (Len(h.rows) - 1) + 1), x.exp)
  OBVIOUS
<1>8. /\ Len(h.rows) - 1 = Len(t.rows) /\ seen = key
      /\ ErrorIs(seen, x, err)
      /\ forest[x.tree] = trees[n][t.indexes[m + 1].name]
      /\ m + 1 \in DOMAIN h.indexes
  <2>1. Shown(n, WithNewRow(tables[n], row), Added(n, row, Len(tables[n].rows), m))
    BY <1>2 DEF Holds
  <2>2. /\ m \in Nat /\ m < Len(tables[n].indexes) /\ catalogue[n] # none
        /\ h = heap[catalogue[n]] /\ x = h.indexes[m + 1] /\ t = tables[n]
    BY <1>1, <1>4, <1>5, <1>7
  <2>3. IndexInv /\ MemoryInv /\ n \in TableNames /\ Exists(n) /\ row \in Row
    BY <1>1
  <2>4. seen = IndexKey(h, RowAt(h.rows, (Len(h.rows) - 1) + 1), x.exp)
    OBVIOUS
  <2>5. /\ Len(h.rows) - 1 = Len(tables[n].rows)
        /\ seen = IndexKey(tables[n], row, tables[n].indexes[m + 1].exp)
        /\ ErrorIs(seen, x, InsertError(n, row, m + 1))
        /\ forest[x.tree] = trees[n][tables[n].indexes[m + 1].name]
        /\ m + 1 \in DOMAIN h.indexes
    BY ONLY <2>1, <2>2, <2>3, <2>4, NextIndexError
  <2>6. err = InsertError(n, row, m + 1) /\ key = IndexKey(t, row, t.indexes[m + 1].exp)
    OBVIOUS
  <2> QED
    BY ONLY <2>2, <2>5, <2>6
<1>9. NextTask(c, n, t, h, row, m, x, key, err)
  BY <1>1, <1>2, <1>3, <1>4, <1>5, <1>6, <1>7, <1>8 DEF NextTask
<1> QED
  BY <1>9

\* A step that reads leaves the connection at r, and m indexes with the row.
ReadsOn(c, pc, s, n, p, h, t, row, r, m) ==
  /\ SerialInv /\ c \in Conns /\ Run(c) /\ AddingRow(c)
  /\ InInserting(c, pc, s, n, p, h, t, row)
  /\ n = Stmt(c).table /\ p = catalogue[n] /\ h = heap[p] /\ t = tables[n]
  /\ row = conns[c].row
  /\ Goto(c, r) /\ r.pc \notin {"idle", "rows"}
  /\ r.call = conns[c].call /\ r.row = row /\ r.table = p
  /\ UNCHANGED <<catalogue, heap, forest, process, asked, accepted, settled>>
  /\ m \in 0 .. Len(t.indexes)
  /\ Holds(c, n, WithNewRow(t, row), Added(n, row, Len(t.rows), m))
  /\ \A k \in 1 .. m : InsertError(n, row, k) = NoError
  /\ AmongIndexes(r, t, h.indexes, m, InsertError(n, row, m + 1),
                  IndexKey(t, row, t.indexes[m + 1].exp))

LEMMA RowBeingAdded ==
  ASSUME NEW c, NEW pc, NEW s, NEW n, NEW p, NEW h, NEW t, NEW row, NEW r, NEW m,
         ReadsOn(c, pc, s, n, p, h, t, row, r, m)
  PROVE  SerialInv' /\ [Next]_vars
<1> USE DEF ReadsOn
<1>1. /\ Alive /\ Busy(c) /\ n \in TableNames /\ MemoryInv /\ ConnsInv /\ OneBusy
      /\ Inserting(c) /\ conns[c].table = p
      /\ h.rows = Append(accepted[p], row) /\ \A q \in DOMAIN heap \ {p} : Balanced(q)
  BY DEF InInserting
<1>2. ConnsInv'
  BY ConnsKept
<1>3. conns'[c] = r
  BY <1>1, Executed, OthersIdle
<1>4. UNCHANGED <<tables, trees>>
  BY DEF settled, vars
<1>5. Holds(c, n, WithNewRow(t, row), Added(n, row, Len(t.rows), m))'
  <2> PICK w, f : w = WithNewRow(t, row) /\ f = Added(n, row, Len(t.rows), m)
    OBVIOUS
  <2>1. Holds(c, n, w, f)'
    BY <1>1, <1>3, <1>4, HoldsStill
  <2>2. Added(n, row, Len(t.rows), m)' = f
    BY <1>4 DEF Added
  <2> QED
    BY <2>1, <2>2
<1>6. MemoryInv'
  BY <1>1, MemoryUnmoved
<1>7. AddingRow(c)'
  <2>1. StillInserting(c, n, t, row, p, r, m)
    BY <1>1, <1>3, <1>4, <1>5 DEF StillInserting
  <2> QED
    BY ONLY <2>1, RowGoesOn
<1>8. Progress(c)'
  BY <1>7 DEF Progress
<1> QED
  BY <1>1, <1>2, <1>6, <1>8, Working

\* PassRow, for the row of an INSERT
LEMMA PassRowInserting ==
  ASSUME SerialInv, NEW c \in Conns, PassRow(c), AddingRow(c)
  PROVE  SerialInv' /\ [Next]_vars
<1> PICK s, n, p, h, t, row :
      /\ s = Stmt(c) /\ n = s.table /\ p = catalogue[n] /\ h = heap[p]
      /\ t = tables[n] /\ row = conns[c].row
  OBVIOUS
<1>1. /\ Local(c, "add") /\ conns[c].todo # <<>>
      /\ UNCHANGED <<catalogue, heap, forest, process, asked, accepted, settled>>
  BY DEF PassRow
<1>2. InInserting(c, "add", s, n, p, h, t, row)
  BY <1>1, WhileInserting
<1>3. DOMAIN conns[c] = DOMAIN Idle /\ conns[c].table = p /\ Len(t.indexes) \in Nat
  BY <1>2 DEF InInserting
<1>4. PICK m, x, key, err : NextTask(c, n, t, h, row, m, x, key, err)
  BY <1>1, <1>2, NextIndex
<1>5. /\ m \in 0 .. Len(t.indexes) /\ m < Len(t.indexes)
      /\ err = InsertError(n, row, m + 1) /\ key = IndexKey(t, row, t.indexes[m + 1].exp)
      /\ Holds(c, n, WithNewRow(t, row), Added(n, row, Len(t.rows), m))
      /\ \A k \in 1 .. m : InsertError(n, row, k) = NoError
      /\ conns[c].todo = IndexTasks(h.indexes, m)
      /\ Head(conns[c].todo).at = last /\ Len(h.rows) - 1 = Len(t.rows)
  BY ONLY <1>4 DEF NextTask, Task
<1> PICK r : r = [conns[c] EXCEPT !.pc = "key", !.at = Len(t.rows)]
  OBVIOUS
<1>6. /\ r.pc = "key" /\ r.at = Len(t.rows) /\ r.todo = conns[c].todo
      /\ r.call = conns[c].call /\ r.row = row /\ r.table = p
  BY <1>3 DEF Idle
<1>7. Goto(c, r)
  BY <1>3, <1>5 DEF PassRow
<1>8. AmongIndexes(r, t, h.indexes, m, err, key)
  BY <1>5, <1>6 DEF AmongIndexes, AmidRow
<1>9. Run(c)
  BY DEF Run
<1>10. /\ SerialInv /\ c \in Conns /\ AddingRow(c)
       /\ n = Stmt(c).table /\ p = catalogue[n] /\ h = heap[p] /\ t = tables[n]
       /\ row = conns[c].row /\ r.pc \notin {"idle", "rows"}
  BY <1>6
<1>11. AmongIndexes(r, t, h.indexes, m, InsertError(n, row, m + 1),
                    IndexKey(t, row, t.indexes[m + 1].exp))
  BY <1>5, <1>8
<1>12. ReadsOn(c, "add", s, n, p, h, t, row, r, m)
  BY ONLY <1>1, <1>2, <1>5, <1>6, <1>7, <1>9, <1>10, <1>11 DEF ReadsOn
<1> QED
  BY ONLY <1>12, RowBeingAdded

\* The index refuses the row, or takes it, with a step that only reads.
LEMMA RowRefused ==
  ASSUME SerialInv, NEW c \in Conns, Run(c), AddingRow(c), NEW pc,
         NEW s, NEW n, NEW p, NEW h, NEW t, NEW row, InInserting(c, pc, s, n, p, h, t, row),
         n = Stmt(c).table, p = catalogue[n], h = heap[p], t = tables[n], row = conns[c].row,
         NEW m, NEW x, NEW key, NEW err, NextTask(c, n, t, h, row, m, x, key, err),
         err \notin {NoError, Panic}, Fail(c, err),
         UNCHANGED <<catalogue, heap, forest, process, asked, accepted>>
  PROVE  SerialInv' /\ [Next]_vars
<1>1. /\ DOMAIN conns[c] = DOMAIN Idle /\ conns[c].table = p
      /\ conns[c].call.kind = "insert" /\ Len(t.indexes) \in Nat
  BY DEF InInserting, Inserting
<1> PICK r : r = [conns[c] EXCEPT !.err = err, !.pc = "drop"]
  OBVIOUS
<1>2. Goto(c, r) /\ UNCHANGED settled
  BY <1>1, Zenon DEF Fail
<1>3. /\ r.pc = "drop" /\ r.err = err /\ r.call = conns[c].call /\ r.row = row /\ r.table = p
  BY <1>1 DEF Idle
<1>4. /\ m \in 0 .. Len(t.indexes) /\ m < Len(t.indexes)
      /\ err = InsertError(n, row, m + 1) /\ key = IndexKey(t, row, t.indexes[m + 1].exp)
      /\ Holds(c, n, WithNewRow(t, row), Added(n, row, Len(t.rows), m))
      /\ \A k \in 1 .. m : InsertError(n, row, k) = NoError
  BY ONLY NextTask(c, n, t, h, row, m, x, key, err) DEF NextTask
<1>5. AmongIndexes(r, t, h.indexes, m, err, key)
  BY <1>3, <1>4 DEF AmongIndexes
<1>6. /\ SerialInv /\ c \in Conns /\ Run(c) /\ AddingRow(c)
      /\ InInserting(c, pc, s, n, p, h, t, row)
      /\ n = Stmt(c).table /\ p = catalogue[n] /\ h = heap[p] /\ t = tables[n]
      /\ row = conns[c].row /\ r.pc \notin {"idle", "rows"}
      /\ UNCHANGED <<catalogue, heap, forest, process, asked, accepted, settled>>
  BY <1>2, <1>3
<1>7. AmongIndexes(r, t, h.indexes, m, InsertError(n, row, m + 1),
                   IndexKey(t, row, t.indexes[m + 1].exp))
  BY <1>4, <1>5
<1>8. ReadsOn(c, pc, s, n, p, h, t, row, r, m)
  BY ONLY <1>2, <1>3, <1>4, <1>6, <1>7 DEF ReadsOn
<1> QED
  BY ONLY <1>8, RowBeingAdded
\* EvaluateKey, for the row of an INSERT
LEMMA EvaluateKeyInserting ==
  ASSUME OneAtATime, SerialInv, NEW c \in Conns, EvaluateKey(c), AddingRow(c)
  PROVE  SerialInv' /\ [Next]_vars
<1> PICK s, n, p, h, t, row :
      /\ s = Stmt(c) /\ n = s.table /\ p = catalogue[n] /\ h = heap[p]
      /\ t = tables[n] /\ row = conns[c].row
  OBVIOUS
<1>1. Local(c, "key") /\ UNCHANGED asked
  BY DEF EvaluateKey
<1>2. InInserting(c, "key", s, n, p, h, t, row)
  BY <1>1, WhileInserting
<1>3. /\ Alive /\ Busy(c) /\ DOMAIN conns[c] = DOMAIN Idle /\ conns[c].table = p
      /\ conns[c].pc = "key" /\ t.indexes \in Seq(Index)
      /\ Running /\ Inserting(c) /\ s \in Inserts /\ n \in TableNames
  BY <1>2 DEF InInserting
<1>4. PICK m, x, key, err : NextTask(c, n, t, h, row, m, x, key, err)
  BY <1>1, <1>2, NextIndex
<1>5. /\ m \in Nat /\ m \in 0 .. Len(t.indexes) /\ m < Len(t.indexes)
      /\ err = InsertError(n, row, m + 1) /\ key = IndexKey(t, row, t.indexes[m + 1].exp)
      /\ Holds(c, n, WithNewRow(t, row), Added(n, row, Len(t.rows), m))
      /\ \A k \in 1 .. m : InsertError(n, row, k) = NoError
      /\ conns[c].todo = IndexTasks(h.indexes, m)
      /\ ErrorIs(key, x, err)
  BY ONLY <1>4 DEF NextTask
<1>6. /\ Head(conns[c].todo).index = x /\ conns[c].at = Len(t.rows)
      /\ key = IndexKey(h, RowAt(h.rows, Len(t.rows) + 1), x.exp)
  BY ONLY <1>3, <1>4 DEF NextTask, Task, AmidRow
<1> PICK bare : bare = AddRowError(key, FALSE, {})
  OBVIOUS
<1>7. IF bare = Panic THEN Crash(c)
      ELSE /\ UNCHANGED <<catalogue, heap, forest, accepted, process>>
           /\ IF bare # NoError THEN Fail(c, bare)
              ELSE /\ Goto(c, [conns[c] EXCEPT !.pc = "look", !.key = key.value])
                   /\ UNCHANGED settled
  BY <1>3, <1>6 DEF EvaluateKey
<1>8. Run(c) /\ NoError # Panic
  BY DEF Run, NoError, Panic
<1>9. CASE bare = Panic
  <2>1. err = Panic
    BY <1>5, <1>8, <1>9 DEF ErrorIs
  <2>2. Refusals(n, row) # {} /\ InsertError(n, row, Min(Refusals(n, row))) = Panic
    <3>1. /\ tables[n].indexes \in Seq(Index) /\ m \in Nat /\ m < Len(tables[n].indexes)
          /\ \A k \in 1 .. m : InsertError(n, row, k) = NoError
          /\ InsertError(n, row, m + 1) = Panic /\ InsertError(n, row, m + 1) # NoError
      BY <1>3, <1>5, <1>8, <2>1
    <3>2. Refusals(n, row) # {} /\ Min(Refusals(n, row)) = m + 1
      BY ONLY <3>1, FirstRefusal
    <3> QED
      BY <3>1, <3>2
  <2>3. Crash(c) /\ Refuse(s, Panic)
    BY <1>7, <1>9 DEF Crash, Refuse
  <2>4. Next
    BY <1>3, <2>2, <2>3, InsertPanics
  <2> QED
    BY <1>1, <1>3, <2>3, <2>4, Crashing
<1>10. CASE bare \notin {NoError, Panic}
  <2>1. err = bare
    BY <1>5, <1>10 DEF ErrorIs
  <2>2. /\ err \notin {NoError, Panic} /\ Fail(c, err)
        /\ UNCHANGED <<catalogue, heap, forest, process, asked, accepted>>
    BY <1>1, <1>7, <1>10, <2>1
  <2> QED
    BY ONLY <1>2, <1>4, <1>8, <2>2, SerialInv, c \in Conns, AddingRow(c), n = Stmt(c).table,
            s = Stmt(c), n = s.table,
            p = catalogue[n], h = heap[p], t = tables[n], row = conns[c].row, RowRefused
<1>11. CASE bare = NoError
  <2> PICK r : r = [conns[c] EXCEPT !.pc = "look", !.key = key.value]
    OBVIOUS
  <2>1. /\ Goto(c, r)
        /\ UNCHANGED <<catalogue, heap, forest, process, asked, accepted, settled>>
    BY <1>1, <1>7, <1>8, <1>11
  <2>2. /\ r.pc = "look" /\ r.key = key.value /\ r.at = Len(t.rows) /\ r.todo = conns[c].todo
        /\ r.call = conns[c].call /\ r.row = row /\ r.table = p /\ r.pc \notin {"idle", "rows"}
    BY <1>3, <1>6 DEF Idle
  <2>3. AmongIndexes(r, t, h.indexes, m, InsertError(n, row, m + 1),
                     IndexKey(t, row, t.indexes[m + 1].exp))
    BY <1>5, <1>11, <2>2 DEF AmongIndexes, AmidRow
  <2>4. ReadsOn(c, "key", s, n, p, h, t, row, r, m)
    BY <1>2, <1>5, <1>8, <2>1, <2>2, <2>3 DEF ReadsOn
  <2> QED
    BY ONLY <2>4, RowBeingAdded
<1> QED
  BY <1>9, <1>10, <1>11

\* LookUpKey, for the row of an INSERT
LEMMA LookUpKeyInserting ==
  ASSUME SerialInv, NEW c \in Conns, LookUpKey(c), AddingRow(c)
  PROVE  SerialInv' /\ [Next]_vars
<1> PICK s, n, p, h, t, row :
      /\ s = Stmt(c) /\ n = s.table /\ p = catalogue[n] /\ h = heap[p]
      /\ t = tables[n] /\ row = conns[c].row
  OBVIOUS
<1>1. Local(c, "look") /\ UNCHANGED <<catalogue, heap, forest, accepted, process, asked>>
  BY DEF LookUpKey
<1>2. InInserting(c, "look", s, n, p, h, t, row)
  BY <1>1, WhileInserting
<1>3. /\ DOMAIN conns[c] = DOMAIN Idle /\ conns[c].table = p /\ conns[c].pc = "look"
  BY <1>2 DEF InInserting
<1>4. PICK m, x, key, err : NextTask(c, n, t, h, row, m, x, key, err)
  BY <1>1, <1>2, NextIndex
<1>5. /\ m \in 0 .. Len(t.indexes) /\ m < Len(t.indexes)
      /\ err = InsertError(n, row, m + 1) /\ key = IndexKey(t, row, t.indexes[m + 1].exp)
      /\ Holds(c, n, WithNewRow(t, row), Added(n, row, Len(t.rows), m))
      /\ \A k \in 1 .. m : InsertError(n, row, k) = NoError
      /\ conns[c].todo = IndexTasks(h.indexes, m)
      /\ ErrorIs(key, x, err)
  BY ONLY <1>4 DEF NextTask
<1>6. /\ Head(conns[c].todo).index = x /\ conns[c].at = Len(t.rows)
      /\ conns[c].key = key.value /\ AddRowError(key, FALSE, {}) = NoError
  <2>1. /\ Head(conns[c].todo) = Task(x, last)
        /\ conns[c].pc # "add" => AmidRow(conns[c], Len(t.rows), key, err)
    BY ONLY <1>4 DEF NextTask
  <2>2. AmidRow(conns[c], Len(t.rows), key, err)
    BY <1>3, <2>1
  <2>3. Head(conns[c].todo).index = x
    BY ONLY <2>1 DEF Task
  <2>4. "look" # "key"
    OBVIOUS
  <2> QED
    BY ONLY <1>3, <2>2, <2>3, <2>4, Zenon DEF AmidRow
<1>7. IF HasKey(x, key.value) THEN Fail(c, "ErrViolatesUniqueConstraint")
      ELSE Goto(c, [conns[c] EXCEPT !.pc = "entry"]) /\ UNCHANGED settled
  BY <1>6, Zenon DEF LookUpKey
<1>8. Run(c)
  BY DEF Run
<1>9. CASE HasKey(x, key.value)
  <2>1. err = "ErrViolatesUniqueConstraint"
    BY <1>5, <1>6, <1>9 DEF ErrorIs
  <2>2. /\ err \notin {NoError, Panic} /\ Fail(c, err)
        /\ UNCHANGED <<catalogue, heap, forest, process, asked, accepted>>
    BY <1>1, <1>7, <1>9, <2>1 DEF NoError, Panic
  <2> QED
    BY ONLY <1>2, <1>4, <1>8, <2>2, SerialInv, c \in Conns, AddingRow(c), n = Stmt(c).table,
            s = Stmt(c), n = s.table,
            p = catalogue[n], h = heap[p], t = tables[n], row = conns[c].row, RowRefused
<1>10. CASE ~HasKey(x, key.value)
  <2> PICK r : r = [conns[c] EXCEPT !.pc = "entry"]
    OBVIOUS
  <2>1. /\ Goto(c, r)
        /\ UNCHANGED <<catalogue, heap, forest, process, asked, accepted, settled>>
    BY <1>1, <1>7, <1>10
  <2>2. /\ r.pc = "entry" /\ r.key = key.value /\ r.at = Len(t.rows) /\ r.todo = conns[c].todo
        /\ r.call = conns[c].call /\ r.row = row /\ r.table = p /\ r.pc \notin {"idle", "rows"}
    BY <1>3, <1>6 DEF Idle
  <2>3. err = NoError
    BY <1>5, <1>6, <1>10 DEF ErrorIs
  <2>4. AmongIndexes(r, t, h.indexes, m, InsertError(n, row, m + 1),
                     IndexKey(t, row, t.indexes[m + 1].exp))
    BY <1>5, <1>6, <2>2, <2>3 DEF AmongIndexes, AmidRow
  <2>5. ReadsOn(c, "look", s, n, p, h, t, row, r, m)
    BY <1>2, <1>5, <1>8, <2>1, <2>2, <2>4 DEF ReadsOn
  <2> QED
    BY ONLY <2>5, RowBeingAdded
<1> QED
  BY <1>9, <1>10

\* e is the item that table n's index after its m-th, y, gets for the row.
NextItem(n, row, at, m, y, e) ==
  /\ m < Len(tables[n].indexes)
  /\ y = tables[n].indexes[m + 1]
  /\ e = TreeItem(IndexKey(tables[n], row, y.exp).value, at, Cardinality(trees[n][y.name]))

\* The trees g are the trees f with e in the tree of the index y as well.
GrownBy(g, f, y, e) == g = [f EXCEPT ![y.name] = @ \cup {e}]

\* One index more has added the row.
LEMMA OneMoreAdded ==
  ASSUME IndexInv, NEW n \in TableNames, Exists(n), NEW row, NEW at, NEW m \in Nat,
         NEW y, NEW e, NextItem(n, row, at, m, y, e)
  PROVE  GrownBy(Added(n, row, at, m + 1), Added(n, row, at, m), y, e)
<1> SUFFICES Added(n, row, at, m + 1) = [Added(n, row, at, m) EXCEPT ![y.name] = @ \cup {e}]
  BY DEF GrownBy
<1> PICK t, f, g : t = tables[n] /\ f = Added(n, row, at, m) /\ g = Added(n, row, at, m + 1)
  OBVIOUS
<1>0. /\ m < Len(t.indexes) /\ y = t.indexes[m + 1]
      /\ e = TreeItem(IndexKey(t, row, y.exp).value, at, Cardinality(trees[n][y.name]))
  BY DEF NextItem
<1>1. t.indexes \in Seq(Index)
  BY TableShape DEF IndexInv
<1>2. /\ m + 1 \in DOMAIN t.indexes /\ y \in Index
      /\ \A k \in 1 .. (m + 1) : k \in 1 .. m \/ k = m + 1
      /\ \A k \in 1 .. m : k \in 1 .. (m + 1) /\ k \in DOMAIN t.indexes
      /\ m + 1 \in 1 .. (m + 1)
  BY ONLY <1>0, <1>1, m \in Nat
<1> DEFINE item(x, k) == TreeItem(IndexKey(t, row, t.indexes[k].exp).value, at,
                                  Cardinality(trees[n][x]))
           some(x, j) == {k \in 1 .. j : t.indexes[k].name = x}
<1>3. /\ f = [x \in IndexNames |-> trees[n][x] \cup {item(x, k) : k \in some(x, m)}]
      /\ g = [x \in IndexNames |-> trees[n][x] \cup {item(x, k) : k \in some(x, m + 1)}]
  BY Zenon DEF Added
<1>4. y.name \in IndexNames /\ item(y.name, m + 1) = e
  BY <1>0, <1>2 DEF Index
<1>5. ASSUME NEW x \in IndexNames, x # y.name PROVE some(x, m + 1) = some(x, m)
  BY <1>0, <1>2, <1>5
<1>6. some(y.name, m + 1) = some(y.name, m) \cup {m + 1}
  BY <1>0, <1>2
<1> HIDE DEF item, some
<1>7. ASSUME NEW x \in IndexNames, x # y.name PROVE g[x] = f[x]
  BY <1>3, <1>5, <1>7
<1>8. g[y.name] = f[y.name] \cup {e}
  <2>1. {item(y.name, k) : k \in some(y.name, m) \cup {m + 1}}
          = {item(y.name, k) : k \in some(y.name, m)} \cup {item(y.name, m + 1)}
    OBVIOUS
  <2>2. /\ f[y.name] = trees[n][y.name] \cup {item(y.name, k) : k \in some(y.name, m)}
        /\ g[y.name] = trees[n][y.name] \cup {item(y.name, k) : k \in some(y.name, m + 1)}
    BY ONLY <1>3, <1>4
  <2> QED
    BY ONLY <1>4, <1>6, <2>1, <2>2
<1>9. DOMAIN f = IndexNames /\ DOMAIN g = IndexNames
      /\ f = [x \in IndexNames |-> f[x]] /\ g = [x \in IndexNames |-> g[x]]
  BY <1>3
<1> QED
  BY ONLY <1>4, <1>7, <1>8, <1>9, f = Added(n, row, at, m), g = Added(n, row, at, m + 1)

\* InsertEntry, for the row of an INSERT
LEMMA InsertEntryInserting ==
  ASSUME SerialInv, NEW c \in Conns, InsertEntry(c), AddingRow(c)
  PROVE  SerialInv' /\ [Next]_vars
<1> PICK s, n, p, h, t, row, xs :
      /\ s = Stmt(c) /\ n = s.table /\ p = catalogue[n] /\ h = heap[p]
      /\ t = tables[n] /\ row = conns[c].row /\ xs = h.indexes
  OBVIOUS
<1>1. /\ Local(c, "entry")
      /\ UNCHANGED <<catalogue, heap, process, asked, accepted, settled>>
  BY DEF InsertEntry
<1>2. /\ Alive /\ Busy(c) /\ s \in Inserts /\ n \in TableNames /\ conns[c].pc = "entry"
      /\ MemoryInv /\ Running /\ ConnsInv /\ OneBusy /\ IndexInv
      /\ DOMAIN conns[c] = DOMAIN Idle /\ Inserting(c) /\ Exists(n)
      /\ conns[c].table = p /\ p # none /\ h \in HeapTable
      /\ row \in Row /\ t.indexes \in Seq(Index)
      /\ h.rows = Append(accepted[p], row) /\ \A q \in DOMAIN heap \ {p} : Balanced(q)
      /\ Len(h.indexes) = Len(t.indexes) /\ WithNewRow(t, row).indexes = t.indexes
      /\ \A q \in TableNames \ {n} : ShownAsSettled(q)
  <2>1. /\ SerialInv /\ c \in Conns /\ AddingRow(c) /\ Local(c, "entry")
        /\ s = Stmt(c) /\ n = s.table /\ p = catalogue[n] /\ h = heap[p]
        /\ t = tables[n] /\ row = conns[c].row
    BY <1>1
  <2>2. "entry" \notin {"idle", "rows"}
    OBVIOUS
  <2>3. InInserting(c, "entry", s, n, p, h, t, row)
    BY ONLY <2>1, <2>2, WhileInserting
  <2> QED
    BY ONLY <2>3 DEF InInserting
<1>E. InInserting(c, "entry", s, n, p, h, t, row)
  BY <1>1, WhileInserting
<1> PICK m, x, key, err : NextTask(c, n, t, h, row, m, x, key, err)
  BY <1>1, <1>E, NextIndex
<1>N. NextTask(c, n, t, h, row, m, x, key, err)
  OBVIOUS
<1>3. /\ m \in Nat /\ m < Len(t.indexes) /\ m + 1 \in 0 .. Len(t.indexes)
      /\ err = InsertError(n, row, m + 1) /\ key = IndexKey(t, row, t.indexes[m + 1].exp)
      /\ Holds(c, n, WithNewRow(t, row), Added(n, row, Len(t.rows), m))
      /\ \A k \in 1 .. m : InsertError(n, row, k) = NoError
      /\ Head(conns[c].todo) = Task(x, last)
      /\ Tail(conns[c].todo) = IndexTasks(xs, m + 1)
      /\ forest[x.tree] = trees[n][t.indexes[m + 1].name]
      /\ m + 1 \in DOMAIN h.indexes
  BY ONLY <1>N, xs = h.indexes DEF NextTask
<1>4. /\ conns[c].at = Len(t.rows) /\ conns[c].key = key.value /\ err = NoError
  <2>1. conns[c].pc # "add" => AmidRow(conns[c], Len(t.rows), key, err)
    BY ONLY <1>N DEF NextTask
  <2>2. AmidRow(conns[c], Len(t.rows), key, err) /\ "entry" # "key"
    BY <1>2, <2>1
  <2> QED
    BY ONLY <1>2, <2>2, Zenon DEF AmidRow
<1> PICK w, f, g, y, e :
      /\ w = WithNewRow(t, row) /\ f = Added(n, row, Len(t.rows), m)
      /\ g = Added(n, row, Len(t.rows), m + 1)
      /\ y = t.indexes[m + 1]
      /\ e = TreeItem(IndexKey(t, row, y.exp).value, Len(t.rows),
                      Cardinality(trees[n][y.name]))
  OBVIOUS
<1>5. forest[x.tree] = trees[n][y.name] /\ x = heap[p].indexes[m + 1]
  <2>1. x = h.indexes[m + 1]
    BY ONLY <1>N DEF NextTask
  <2> QED
    BY <1>3, <2>1
<1>6. forest' = [forest EXCEPT ![x.tree] = @ \cup {e}]
  <2>1. \A i, a : Task(i, a).index = i
    BY DEF Task
  <2>2. Head(conns[c].todo).index.tree = x.tree
    <3>1. Head(conns[c].todo) = Task(x, last)
      BY <1>3
    <3> QED
      BY ONLY <2>1, <3>1
  <2>3. e = TreeItem(conns[c].key, conns[c].at, Cardinality(forest[x.tree]))
    BY <1>3, <1>4, <1>5
  <2> QED
    BY <2>2, <2>3, Zenon DEF InsertEntry
<1>7. g = [f EXCEPT ![y.name] = @ \cup {e}]
  <2> PICK at : at = Len(t.rows)
    OBVIOUS
  <2>1. IndexInv /\ n \in TableNames /\ Exists(n) /\ m \in Nat /\ m < Len(t.indexes)
    BY ONLY <1>2, <1>3
  <2>4. NextItem(n, row, at, m, y, e)
    BY <2>1 DEF NextItem
  <2>2. GrownBy(Added(n, row, at, m + 1), Added(n, row, at, m), y, e)
    BY ONLY <2>1, <2>4, OneMoreAdded
  <2>3. f = Added(n, row, at, m) /\ g = Added(n, row, at, m + 1)
    OBVIOUS
  <2> QED
    BY ONLY <2>2, <2>3, Zenon DEF GrownBy
<1>8. MemoryInv' /\ OthersShown(n) /\ Shown(n, w, g)'
  <2> PICK k : k = m + 1
    OBVIOUS
  <2>1. /\ MemoryInv /\ n \in TableNames /\ catalogue[n] # none
        /\ k \in DOMAIN heap[catalogue[n]].indexes
        /\ forest' = [forest EXCEPT ![heap[catalogue[n]].indexes[k].tree] = @ \cup {e}]
        /\ UNCHANGED <<catalogue, heap, accepted>>
    BY <1>1, <1>2, <1>3, <1>5, <1>6
  <2>2. /\ MemoryInv' /\ OthersShown(n)
        /\ \A a, b : Shown(n, a, b) =>
             Shown(n, a, [b EXCEPT ![a.indexes[k].name] = @ \cup {e}])'
    BY ONLY <2>1, EntryAdded
  <2>3. Shown(n, w, f) /\ w.indexes[k].name = y.name
    BY <1>2, <1>3 DEF Holds
  <2>4. Shown(n, w, [f EXCEPT ![w.indexes[k].name] = @ \cup {e}])'
    BY ONLY <2>2, <2>3
  <2> QED
    BY ONLY <1>7, <2>2, <2>3, <2>4
<1>9. ConnsInv'
  BY ConnsKept DEF Run
<1> PICK r : r = [conns[c] EXCEPT !.pc = "add", !.todo = Tail(@)]
  OBVIOUS
<1>10. /\ r.pc = "add" /\ r.todo = IndexTasks(xs, m + 1)
       /\ r.call = conns[c].call /\ r.row = row /\ r.table = p
  BY <1>2, <1>3 DEF Idle
<1>11. Goto(c, r)
  BY DEF InsertEntry
<1>12. conns'[c] = r
  BY <1>2, <1>11, Executed, OthersIdle
<1>13. UNCHANGED <<tables, trees>>
  BY <1>1 DEF settled, vars
<1>14. Holds(c, n, WithNewRow(t, row), Added(n, row, Len(t.rows), m + 1))'
  <2>1. Holds(c, n, w, g)'
    <3>1. conns'[c].table = catalogue'[n] /\ catalogue'[n] # none
      BY <1>1, <1>2, <1>10, <1>12
    <3> QED
      BY <1>2, <1>8, <1>13, <3>1, HoldsAfter
  <2>2. Added(n, row, Len(t.rows), m + 1)' = g
    BY <1>13 DEF Added
  <2> QED
    BY <2>1, <2>2
<1>15. AddingRow(c)'
  <2> PICK i : i = m + 1
    OBVIOUS
  <2>1. \A k \in 1 .. i : InsertError(n, row, k) = NoError
    <3>1. \A k \in 1 .. i : k \in 1 .. m \/ k = m + 1
      BY ONLY <1>3, i = m + 1
    <3> QED
      BY ONLY <1>3, <1>4, <3>1
  <2>2. AmongIndexes(r, t, xs, i, InsertError(n, row, i + 1),
                     IndexKey(t, row, t.indexes[i + 1].exp))
    BY <1>10 DEF AmongIndexes
  <2>3. StillInserting(c, n, t, row, p, r, i)
    BY <1>1, <1>2, <1>3, <1>10, <1>12, <1>13, <1>14, <2>1, <2>2 DEF StillInserting
  <2> QED
    BY ONLY <2>3, RowGoesOn
<1>16. Progress(c)'
  BY <1>15 DEF Progress
<1> QED
  BY <1>1, <1>2, <1>8, <1>9, <1>10, <1>11, <1>16, Working

\* The row that was appended is dropped.
LEMMA DropsLast ==
  ASSUME NEW S, NEW rows \in Seq(S), NEW row \in S
  PROVE  DropRow(Append(rows, row)) = rows
<1> PICK a : a = Append(rows, row)
  OBVIOUS
<1>1. /\ a \in Seq(S) /\ Len(a) - 1 = Len(rows) /\ Len(rows) \in Nat
      /\ \A k \in 1 .. Len(rows) : a[k] = rows[k]
  OBVIOUS
<1> PICK b, l : b = SubSeq(a, 1, l) /\ l = Len(rows)
  OBVIOUS
<1>2. b \in Seq(S) /\ Len(b) = l /\ \A k \in 1 .. l : b[k] = a[k]
  BY <1>1
<1>3. b = rows
  BY <1>1, <1>2, SameSequence
<1> QED
  BY <1>1, <1>3 DEF DropRow

\* An INSERT ends with these rows in its table, u, which is then shown as v.
RowEnds(n, p, u, rows, w, v, f, c, answer) ==
  /\ n \in TableNames /\ p = catalogue[n] /\ p # none
  /\ u = [heap[p] EXCEPT !.rows = rows] /\ rows \in Seq(Row) /\ v = [w EXCEPT !.rows = rows]
  /\ Shown(n, w, f) /\ \A q \in TableNames \ {n} : ShownAsSettled(q)
  /\ heap' = [heap EXCEPT ![p] = u]
  /\ UNCHANGED <<catalogue, forest>>
  /\ accepted' \in Seq(Seq(Row)) /\ Len(accepted') = Len(accepted) /\ accepted'[p] = rows
  /\ \A q \in DOMAIN heap \ {p} : Balanced(q) /\ accepted'[q] = accepted[q]
  /\ Settle(c, answer)

\* The row of an INSERT stays, or goes, when its method ends.
LEMMA RowSettles ==
  ASSUME TypeOK, TreesMapped, MemoryInv, NEW n, NEW p, NEW u, NEW rows, NEW w, NEW v, NEW f,
         NEW c, NEW answer, RowEnds(n, p, u, rows, w, v, f, c, answer)
  PROVE  /\ MemoryInv' /\ AllBalanced'
         /\ tables' = [tables EXCEPT ![n] = v]
         /\ trees' = [trees EXCEPT ![n] = f]
<1> USE DEF RowEnds
<1> PICK h : h = heap[p]
  OBVIOUS
<1>1. p \in DOMAIN heap /\ h \in HeapTable /\ w = Plain(h) /\ heap \in Seq(HeapTable)
  BY NameShown DEF MemoryInv
<1>2. u \in HeapTable /\ u.indexes = h.indexes /\ u.rows = rows /\ Plain(u) = v
  <2>1. /\ h \in HeapTable /\ rows \in Seq(Row) /\ u = [h EXCEPT !.rows = rows]
        /\ w = Plain(h) /\ v = [w EXCEPT !.rows = rows]
    BY <1>1
  <2> QED
    BY ONLY <2>1, PlainWithRows
<1>3. MemoryInv' /\ OthersShown(n) /\ Shown(n, v, f)'
  <2>1. /\ MemoryInv /\ n \in TableNames /\ catalogue[n] # none /\ u \in HeapTable
        /\ u.indexes = heap[catalogue[n]].indexes /\ heap' = [heap EXCEPT ![catalogue[n]] = u]
        /\ catalogue' = catalogue /\ forest' = forest
        /\ accepted' \in Seq(Seq(Row)) /\ Len(accepted') = Len(accepted)
    BY <1>2
  <2>2. /\ MemoryInv' /\ OthersShown(n)
        /\ \A a, b : Shown(n, a, b) => Shown(n, Plain(u), b)'
    BY ONLY <2>1, TableReplaced
  <2>3. Shown(n, Plain(u), f)'
    BY <2>2
  <2> QED
    BY <1>2, <2>2, <2>3
<1>4. AllBalanced'
  BY <1>1, <1>2 DEF AllBalanced, Balanced
<1>5. tables' = [tables EXCEPT ![n] = v] /\ trees' = [trees EXCEPT ![n] = f]
  <2>1. /\ TypeOK /\ TreesMapped /\ n \in TableNames
        /\ \A q \in TableNames \ {n} : ShownAsSettled(q)
        /\ tables' = TablesAt(catalogue', heap') /\ trees' = TreesAt(catalogue', heap', forest')
    BY DEF Settle
  <2> QED
    BY ONLY <1>3, <2>1, OneChanged
<1> QED
  BY <1>3, <1>4, <1>5

\* What a connection that has come to an end of its INSERT knows
LEMMA WhereInserting ==
  ASSUME SerialInv, NEW c \in Conns, NEW pc, pc \notin {"idle", "rows"}, Local(c, pc),
         AddingRow(c),
         NEW n, n = Stmt(c).table, NEW t, t = tables[n], NEW row, row = conns[c].row
  PROVE  \E m \in 0 .. Len(t.indexes) :
           /\ Shown(n, WithNewRow(t, row), Added(n, row, Len(t.rows), m))
           /\ \A k \in 1 .. m : InsertError(n, row, k) = NoError
           /\ pc = "add" /\ conns[c].todo = <<>> => m = Len(t.indexes)
           /\ pc \in {"drop", "reslice"} =>
                /\ m < Len(t.indexes)
                /\ conns[c].err = InsertError(n, row, m + 1)
                /\ conns[c].err \notin {NoError, Panic}
                /\ pc = "reslice" => conns[c].slice = t.rows
<1> PICK h, p, s : p = catalogue[n] /\ h = heap[p] /\ s = Stmt(c)
  OBVIOUS
<1>1. /\ conns[c].pc = pc /\ conns[c].table = p /\ h \in HeapTable
      /\ Len(h.indexes) = Len(t.indexes)
  <2>1. /\ SerialInv /\ c \in Conns /\ AddingRow(c) /\ Local(c, pc)
        /\ s = Stmt(c) /\ n = s.table /\ p = catalogue[n] /\ h = heap[p]
        /\ t = tables[n] /\ row = conns[c].row /\ pc \notin {"idle", "rows"}
    OBVIOUS
  <2>2. InInserting(c, pc, s, n, p, h, t, row)
    BY ONLY <2>1, WhileInserting
  <2> QED
    BY ONLY <2>2 DEF InInserting
<1>2. PICK m \in 0 .. Len(t.indexes) :
        /\ Holds(c, n, WithNewRow(t, row), Added(n, row, Len(t.rows), m))
        /\ \A k \in 1 .. m : InsertError(n, row, k) = NoError
        /\ AmongIndexes(conns[c], t, h.indexes, m, InsertError(n, row, m + 1),
                        IndexKey(t, row, t.indexes[m + 1].exp))
  BY <1>1, RowGoingOn
<1>3. ASSUME pc = "add", conns[c].todo = <<>> PROVE m = Len(t.indexes)
  <2>1. conns[c].todo = IndexTasks(h.indexes, m)
    BY <1>1, <1>2, <1>3 DEF AmongIndexes, AmidRow
  <2> PICK xs, todo : xs = h.indexes /\ todo = conns[c].todo
    OBVIOUS
  <2>2. /\ xs \in Seq(HeapIndex) /\ todo = IndexTasks(xs, m) /\ m \in 0 .. Len(xs)
        /\ todo = <<>>
    BY <1>1, <1>2, <1>3, <2>1 DEF HeapTable
  <2>3. m = Len(xs)
    BY ONLY <2>2, IndexTasksLeft
  <2> QED
    BY <1>1, <2>3
<1>4. pc \in {"drop", "reslice"} =>
        /\ m < Len(t.indexes) /\ conns[c].err = InsertError(n, row, m + 1)
        /\ conns[c].err \notin {NoError, Panic}
        /\ pc = "reslice" => conns[c].slice = t.rows
  BY <1>1, <1>2 DEF AmongIndexes, AmidRow
<1> QED
  BY <1>2, <1>3, <1>4 DEF Holds

\* EndAdd, for the row of an INSERT
LEMMA EndAddInserting ==
  ASSUME OneAtATime, SerialInv, NEW c \in Conns, EndAdd(c), AddingRow(c)
  PROVE  SerialInv' /\ [Next]_vars
<1> PICK s, n, p, h, t, row :
      /\ s = Stmt(c) /\ n = s.table /\ p = catalogue[n] /\ h = heap[p]
      /\ t = tables[n] /\ row = conns[c].row
  OBVIOUS
<1>1. /\ Local(c, "add") /\ conns[c].todo = <<>> /\ Return(c, NoError)
      /\ UNCHANGED <<catalogue, heap, forest, process, asked>>
  BY DEF EndAdd
<1>A. /\ SerialInv /\ c \in Conns /\ AddingRow(c) /\ Local(c, "add")
      /\ s = Stmt(c) /\ n = s.table /\ p = catalogue[n] /\ h = heap[p]
      /\ t = tables[n] /\ row = conns[c].row
  BY <1>1
<1>B. "add" \notin {"idle", "rows"}
  OBVIOUS
<1>E. InInserting(c, "add", s, n, p, h, t, row)
  BY ONLY <1>A, <1>B, WhileInserting
<1>2. /\ Alive /\ Busy(c) /\ s \in Inserts /\ n \in TableNames
      /\ MemoryInv /\ TypeOK /\ TreesMapped /\ Running /\ IndexInv
      /\ Inserting(c) /\ Exists(n)
      /\ row \in Row /\ t \in Table /\ t.rows \in Seq(Row) /\ t.indexes \in Seq(Index)
  BY ONLY <1>E DEF InInserting
<1>C. /\ conns[c].table = p /\ p # none /\ p \in DOMAIN heap /\ h \in HeapTable
      /\ h.rows = Append(accepted[p], row)
  BY ONLY <1>E DEF InInserting
<1>D. /\ \A q \in DOMAIN heap \ {p} : Balanced(q)
      /\ \A q \in TableNames \ {n} : ShownAsSettled(q)
  BY ONLY <1>E DEF InInserting
<1> PICK w, f : w = WithNewRow(t, row) /\ f = Added(n, row, Len(t.rows), Len(t.indexes))
  OBVIOUS
<1>3. Shown(n, w, f) /\ \A k \in 1 .. Len(t.indexes) : InsertError(n, row, k) = NoError
  <2>1. "add" \notin {"idle", "rows"}
    OBVIOUS
  <2> PICK m \in 0 .. Len(t.indexes) :
        /\ Shown(n, WithNewRow(t, row), Added(n, row, Len(t.rows), m))
        /\ \A k \in 1 .. m : InsertError(n, row, k) = NoError
        /\ conns[c].todo = <<>> => m = Len(t.indexes)
    BY <1>1, <2>1, WhereInserting
  <2> QED
    BY <1>1
<1>4. conns[c].call.kind = "insert" /\ Len(s.values) = Len(t.columns)
      /\ BadValues(s.values) = {} /\ row = RowOf(s.values)
  BY <1>2 DEF Inserting
<1>5. accepted' = [accepted EXCEPT ![p] = Append(@, row)]
  BY <1>C, <1>4 DEF EndAdd
<1>6. /\ accepted' \in Seq(Seq(Row)) /\ Len(accepted') = Len(accepted)
      /\ accepted'[p] = h.rows /\ \A q \in DOMAIN heap \ {p} : accepted'[q] = accepted[q]
  <2>1. accepted \in Seq(Seq(Row)) /\ DOMAIN accepted = DOMAIN heap
    BY <1>2 DEF MemoryInv
  <2> PICK a : a = h.rows
    OBVIOUS
  <2>2. a \in Seq(Row) /\ a = Append(accepted[p], row) /\ p \in DOMAIN accepted
    BY <1>C, <2>1 DEF HeapTable
  <2>3. accepted' = [accepted EXCEPT ![p] = a]
    BY <1>5, <2>2
  <2>4. /\ accepted' \in Seq(Seq(Row)) /\ Len(accepted') = Len(accepted)
        /\ accepted'[p] = a /\ \A q \in DOMAIN accepted : q # p => accepted'[q] = accepted[q]
    BY ONLY <2>1, <2>2, <2>3, ReplacedItem
  <2> QED
    BY <2>1, <2>4
<1>7. Goto(c, Idle) /\ Settle(c, Reply(s, NoError)) /\ Reply(s, NoError).err = NoError
  BY <1>1 DEF Return, Reply
<1> PICK rows, v, answer : /\ rows = h.rows /\ v = [w EXCEPT !.rows = rows]
                           /\ answer = Reply(s, NoError)
  OBVIOUS
<1>8. MemoryInv' /\ AllBalanced' /\ tables' = [tables EXCEPT ![n] = v]
      /\ trees' = [trees EXCEPT ![n] = f]
  <2>1. h = [heap[p] EXCEPT !.rows = rows]
    BY <1>C DEF HeapTable
  <2>2. heap' = [heap EXCEPT ![p] = h]
    <3>1. heap = [q \in DOMAIN heap |-> heap[q]]
      BY <1>2 DEF MemoryInv
    <3>2. heap = [heap EXCEPT ![p] = heap[p]]
      BY ONLY <3>1, Zenon
    <3>3. heap' = heap /\ h = heap[p]
      BY <1>1
    <3> QED
      BY ONLY <3>2, <3>3
  <2>3. rows \in Seq(Row)
    BY <1>C DEF HeapTable
  <2>4. UNCHANGED <<catalogue, forest>> /\ Settle(c, answer)
    BY <1>1, <1>7
  <2>5. RowEnds(n, p, h, rows, w, v, f, c, answer)
    BY <1>2, <1>C, <1>D, <1>3, <1>6, <2>1, <2>2, <2>3, <2>4, Zenon DEF RowEnds
  <2> QED
    BY ONLY <1>2, <2>5, RowSettles
<1>9. tables' = [tables EXCEPT ![n].rows = Append(@, row)]
  <2>3. w.rows = h.rows
    <3>1. /\ MemoryInv /\ n \in TableNames /\ catalogue[n] # none /\ Shown(n, w, f)
          /\ h = heap[catalogue[n]]
      BY <1>2, <1>3, <1>C
    <3> QED
      BY ONLY <3>1, NameShown
  <2>1. v = [t EXCEPT !.rows = Append(t.rows, row)]
    BY <1>2, <2>3 DEF WithNewRow, Table
  <2>2. t = tables[n]
    OBVIOUS
  <2> QED
    BY <1>8, <2>1, <2>2
<1>10. Refusals(n, row) = {}
  BY <1>2, <1>3 DEF Refusals
<1>11. granted' = granted /\ reply' = Reply(s, NoError)
  BY <1>4, <1>7 DEF Settle, Granted
<1>12. WithinBounds(n)
  BY <1>2, Bounded
<1>13. Insert(s)
  <2>1. trees' = [trees EXCEPT ![n] = Added(n, row, Len(tables[n].rows), Len(tables[n].indexes))]
    BY <1>8
  <2>2. Len(s.values) = Len(tables[n].columns)
    BY <1>4
  <2> QED
    BY <1>2, <1>4, <1>9, <1>10, <1>11, <1>12, <2>1, <2>2, Zenon DEF Insert
<1>14. Next
  BY <1>2, <1>13 DEF Next
<1>15. ConnsInv' /\ Idle.pc = "idle" /\ NoError # Panic
  BY ConnsKept DEF Run, Idle, NoError, Panic
<1> QED
  BY <1>1, <1>2, <1>7, <1>8, <1>14, <1>15, Settling

\* TakeBack: the last row is the one that was appended.
LEMMA TakeBackStep ==
  ASSUME SerialInv, NEW c \in Conns, TakeBack(c)
  PROVE  SerialInv' /\ [Next]_vars
<1> PICK s, n, p, h, t, row :
      /\ s = Stmt(c) /\ n = s.table /\ p = catalogue[n] /\ h = heap[p]
      /\ t = tables[n] /\ row = conns[c].row
  OBVIOUS
<1>1. Local(c, "drop") /\ UNCHANGED asked
  BY DEF TakeBack
<1>2. AddingRow(c)
  <2>1. Progress(c) /\ conns[c].pc = "drop"
    BY <1>1, Underway
  <2> QED
    BY <2>1, Whereabouts
<1>3. InInserting(c, "drop", s, n, p, h, t, row)
  BY <1>1, <1>2, WhileInserting
<1>4. /\ DOMAIN conns[c] = DOMAIN Idle /\ conns[c].table = p /\ conns[c].pc = "drop"
      /\ t.rows \in Seq(Row) /\ row \in Row /\ h.rows = Append(t.rows, row)
  BY <1>3 DEF InInserting
<1>5. DropRow(h.rows) = t.rows /\ h.rows # <<>>
  <2> PICK old : old = t.rows
    OBVIOUS
  <2>1. old \in Seq(Row) /\ row \in Row /\ h.rows = Append(old, row)
    BY <1>4
  <2>2. DropRow(Append(old, row)) = old
    BY ONLY <2>1, DropsLast
  <2>3. Append(old, row) # <<>>
    BY ONLY <2>1
  <2> QED
    BY <2>1, <2>2, <2>3
<1> PICK r : r = [conns[c] EXCEPT !.pc = "reslice", !.slice = t.rows]
  OBVIOUS
<1>6. /\ Goto(c, r)
      /\ UNCHANGED <<catalogue, heap, forest, process, asked, accepted, settled>>
  BY <1>1, <1>4, <1>5 DEF TakeBack
<1>7. /\ r.pc = "reslice" /\ r.slice = t.rows /\ r.err = conns[c].err
      /\ r.call = conns[c].call /\ r.row = row /\ r.table = p /\ r.pc \notin {"idle", "rows"}
  BY <1>4 DEF Idle
<1>8. PICK m \in 0 .. Len(t.indexes) :
        /\ Holds(c, n, WithNewRow(t, row), Added(n, row, Len(t.rows), m))
        /\ \A k \in 1 .. m : InsertError(n, row, k) = NoError
        /\ m < Len(t.indexes) /\ conns[c].err = InsertError(n, row, m + 1)
        /\ conns[c].err \notin {NoError, Panic}
  <2> PICK m \in 0 .. Len(t.indexes) :
        /\ Holds(c, n, WithNewRow(t, row), Added(n, row, Len(t.rows), m))
        /\ \A k \in 1 .. m : InsertError(n, row, k) = NoError
        /\ AmongIndexes(conns[c], t, heap[conns[c].table].indexes, m,
                        InsertError(n, row, m + 1),
                        IndexKey(t, row, t.indexes[m + 1].exp))
    BY <1>2, RowGoingOn
  <2>1. /\ m < Len(t.indexes) /\ conns[c].err = InsertError(n, row, m + 1)
        /\ conns[c].err \notin {NoError, Panic}
    BY <1>4 DEF AmongIndexes, AmidRow
  <2> QED
    BY <2>1
<1>9. AmongIndexes(r, t, h.indexes, m, InsertError(n, row, m + 1),
                   IndexKey(t, row, t.indexes[m + 1].exp))
  BY <1>7, <1>8 DEF AmongIndexes
<1>10. Run(c)
  BY DEF Run
<1>11. ReadsOn(c, "drop", s, n, p, h, t, row, r, m)
  BY <1>2, <1>3, <1>6, <1>7, <1>8, <1>9, <1>10 DEF ReadsOn
<1> QED
  BY ONLY <1>11, RowBeingAdded

\* StoreShorter: the row that was appended goes.
LEMMA StoreShorterStep ==
  ASSUME OneAtATime, SerialInv, NEW c \in Conns, StoreShorter(c)
  PROVE  SerialInv' /\ [Next]_vars
<1> PICK s, n, p, h, t, row, err :
      /\ s = Stmt(c) /\ n = s.table /\ p = catalogue[n] /\ h = heap[p]
      /\ t = tables[n] /\ row = conns[c].row /\ err = conns[c].err
  OBVIOUS
<1>1. Local(c, "reslice") /\ UNCHANGED asked
  BY DEF StoreShorter
<1>A. /\ SerialInv /\ c \in Conns /\ AddingRow(c) /\ Local(c, "reslice")
      /\ s = Stmt(c) /\ n = s.table /\ p = catalogue[n] /\ h = heap[p]
      /\ t = tables[n] /\ row = conns[c].row
  <2>1. Progress(c) /\ conns[c].pc = "reslice"
    BY <1>1, Underway
  <2> QED
    BY <1>1, <2>1, Whereabouts
<1>B. "reslice" \notin {"idle", "rows"}
  OBVIOUS
<1>E. InInserting(c, "reslice", s, n, p, h, t, row)
  BY ONLY <1>A, <1>B, WhileInserting
<1>2. /\ Alive /\ Busy(c) /\ s \in Inserts /\ n \in TableNames
      /\ MemoryInv /\ TypeOK /\ TreesMapped /\ Running /\ IndexInv
      /\ Inserting(c) /\ Exists(n)
      /\ row \in Row /\ t \in Table /\ t.rows \in Seq(Row) /\ t.indexes \in Seq(Index)
  BY ONLY <1>E DEF InInserting
<1>C. /\ conns[c].table = p /\ p # none /\ p \in DOMAIN heap /\ h \in HeapTable
      /\ h.rows = Append(accepted[p], row)
  BY ONLY <1>E DEF InInserting
<1>F. h.rows = Append(t.rows, row)
  BY ONLY <1>E DEF InInserting
<1>D. /\ \A q \in DOMAIN heap \ {p} : Balanced(q)
      /\ \A q \in TableNames \ {n} : ShownAsSettled(q)
  BY ONLY <1>E DEF InInserting
<1>3. PICK m \in 0 .. Len(t.indexes) :
        /\ Shown(n, WithNewRow(t, row), Added(n, row, Len(t.rows), m))
        /\ \A k \in 1 .. m : InsertError(n, row, k) = NoError
        /\ m < Len(t.indexes) /\ err = InsertError(n, row, m + 1)
        /\ err \notin {NoError, Panic} /\ conns[c].slice = t.rows
  <2> PICK m \in 0 .. Len(t.indexes) :
        /\ Shown(n, WithNewRow(t, row), Added(n, row, Len(t.rows), m))
        /\ \A k \in 1 .. m : InsertError(n, row, k) = NoError
        /\ "reslice" \in {"drop", "reslice"} =>
             /\ m < Len(t.indexes)
             /\ conns[c].err = InsertError(n, row, m + 1)
             /\ conns[c].err \notin {NoError, Panic}
             /\ "reslice" = "reslice" => conns[c].slice = t.rows
    BY <1>A, <1>B, WhereInserting
  <2> QED
    OBVIOUS
<1> PICK w, f, rows : /\ w = WithNewRow(t, row) /\ f = Added(n, row, Len(t.rows), m)
                      /\ rows = DropRow(h.rows)
  OBVIOUS
<1> PICK u, v : u = [h EXCEPT !.rows = rows] /\ v = [w EXCEPT !.rows = rows]
  OBVIOUS
<1>4. /\ accepted \in Seq(Seq(Row)) /\ DOMAIN accepted = DOMAIN heap
      /\ accepted[p] \in Seq(Row)
  BY <1>2, <1>C DEF MemoryInv
<1>5. rows = accepted[p] /\ conns[c].slice = rows
  <2> PICK old, was : old = accepted[p] /\ was = t.rows
    OBVIOUS
  <2>1. old \in Seq(Row) /\ row \in Row /\ h.rows = Append(old, row)
        /\ was \in Seq(Row) /\ h.rows = Append(was, row)
    BY <1>2, <1>4, <1>C, <1>F
  <2>2. DropRow(Append(old, row)) = old /\ DropRow(Append(was, row)) = was
    BY ONLY <2>1, DropsLast
  <2> QED
    BY <1>3, <2>1, <2>2
<1>6. heap' = [heap EXCEPT ![p] = u] /\ Return(c, err)
      /\ UNCHANGED <<catalogue, forest, accepted, process>>
  BY <1>5, <1>C DEF StoreShorter
<1>7. Goto(c, Idle) /\ Settle(c, Reply(s, err)) /\ Reply(s, err).err = err
  BY <1>6 DEF Return, Reply
<1> PICK answer : answer = Reply(s, err)
  OBVIOUS
<1>8. MemoryInv' /\ AllBalanced' /\ tables' = [tables EXCEPT ![n] = v]
      /\ trees' = [trees EXCEPT ![n] = f]
  <2>1. RowEnds(n, p, u, rows, w, v, f, c, answer)
    BY <1>2, <1>C, <1>D, <1>3, <1>4, <1>5, <1>6, <1>7, Zenon DEF RowEnds
  <2> QED
    BY ONLY <1>2, <2>1, RowSettles
<1>9. tables' = [tables EXCEPT ![n].rows = DropRow(Append(@, row))]
  <2>1. w.rows = h.rows
    <3>1. /\ MemoryInv /\ n \in TableNames /\ catalogue[n] # none /\ Shown(n, w, f)
          /\ h = heap[catalogue[n]]
      BY <1>2, <1>3, <1>C
    <3> QED
      BY ONLY <3>1, NameShown
  <2>2. v = [t EXCEPT !.rows = DropRow(Append(t.rows, row))]
    BY <1>2, <2>1 DEF WithNewRow, Table
  <2>3. t = tables[n]
    OBVIOUS
  <2> QED
    BY <1>8, <2>2, <2>3
<1>10. Refusals(n, row) # {} /\ Min(Refusals(n, row)) = m + 1
  <2>1. /\ tables[n].indexes \in Seq(Index) /\ m \in Nat /\ m < Len(tables[n].indexes)
        /\ \A k \in 1 .. m : InsertError(n, row, k) = NoError
        /\ InsertError(n, row, m + 1) # NoError
    BY <1>2, <1>3
  <2> QED
    BY ONLY <2>1, FirstRefusal
<1>11. conns[c].call.kind = "insert" /\ Len(s.values) = Len(t.columns)
       /\ BadValues(s.values) = {} /\ row = RowOf(s.values)
  BY <1>2 DEF Inserting
<1>12. granted' = granted /\ reply' = Reply(s, err)
  BY <1>11, <1>7 DEF Settle, Granted
<1>13. WithinBounds(n)
  BY <1>2, Bounded
<1>14. (m + 1) - 1 = m
  OBVIOUS
<1>15. Insert(s)
  <2>1. trees' = [trees EXCEPT ![n] =
                    Added(n, row, Len(tables[n].rows), Min(Refusals(n, row)) - 1)]
    BY <1>8, <1>10, <1>14
  <2>2. Len(s.values) = Len(tables[n].columns)
    BY <1>11
  <2>3. InsertError(n, row, Min(Refusals(n, row))) = err
    BY <1>3, <1>10
  <2> QED
    BY <1>2, <1>3, <1>9, <1>10, <1>11, <1>12, <1>13, <2>1, <2>2, <2>3, Zenon DEF Insert
<1>16. Next
  BY <1>2, <1>15 DEF Next
<1>17. ConnsInv' /\ Idle.pc = "idle"
  BY ConnsKept DEF Run, Idle
<1> QED
  BY <1>1, <1>2, <1>3, <1>6, <1>7, <1>8, <1>16, <1>17, Settling

------------------------------------------------------------------------------
(***************************************************************************)
(* CreateIndex.                                                            *)
(***************************************************************************)

\* A table and its trees go on being filled.
StillFilling(c, s, n, t, x, r, m) ==
  /\ Indexing(c) /\ s = Stmt(c) /\ n = s.table /\ t = tables[n]
  /\ UNCHANGED <<tables, trees>> /\ AllBalanced'
  /\ conns'[c] = r /\ r.call = conns[c].call
  /\ x = heap'[r.table].indexes[Len(heap'[r.table].indexes)]
  /\ m \in 0 .. Len(t.rows)
  /\ Holds(c, n, WithNewIndex(t, s), [trees[n] EXCEPT ![s.name] = Filled(t, s.exp, m)])'
  /\ \A i \in 1 .. m : FillError(t, s, i) = NoError
  /\ AmongRows(r, t, s, x, m)

\* The state after such a step
LEMMA FillingGoesOn ==
  ASSUME NEW c, NEW s, NEW n, NEW t, NEW x, NEW r, NEW m,
         StillFilling(c, s, n, t, x, r, m)
  PROVE  Filling(c)'
<1> USE DEF StillFilling
<1>1. Stmt(c)' = s
  BY DEF Stmt
<1>2. Indexing(c)'
  BY <1>1 DEF Indexing, Exists
<1>3. t = tables'[n] /\ n = s.table /\ conns'[c] = r /\ AllBalanced'
      /\ x = heap'[conns'[c].table].indexes[Len(heap'[conns'[c].table].indexes)]
  OBVIOUS
<1>4. /\ m \in 0 .. Len(t.rows)
      /\ \A i \in 1 .. m : FillError(t, s, i) = NoError
      /\ AmongRows(conns'[c], t, s, x, m)
  OBVIOUS
<1>5. Holds(c, n, WithNewIndex(t, s), [trees[n] EXCEPT ![s.name] = Filled(t, s.exp, m)])'
  OBVIOUS
<1>6. trees' = trees
  OBVIOUS
<1> QED
  BY <1>1, <1>2, <1>3, <1>4, <1>5, <1>6 DEF Filling

\* The connection installs the index y in the table t of a name, which becomes w.
Installs(c, n, y, p, x, r, t, f, w) ==
  /\ InstallIndex(c) /\ AllBalanced /\ n \in TableNames
  /\ p = catalogue[n] /\ conns[c].table = p /\ p # none
  /\ conns[c].slice = heap[p].indexes
  /\ y \in Index /\ y = conns[c].key /\ x = WithTree(y, Len(forest) + 1)
  /\ r = [conns[c] EXCEPT !.pc = "fill", !.key = x]
  /\ Shown(n, t, f) /\ w = [t EXCEPT !.indexes = Append(@, y)]

\* The index has joined the table that the connection holds.
LEMMA IndexInstalled ==
  ASSUME SerialInv, NEW c \in Conns, NEW n, NEW y, NEW p, NEW x, NEW r, NEW t, NEW f, NEW w,
         Installs(c, n, y, p, x, r, t, f, w)
  PROVE  /\ ConnsInv' /\ MemoryInv' /\ AllBalanced' /\ OthersShown(n)
         /\ Goto(c, r) /\ conns'[c] = r /\ r.pc = "fill" /\ r.key = x
         /\ r.call = conns[c].call /\ r.table = p
         /\ UNCHANGED <<catalogue, process, asked, accepted, settled>>
         /\ heap'[p].indexes = Append(heap[p].indexes, x)
         /\ heap[p] \in HeapTable
         /\ Shown(n, w, f)'
<1> USE DEF Installs
<1>1. /\ Local(c, "join") /\ UNCHANGED <<catalogue, process, asked, accepted, settled>>
      /\ forest' = Append(forest, {}) /\ Goto(c, r)
      /\ heap' = [heap EXCEPT ![p].indexes = Append(@, x)]
  BY DEF InstallIndex
<1>2. /\ Alive /\ Busy(c) /\ DOMAIN conns[c] = DOMAIN Idle
  BY <1>1, Underway
<1>3. MemoryInv /\ ConnsInv /\ OneBusy
  BY <1>2, Executed
<1>4. ConnsInv' /\ conns'[c] = r
  BY <1>1, <1>2, ConnsKept, Executed, OthersIdle DEF Run
<1>5. r.pc = "fill" /\ r.key = x /\ r.call = conns[c].call /\ r.table = p
  BY <1>2 DEF Idle
<1>6. /\ MemoryInv' /\ OthersShown(n)
      /\ heap'[p].indexes = Append(heap[p].indexes, x)
      /\ \A a, b : Shown(n, a, b) => Shown(n, [a EXCEPT !.indexes = Append(@, y)], b)'
  BY <1>1, <1>3, IndexJoins
<1>7. heap \in Seq(HeapTable) /\ p \in DOMAIN heap /\ heap[p] \in HeapTable
  BY <1>3, PointerShape DEF MemoryInv
<1>8. AllBalanced'
  <2>1. DOMAIN heap' = DOMAIN heap
    BY <1>1
  <2>2. \A q \in DOMAIN heap : heap'[q].rows = heap[q].rows
    BY <1>1, <1>7 DEF HeapTable
  <2> QED
    BY <1>1, <2>1, <2>2, BalanceKept
<1>9. Shown(n, w, f)'
  BY <1>6
<1> QED
  BY <1>1, <1>4, <1>5, <1>6, <1>7, <1>8, <1>9

\* InstallIndex, for the primary key of a table being created
LEMMA InstallKeyStep ==
  ASSUME SerialInv, NEW c \in Conns, InstallIndex(c), InstallingKey(c)
  PROVE  SerialInv' /\ [Next]_vars
<1> PICK s, n, cols, y, p :
      /\ s = Stmt(c) /\ n = s.table /\ cols = s.cols /\ y = conns[c].key /\ p = catalogue[n]
  OBVIOUS
<1> PICK t, u : t = FirstColumns(cols, Len(cols)) /\ u = NewTable(n, cols)
  OBVIOUS
<1>1. Local(c, "join")
  BY DEF InstallIndex
<1>2. /\ Alive /\ Busy(c) /\ conns[c].call \in Statements
  BY <1>1, Underway
<1>3. /\ Creating(c) /\ BadColumns(cols) = {} /\ PrimaryKeyIndexes(n, cols) # <<>>
      /\ y = PrimaryKeyIndexes(n, cols)[1] /\ Holds(c, n, t, NoEntries)
  BY DEF InstallingKey
<1>4. s \in CreateTables
  BY <1>2, <1>3, StatementShape DEF Stmt, Creating
<1>5. n \in TableNames /\ cols \in Seq(ColumnDefinition)
  BY <1>4, StatementsAssumption
<1>6. y \in Index /\ PrimaryKeyIndexes(n, cols) = <<y>>
  <2> PICK xs : xs = PrimaryKeyIndexes(n, cols)
    OBVIOUS
  <2>1. xs \in Seq(Index) /\ Len(xs) \in {0, 1}
    BY <1>4, PrimaryKeyShape
  <2>2. xs # <<>> /\ y = xs[1]
    BY <1>3
  <2>3. Len(xs) = 1
    BY ONLY <2>1, <2>2
  <2> QED
    BY <2>1, <2>2, <2>3
<1>7. /\ conns[c].table = p /\ p # none /\ Shown(n, t, NoEntries)
      /\ \A q \in TableNames \ {n} : ShownAsSettled(q)
  BY <1>3 DEF Holds
<1>8. AllBalanced /\ conns[c].call.kind = "create table"
      /\ tables[n] = none /\ trees[n] = NoEntries
  BY <1>3 DEF Creating
<1> PICK x : x = WithTree(y, Len(forest) + 1)
  OBVIOUS
<1> PICK r : r = [conns[c] EXCEPT !.pc = "fill", !.key = x]
  OBVIOUS
<1>9. /\ ConnsInv' /\ MemoryInv' /\ AllBalanced' /\ OthersShown(n)
      /\ Goto(c, r) /\ conns'[c] = r /\ r.pc = "fill"
      /\ r.call = conns[c].call /\ r.table = p
      /\ UNCHANGED <<catalogue, process, asked, accepted, settled>>
      /\ Shown(n, u, NoEntries)'
  <2>1. u = [t EXCEPT !.indexes = Append(@, y)]
    <3> PICK v : v = [t EXCEPT !.indexes = Append(@, y)]
      OBVIOUS
    <3>1. /\ cols \in Seq(ColumnDefinition) /\ t = FirstColumns(cols, Len(cols))
          /\ PrimaryKeyIndexes(n, cols) = <<y>>
      BY <1>5, <1>6
    <3>2. [t EXCEPT !.indexes = Append(@, y)] = NewTable(n, cols)
      BY ONLY <3>1, AllColumns
    <3> QED
      BY <3>2
  <2>6. conns[c].slice = heap[p].indexes
    <3>1. heap[conns[c].table].indexes = <<>>
      BY <1>1, Bare
    <3>2. conns[c].slice = <<>>
      BY <1>1 DEF InstallingKey, Local
    <3> QED
      BY <1>7, <3>1, <3>2
  <2>2. Installs(c, n, y, p, x, r, t, NoEntries, u)
    BY <1>5, <1>6, <1>7, <1>8, <2>1, <2>6 DEF Installs
  <2>5. SerialInv /\ c \in Conns
    OBVIOUS
  <2>3. /\ ConnsInv' /\ MemoryInv' /\ AllBalanced' /\ OthersShown(n)
        /\ Goto(c, r) /\ conns'[c] = r /\ r.pc = "fill"
        /\ r.call = conns[c].call /\ r.table = p
    BY ONLY <2>2, <2>5, IndexInstalled
  <2>4. /\ UNCHANGED <<catalogue, process, asked, accepted, settled>>
        /\ Shown(n, u, NoEntries)'
    BY ONLY <2>2, <2>5, IndexInstalled
  <2> QED
    BY <2>3, <2>4
<1>11. Stmt(c)' = s
  BY <1>9 DEF Stmt
<1>12. UNCHANGED <<tables, trees>>
  BY <1>9 DEF settled, vars
<1>13. Holds(c, n, u, NoEntries)'
  <2>2. conns'[c].table = catalogue'[n] /\ catalogue'[n] # none
    BY <1>7, <1>9
  <2> QED
    BY <1>5, <1>7, <1>9, <1>12, <2>2, HoldsAfter
<1>14. Creating(c)'
  BY <1>8, <1>9, <1>11, <1>12 DEF Creating
<1>15. KeyInstalled(c)'
  BY <1>3, <1>9, <1>11, <1>13, <1>14 DEF KeyInstalled
<1>16. Progress(c)'
  BY <1>15 DEF Progress
<1> QED
  BY <1>2, <1>9, <1>16, Working

\* InstallIndex, for CREATE INDEX
LEMMA InstallIndexStep ==
  ASSUME SerialInv, NEW c \in Conns, InstallIndex(c), InstallingIndex(c)
  PROVE  SerialInv' /\ [Next]_vars
<1> PICK s, n, y, p, t, f :
      /\ s = Stmt(c) /\ n = s.table /\ y = conns[c].key /\ p = catalogue[n]
      /\ t = tables[n] /\ f = trees[n]
  OBVIOUS
<1>1. Local(c, "join")
  BY DEF InstallIndex
<1>2. /\ Alive /\ Busy(c) /\ conns[c].call \in Statements
  BY <1>1, Underway
<1>3. /\ Indexing(c) /\ y = NewIndex(s) /\ conns[c].table = p /\ Settled
  BY DEF InstallingIndex
<1>S. conns[c].slice = heap[p].indexes
  BY <1>1, <1>3 DEF InstallingIndex, Local
<1>4. conns[c].call.kind = "create index" /\ Exists(n) /\ ~HasIndex(t, s.name)
  BY <1>3 DEF Indexing
<1>5. s \in CreateIndexes
  BY <1>2, <1>4, StatementShape DEF Stmt
<1>6. n \in TableNames /\ s.name \in IndexNames /\ y \in Index
  BY <1>3, <1>5, StatementsAssumption DEF NewIndex, Index
<1>7. MemoryInv /\ TypeOK
  BY <1>2, Executed
<1>8. p # none /\ p \in DOMAIN heap /\ AllBalanced
      /\ t \in Table /\ Shown(n, t, f) /\ \A q \in TableNames : ShownAsSettled(q)
  <2>1. AllBalanced /\ \A q \in TableNames : ShownAsSettled(q)
    BY <1>3 DEF Settled
  <2>2. Shown(n, t, f)
    BY <1>6, <2>1 DEF ShownAsSettled
  <2>3. p # none /\ p \in DOMAIN heap /\ t \in Table
    BY <1>3, <1>4, <1>6, <1>7, Found
  <2> QED
    BY ONLY <2>1, <2>2, <2>3
<1> PICK x, w : x = WithTree(y, Len(forest) + 1) /\ w = WithNewIndex(t, s)
  OBVIOUS
<1> PICK r : r = [conns[c] EXCEPT !.pc = "fill", !.key = x]
  OBVIOUS
<1>9. /\ ConnsInv' /\ MemoryInv' /\ AllBalanced' /\ OthersShown(n)
      /\ Goto(c, r) /\ conns'[c] = r /\ r.pc = "fill" /\ r.key = x
      /\ r.call = conns[c].call /\ r.table = p
      /\ UNCHANGED <<catalogue, process, asked, accepted, settled>>
      /\ heap'[p].indexes = Append(heap[p].indexes, x)
      /\ heap[p] \in HeapTable /\ Shown(n, w, f)'
  <2>1. w = [t EXCEPT !.indexes = Append(@, y)]
    BY <1>3 DEF WithNewIndex
  <2>2. Installs(c, n, y, p, x, r, t, f, w)
    BY <1>3, <1>S, <1>6, <1>8, <2>1 DEF Installs
  <2>6. SerialInv /\ c \in Conns
    OBVIOUS
  <2>3. /\ ConnsInv' /\ MemoryInv' /\ AllBalanced' /\ OthersShown(n)
        /\ Goto(c, r) /\ conns'[c] = r /\ r.pc = "fill" /\ r.key = x
        /\ r.call = conns[c].call /\ r.table = p
    BY ONLY <2>2, <2>6, IndexInstalled
  <2>4. /\ UNCHANGED <<catalogue, process, asked, accepted, settled>>
        /\ heap'[p].indexes = Append(heap[p].indexes, x)
    BY ONLY <2>2, <2>6, IndexInstalled
  <2>5. heap[p] \in HeapTable /\ Shown(n, w, f)'
    BY ONLY <2>2, <2>6, IndexInstalled
  <2> QED
    BY <2>3, <2>4, <2>5
<1>10. UNCHANGED <<tables, trees>>
  BY <1>9 DEF settled, vars
<1> PICK g : g = [f EXCEPT ![s.name] = Filled(t, s.exp, 0)]
  OBVIOUS
<1>11. g = f
  <2>1. f = [a \in IndexNames |->
               UNION {forest[heap[p].indexes[k].tree] :
                        k \in {k \in DOMAIN heap[p].indexes : heap[p].indexes[k].name = a}}]
    <3>1. f = TreesOf(heap[p], forest)
      BY <1>6, <1>7, <1>8, NameShown
    <3> QED
      BY <3>1 DEF TreesOf
  <2>2. \A k \in DOMAIN heap[p].indexes : heap[p].indexes[k].name # s.name
    <3>1. ~HasIndex(heap[p], s.name)
      BY <1>3, <1>4, <1>6, <1>7, Found
    <3> QED
      BY <3>1 DEF HasIndex
  <2>3. f[s.name] = {}
    <3>1. {k \in DOMAIN heap[p].indexes : heap[p].indexes[k].name = s.name} = {}
      BY <2>2
    <3>2. f[s.name] = UNION {forest[heap[p].indexes[k].tree] :
                        k \in {k \in DOMAIN heap[p].indexes : heap[p].indexes[k].name = s.name}}
      BY ONLY <1>6, <2>1
    <3> QED
      BY ONLY <3>1, <3>2
  <2>4. Filled(t, s.exp, 0) = {}
    BY DEF Filled
  <2>5. f = [a \in IndexNames |-> f[a]]
    BY <2>1
  <2> QED
    BY ONLY <2>3, <2>4, <2>5, g = [f EXCEPT ![s.name] = Filled(t, s.exp, 0)]
<1>12. Holds(c, n, w, g)'
  <2>2. Shown(n, w, g)'
    BY <1>9, <1>11
  <2>3. conns'[c].table = catalogue'[n] /\ catalogue'[n] # none
    BY <1>8, <1>9
  <2> QED
    BY <1>6, <1>8, <1>9, <1>10, <2>2, <2>3, HoldsAfter
<1>13. StillFilling(c, s, n, t, x, r, 0)
  <2>1. x = heap'[r.table].indexes[Len(heap'[r.table].indexes)]
    <3> PICK xs, ys : xs = heap[p].indexes /\ ys = heap'[p].indexes
      OBVIOUS
    <3>1. xs \in Seq(HeapIndex) /\ ys = Append(xs, x)
      BY <1>9 DEF HeapTable
    <3>2. Len(ys) = Len(xs) + 1 /\ ys[Len(xs) + 1] = x
      BY ONLY <3>1
    <3> QED
      BY <1>9, <3>2
  <2>2. 0 \in 0 .. Len(t.rows)
    <3>1. t.rows \in Seq(Row)
      BY <1>8 DEF Table
    <3> QED
      BY ONLY <3>1
  <2>3. AmongRows(r, t, s, x, 0)
    BY <1>9 DEF AmongRows
  <2>4. \A i \in 1 .. 0 : FillError(t, s, i) = NoError
    OBVIOUS
  <2>5. Holds(c, n, WithNewIndex(t, s), [trees[n] EXCEPT ![s.name] = Filled(t, s.exp, 0)])'
    <3>1. WithNewIndex(t, s) = w /\ [f EXCEPT ![s.name] = Filled(t, s.exp, 0)] = g
      OBVIOUS
    <3>2. trees'[n] = f
      BY <1>10
    <3> QED
      BY <1>12, <3>1, <3>2
  <2> QED
    BY <1>3, <1>9, <1>10, <2>1, <2>2, <2>3, <2>4, <2>5 DEF StillFilling
<1>14. Progress(c)'
  <2>1. Filling(c)'
    BY ONLY <1>13, FillingGoesOn
  <2> QED
    BY <2>1 DEF Progress
<1> QED
  BY <1>2, <1>9, <1>14, Working

\* What a connection knows while its index is filled
InFilling(c, pc, s, n, p, h, t, x) ==
  /\ Alive /\ Busy(c) /\ s \in CreateIndexes /\ n \in TableNames /\ conns[c].pc = pc
  /\ s.name \in IndexNames
  /\ MemoryInv /\ TypeOK /\ TreesMapped /\ Running /\ ConnsInv /\ OneBusy /\ IndexInv
  /\ DOMAIN conns[c] = DOMAIN Idle /\ Indexing(c) /\ AllBalanced
  /\ Exists(n) /\ ~HasIndex(t, s.name)
  /\ conns[c].table = p /\ p # none /\ p \in DOMAIN heap /\ h \in HeapTable
  /\ t \in Table /\ t.rows \in Seq(Row)
  /\ \A q \in TableNames \ {n} : ShownAsSettled(q)
  /\ h.columns = t.columns /\ h.columnTypes = t.columnTypes /\ h.rows = t.rows
  /\ Len(h.indexes) \in DOMAIN h.indexes /\ PlainIndex(x) = NewIndex(s)
  /\ \E m \in 0 .. Len(t.rows) :
       /\ Holds(c, n, WithNewIndex(t, s),
                [trees[n] EXCEPT ![s.name] = Filled(t, s.exp, m)])
       /\ forest[x.tree] = Filled(t, s.exp, m)
       /\ \A i \in 1 .. m : FillError(t, s, i) = NoError
       /\ AmongRows(conns[c], t, s, x, m)

LEMMA WhileFilling ==
  ASSUME SerialInv, NEW c \in Conns, NEW pc, pc \notin {"idle", "rows"}, Local(c, pc),
         Filling(c),
         NEW s, s = Stmt(c), NEW n, n = s.table, NEW p, p = catalogue[n],
         NEW h, h = heap[p], NEW t, t = tables[n], NEW x, x = h.indexes[Len(h.indexes)]
  PROVE  InFilling(c, pc, s, n, p, h, t, x)
<1>1. /\ Alive /\ Busy(c) /\ conns[c].pc = pc
      /\ conns[c].call \in Statements /\ DOMAIN conns[c] = DOMAIN Idle
  BY Underway
<1>2. Indexing(c) /\ AllBalanced
  BY DEF Filling
<1>3. conns[c].call.kind = "create index" /\ Exists(n) /\ ~HasIndex(t, s.name)
  BY <1>2 DEF Indexing
<1>4. s \in CreateIndexes
  BY <1>1, <1>3, StatementShape DEF Stmt
<1>5. n \in TableNames /\ s.name \in IndexNames
  BY <1>4, StatementsAssumption
<1>6. MemoryInv /\ TypeOK /\ TreesMapped /\ Running /\ ConnsInv /\ OneBusy /\ IndexInv
  BY <1>1, Executed
<1>7. t \in Table /\ t.rows \in Seq(Row) /\ t.indexes \in Seq(Index)
  BY <1>3, <1>5, <1>6, TableShape DEF IndexInv
<1> PICK w : w = WithNewIndex(t, s)
  OBVIOUS
<1>8. PICK m \in 0 .. Len(t.rows) :
        /\ Holds(c, n, w, [trees[n] EXCEPT ![s.name] = Filled(t, s.exp, m)])
        /\ \A i \in 1 .. m : FillError(t, s, i) = NoError
        /\ AmongRows(conns[c], t, s,
                     heap[conns[c].table].indexes[Len(heap[conns[c].table].indexes)], m)
  BY DEF Filling
<1> PICK f : f = [trees[n] EXCEPT ![s.name] = Filled(t, s.exp, m)]
  OBVIOUS
<1>9. /\ conns[c].table = p /\ p # none /\ Shown(n, w, f)
      /\ \A q \in TableNames \ {n} : ShownAsSettled(q)
  BY <1>8 DEF Holds
<1>10. /\ p \in DOMAIN heap /\ h \in HeapTable
       /\ w.columns = h.columns /\ w.columnTypes = h.columnTypes /\ w.rows = h.rows
       /\ DOMAIN w.indexes = DOMAIN h.indexes /\ Len(w.indexes) = Len(h.indexes)
       /\ \A k \in DOMAIN h.indexes : w.indexes[k] = PlainIndex(h.indexes[k])
  <2>1. catalogue[n] # none /\ p = catalogue[n] /\ h = heap[catalogue[n]]
    BY <1>9
  <2> QED
    BY ONLY <1>5, <1>6, <1>9, <2>1, NameShown
<1>11. /\ w.columns = t.columns /\ w.columnTypes = t.columnTypes /\ w.rows = t.rows
       /\ w.indexes = Append(t.indexes, NewIndex(s))
  BY <1>7 DEF WithNewIndex, Table
<1>12. /\ Len(w.indexes) = Len(t.indexes) + 1 /\ Len(t.indexes) \in Nat
       /\ w.indexes[Len(t.indexes) + 1] = NewIndex(s)
       /\ DOMAIN w.indexes = 1 .. Len(t.indexes) + 1
       /\ \A k \in 1 .. Len(t.indexes) : w.indexes[k] = t.indexes[k] /\ k \in DOMAIN t.indexes
  <2> PICK xs, y : xs = t.indexes /\ y = NewIndex(s)
    OBVIOUS
  <2>1. xs \in Seq(Index) /\ w.indexes = Append(xs, y)
    BY <1>7, <1>11
  <2>2. /\ Len(w.indexes) = Len(xs) + 1 /\ Len(xs) \in Nat
        /\ w.indexes[Len(xs) + 1] = y
        /\ DOMAIN w.indexes = 1 .. Len(xs) + 1
        /\ \A k \in 1 .. Len(xs) : w.indexes[k] = xs[k] /\ k \in DOMAIN xs
    BY ONLY <2>1
  <2> QED
    BY <2>2
<1>13. Len(h.indexes) = Len(t.indexes) + 1
  BY <1>10, <1>12
<1>14. Len(h.indexes) \in DOMAIN h.indexes /\ PlainIndex(x) = NewIndex(s)
  <2> PICK l, y : l = Len(t.indexes) + 1 /\ y = NewIndex(s)
    OBVIOUS
  <2>1. l \in DOMAIN w.indexes /\ w.indexes[l] = y
    BY <1>12
  <2>2. l = Len(h.indexes) /\ l \in DOMAIN h.indexes /\ w.indexes[l] = PlainIndex(h.indexes[l])
    BY <1>10, <1>13, <2>1
  <2> QED
    BY <2>1, <2>2
<1>15. \A i, j \in DOMAIN w.indexes : w.indexes[i].name = w.indexes[j].name => i = j
  <2>1. NewIndex(s).name = s.name
    BY DEF NewIndex
  <2>2. \A i, j \in DOMAIN t.indexes : t.indexes[i].name = t.indexes[j].name => i = j
    <3>1. NamesDistinct
      BY <1>6 DEF IndexInv
    <3>2. \A i, j \in DOMAIN tables[n].indexes :
            tables[n].indexes[i].name = tables[n].indexes[j].name => i = j
      BY <1>3, <1>5, <3>1, Zenon DEF NamesDistinct
    <3> QED
      BY ONLY <3>2, t = tables[n]
  <2>3. \A i \in DOMAIN t.indexes : t.indexes[i].name # s.name
    BY <1>3 DEF HasIndex
  <2> PICK xs, ys, l, y :
        xs = t.indexes /\ ys = w.indexes /\ l = Len(t.indexes) /\ y = NewIndex(s)
    OBVIOUS
  <2>4. /\ l \in Nat /\ ys[l + 1] = y /\ DOMAIN ys = 1 .. l + 1
        /\ \A k \in 1 .. l : ys[k] = xs[k] /\ k \in DOMAIN xs
    BY <1>12
  <2>5. /\ y.name = s.name /\ \A i \in DOMAIN xs : xs[i].name # s.name
        /\ \A i, j \in DOMAIN xs : xs[i].name = xs[j].name => i = j
    BY <2>1, <2>2, <2>3
  <2>6. \A i, j \in DOMAIN ys : ys[i].name = ys[j].name => i = j
    BY ONLY <2>4, <2>5
  <2> QED
    BY <2>6
<1>16. forest[x.tree] = Filled(t, s.exp, m)
  <2> PICK k : k = Len(h.indexes)
    OBVIOUS
  <2>1. /\ k \in DOMAIN heap[catalogue[n]].indexes /\ x = heap[catalogue[n]].indexes[k]
        /\ catalogue[n] # none
    BY <1>9, <1>14
  <2>2. f[w.indexes[k].name] = forest[x.tree]
    BY ONLY <1>5, <1>6, <1>9, <1>15, <2>1, TreeShown
  <2>3. w.indexes[k].name = s.name
    BY <1>10, <1>14 DEF NewIndex
  <2>4. s.name \in DOMAIN trees[n]
    BY <1>5, <1>6 DEF TypeOK
  <2> QED
    BY <2>2, <2>3, <2>4
<1>17. AmongRows(conns[c], t, s, x, m)
  BY <1>8, <1>9
<1>18. h.columns = t.columns /\ h.columnTypes = t.columnTypes /\ h.rows = t.rows
  BY <1>10, <1>11
<1> QED
  BY <1>1, <1>2, <1>3, <1>4, <1>5, <1>6, <1>7, <1>8, <1>9, <1>10, <1>14, <1>16, <1>17, <1>18 DEF InFilling

\* What a connection knows when the primary key is installed
Installed(c, s, n) ==
  /\ Busy(c) /\ s \in CreateTables /\ n \in TableNames
  /\ MemoryInv /\ DOMAIN conns[c] = DOMAIN Idle
  /\ Creating(c) /\ AllBalanced /\ BadColumns(s.cols) = {}
  /\ conns[c].call.kind = "create table"
  /\ tables[n] = none /\ trees[n] = NoEntries
  /\ Holds(c, n, NewTable(n, s.cols), NoEntries)
  /\ conns[c].table = catalogue[n] /\ heap[catalogue[n]].rows = NewTable(n, s.cols).rows

LEMMA WhileInstalled ==
  ASSUME SerialInv, NEW c \in Conns, Alive, KeyInstalled(c),
         NEW s, s = Stmt(c), NEW n, n = s.table
  PROVE  Installed(c, s, n)
<1> PICK p, u : p = catalogue[n] /\ u = NewTable(n, s.cols)
  OBVIOUS
<1>1. /\ Alive /\ Busy(c)
      /\ conns[c].call \in Statements /\ DOMAIN conns[c] = DOMAIN Idle
  <2>1. conns[c].pc \in {"fill", "add"}
    BY DEF KeyInstalled
  <2>2. Local(c, conns[c].pc) /\ conns[c].pc \notin {"idle", "rows"}
    BY <2>1 DEF Local
  <2> QED
    BY <2>2, Underway
<1>2. Creating(c) /\ BadColumns(s.cols) = {} /\ Holds(c, n, u, NoEntries)
  BY DEF KeyInstalled
<1>3. /\ conns[c].call.kind = "create table" /\ AllBalanced
      /\ tables[n] = none /\ trees[n] = NoEntries
  BY <1>2 DEF Creating
<1>4. s \in CreateTables
  BY <1>1, <1>3, StatementShape DEF Stmt
<1>5. n \in TableNames
  BY <1>4, StatementsAssumption
<1>6. MemoryInv
  BY <1>1, Executed
<1>7. conns[c].table = p /\ p # none /\ Shown(n, u, NoEntries)
  BY <1>2 DEF Holds
<1>8. u.rows = heap[p].rows
  <2>1. catalogue[n] # none /\ p = catalogue[n]
    BY <1>7
  <2> QED
    BY ONLY <1>5, <1>6, <1>7, <2>1, NameShown
<1> QED
  BY <1>1, <1>2, <1>3, <1>4, <1>5, <1>6, <1>7, <1>8 DEF Installed

\* RangeOverRows, for the primary key: there are no rows.
LEMMA RangeOverNoRows ==
  ASSUME SerialInv, NEW c \in Conns, RangeOverRows(c), KeyInstalled(c)
  PROVE  SerialInv' /\ [Next]_vars
<1> PICK s, n, p, u, rows :
      /\ s = Stmt(c) /\ n = s.table /\ p = catalogue[n] /\ u = NewTable(n, s.cols)
      /\ rows = heap[conns[c].table].rows
  OBVIOUS
<1> PICK r : r = [conns[c] EXCEPT !.pc = "add",
                    !.todo = [i \in DOMAIN rows |-> Task(conns[c].key, i - 1)]]
  OBVIOUS
<1>1. /\ Local(c, "fill") /\ Goto(c, r)
      /\ UNCHANGED <<catalogue, heap, forest, process, asked, accepted, settled>>
  BY DEF RangeOverRows
<1>2. /\ Alive /\ Busy(c) /\ s \in CreateTables /\ n \in TableNames
      /\ MemoryInv /\ DOMAIN conns[c] = DOMAIN Idle
      /\ Creating(c) /\ AllBalanced /\ BadColumns(s.cols) = {}
      /\ conns[c].call.kind = "create table"
      /\ tables[n] = none /\ trees[n] = NoEntries
      /\ Holds(c, n, u, NoEntries) /\ rows = <<>>
  <2>1. SerialInv /\ c \in Conns /\ Alive /\ KeyInstalled(c) /\ s = Stmt(c) /\ n = s.table
    BY <1>1 DEF Local
  <2>2. Installed(c, s, n)
    BY ONLY <2>1, WhileInstalled
  <2>6. NewTable(n, s.cols).rows = <<>>
    BY DEF NewTable
  <2> QED
    BY <2>1, <2>2, <2>6, Zenon DEF Installed
<1>3. r.pc = "add" /\ r.todo = <<>> /\ r.call = conns[c].call /\ r.table = conns[c].table
  <2> PICK todo, key : key = conns[c].key /\ todo = [i \in DOMAIN rows |-> Task(key, i - 1)]
    OBVIOUS
  <2>1. todo = <<>>
    <3>1. rows = <<>>
      BY <1>2
    <3>2. todo \in Seq({0}) /\ Len(todo) = 0
      BY ONLY <3>1, todo = [i \in DOMAIN rows |-> Task(key, i - 1)]
    <3> QED
      BY ONLY <3>2
  <2>2. r = [conns[c] EXCEPT !.pc = "add", !.todo = todo]
    OBVIOUS
  <2> QED
    BY <1>2, <2>1, <2>2 DEF Idle
<1>4. conns'[c] = r /\ ConnsInv'
  BY <1>1, <1>2, Executed, OthersIdle, ConnsKept DEF Run
<1>5. Stmt(c)' = s
  BY <1>3, <1>4 DEF Stmt
<1>6. UNCHANGED <<tables, trees>>
  BY <1>1 DEF settled, vars
<1>7. MemoryInv' /\ AllBalanced'
  BY <1>1, <1>2, MemoryUnmoved
<1>8. Holds(c, n, u, NoEntries)'
  BY <1>1, <1>2, <1>3, <1>4, <1>6, HoldsStill
<1>9. Creating(c)'
  BY <1>2, <1>3, <1>4, <1>5, <1>6, <1>7 DEF Creating
<1>10. KeyInstalled(c)'
  BY <1>2, <1>3, <1>4, <1>5, <1>8, <1>9 DEF KeyInstalled
<1>11. Progress(c)'
  BY <1>10 DEF Progress
<1> QED
  BY <1>1, <1>2, <1>3, <1>4, <1>7, <1>11, Working

\* A step on the way through the rows that gets the connection c to r
GoesOnFilling(c, pc, s, n, p, h, t, x, m, r) ==
  /\ pc \notin {"idle", "rows"} /\ Local(c, pc) /\ Run(c)
  /\ s = Stmt(c) /\ n = s.table /\ p = catalogue[n] /\ h = heap[p] /\ t = tables[n]
  /\ x = h.indexes[Len(h.indexes)] /\ m \in 0 .. Len(t.rows)
  /\ Holds(c, n, WithNewIndex(t, s), [trees[n] EXCEPT ![s.name] = Filled(t, s.exp, m)])
  /\ \A i \in 1 .. m : FillError(t, s, i) = NoError
  /\ r.pc \notin {"idle", "rows"} /\ r.call = conns[c].call /\ r.table = p /\ Goto(c, r)
  /\ AmongRows(r, t, s, x, m)
  /\ UNCHANGED <<catalogue, heap, forest, process, asked, accepted, settled>>

\* A connection that changes nothing but its place goes on filling the index.
LEMMA FillingOn ==
  ASSUME SerialInv, NEW c \in Conns, Filling(c), NEW pc, NEW s, NEW n, NEW p, NEW h, NEW t,
         NEW x, NEW m, NEW r, GoesOnFilling(c, pc, s, n, p, h, t, x, m, r)
  PROVE  SerialInv' /\ [Next]_vars
<1>A. /\ pc \notin {"idle", "rows"} /\ Local(c, pc) /\ Run(c)
      /\ s = Stmt(c) /\ n = s.table /\ p = catalogue[n] /\ h = heap[p] /\ t = tables[n]
      /\ x = h.indexes[Len(h.indexes)] /\ m \in 0 .. Len(t.rows)
      /\ Holds(c, n, WithNewIndex(t, s), [trees[n] EXCEPT ![s.name] = Filled(t, s.exp, m)])
      /\ \A i \in 1 .. m : FillError(t, s, i) = NoError
      /\ r.pc \notin {"idle", "rows"} /\ r.call = conns[c].call /\ r.table = p /\ Goto(c, r)
      /\ AmongRows(r, t, s, x, m)
      /\ UNCHANGED <<catalogue, heap, forest, process, asked, accepted, settled>>
  BY Zenon DEF GoesOnFilling
<1> USE <1>A
<1>1. /\ Alive /\ Busy(c) /\ n \in TableNames /\ MemoryInv /\ Indexing(c) /\ AllBalanced
      /\ conns[c].table = p /\ h \in HeapTable
  <2>1. InFilling(c, pc, s, n, p, h, t, x)
    BY WhileFilling
  <2> QED
    BY ONLY <2>1 DEF InFilling
<1>2. conns'[c] = r /\ ConnsInv'
  BY <1>1, Executed, OthersIdle, ConnsKept
<1>3. UNCHANGED <<tables, trees>>
  BY DEF settled, vars
<1>4. MemoryInv' /\ AllBalanced'
  BY <1>1, MemoryUnmoved
<1> PICK w, f : /\ w = WithNewIndex(t, s)
                /\ f = [trees[n] EXCEPT ![s.name] = Filled(t, s.exp, m)]
  OBVIOUS
<1>5. Holds(c, n, w, f)'
  <2>1. Holds(c, n, w, f)
    OBVIOUS
  <2>2. conns'[c].table = conns[c].table
    BY <1>1, <1>2
  <2> QED
    BY <1>1, <1>3, <2>1, <2>2, HoldsStill
<1>6. StillFilling(c, s, n, t, x, r, m)
  <2>1. Holds(c, n, WithNewIndex(t, s), [trees[n] EXCEPT ![s.name] = Filled(t, s.exp, m)])'
    <3>1. /\ WithNewIndex(t, s) = w /\ trees'[n] = trees[n]
          /\ [trees[n] EXCEPT ![s.name] = Filled(t, s.exp, m)] = f
      BY <1>3
    <3> QED
      BY <1>5, <3>1
  <2>2. x = heap'[r.table].indexes[Len(heap'[r.table].indexes)]
    OBVIOUS
  <2> QED
    BY <1>1, <1>2, <1>3, <1>4, <2>1, <2>2 DEF StillFilling
<1>7. Progress(c)'
  <2>1. Filling(c)'
    BY ONLY <1>6, FillingGoesOn
  <2> QED
    BY <2>1 DEF Progress
<1> QED
  BY <1>1, <1>2, <1>4, <1>7, Working

\* The tasks that are left
LEMMA RowTasksLeft ==
  ASSUME NEW x, NEW len \in Nat, NEW m \in 0 .. len, NEW todo, todo = RowTasks(x, m, len)
  PROVE  /\ todo = <<>> <=> m = len
         /\ todo # <<>> => /\ m < len /\ Head(todo) = Task(x, m)
                           /\ Tail(todo) = RowTasks(x, m + 1, len)
<1>1. len - m \in Nat /\ todo = [i \in 1 .. len - m |-> Task(x, m + i - 1)]
  BY DEF RowTasks
<1> PICK S : S = {todo[i] : i \in 1 .. len - m}
  OBVIOUS
<1>2. todo \in Seq(S) /\ Len(todo) = len - m
  <2> PICK k : k = len - m
    OBVIOUS
  <2>1. k \in Nat /\ todo = [i \in 1 .. k |-> todo[i]] /\ S = {todo[i] : i \in 1 .. k}
    BY <1>1
  <2>2. todo \in Seq(S) /\ Len(todo) = k
    BY ONLY <2>1
  <2> QED
    BY <2>2
<1>3. todo = <<>> <=> m = len
  <2>1. todo = <<>> <=> Len(todo) = 0
    BY ONLY <1>2
  <2> QED
    BY <1>2, <2>1
<1>4. ASSUME todo # <<>>
      PROVE  m < len /\ Head(todo) = Task(x, m) /\ Tail(todo) = RowTasks(x, m + 1, len)
  <2>1. m < len
    BY <1>3, <1>4
  <2>2. Head(todo) = todo[1] /\ 1 \in 1 .. len - m /\ m + 1 - 1 = m
    BY <1>2, <2>1
  <2>3. todo[1] = Task(x, m)
    BY <1>1, <2>2
  <2>4. Tail(todo) = [i \in 1 .. len - m - 1 |-> todo[i + 1]]
    BY ONLY <1>1, <1>2, <2>1, m \in 0 .. len, len \in Nat
  <2>5. /\ \A i \in 1 .. len - m - 1 : i + 1 \in 1 .. len - m /\ m + (i + 1) - 1 = m + 1 + i - 1
        /\ len - m - 1 = len - (m + 1)
    OBVIOUS
  <2>6. \A i \in 1 .. len - m - 1 : todo[i + 1] = Task(x, m + 1 + i - 1)
    BY ONLY <1>1, <2>5
  <2>7. RowTasks(x, m + 1, len) = [i \in 1 .. len - m - 1 |-> Task(x, m + 1 + i - 1)]
    BY <2>5 DEF RowTasks
  <2> QED
    BY ONLY <2>1, <2>2, <2>3, <2>4, <2>6, <2>7
<1> QED
  BY <1>3, <1>4

LEMMA NoRowTasksLeft ==
  ASSUME NEW x, NEW len \in Nat, NEW m \in 0 .. len, RowTasks(x, m, len) = <<>>
  PROVE  m = len
<1> PICK todo : todo = RowTasks(x, m, len)
  OBVIOUS
<1>1. todo = <<>> <=> m = len
  BY ONLY len \in Nat, m \in 0 .. len, todo = RowTasks(x, m, len), RowTasksLeft
<1> QED
  BY <1>1

LEMMA AllRowTasks ==
  ASSUME NEW x, NEW rows \in Seq(Row), NEW todo, todo = [i \in DOMAIN rows |-> Task(x, i - 1)]
  PROVE  todo = RowTasks(x, 0, Len(rows))
<1>1. Len(rows) \in Nat /\ DOMAIN rows = 1 .. Len(rows) - 0
  OBVIOUS
<1>2. \A i \in 1 .. Len(rows) - 0 : i - 1 = 0 + i - 1
  BY ONLY <1>1
<1> QED
  BY <1>1, <1>2 DEF RowTasks

\* RangeOverRows, for CREATE INDEX
LEMMA RangeOverRowsStep ==
  ASSUME SerialInv, NEW c \in Conns, RangeOverRows(c), Filling(c)
  PROVE  SerialInv' /\ [Next]_vars
<1> PICK s, n, p, h, t, x :
      /\ s = Stmt(c) /\ n = s.table /\ p = catalogue[n] /\ h = heap[p] /\ t = tables[n]
      /\ x = h.indexes[Len(h.indexes)]
  OBVIOUS
<1>1. Local(c, "fill") /\ "fill" \notin {"idle", "rows"}
  BY DEF RangeOverRows
<1>2. /\ conns[c].pc = "fill" /\ DOMAIN conns[c] = DOMAIN Idle
      /\ conns[c].table = p /\ t.rows \in Seq(Row) /\ h.rows = t.rows
  <2>1. InFilling(c, "fill", s, n, p, h, t, x)
    BY <1>1, WhileFilling
  <2> QED
    BY ONLY <2>1 DEF InFilling
<1>3. PICK m \in 0 .. Len(t.rows) :
        /\ Holds(c, n, WithNewIndex(t, s), [trees[n] EXCEPT ![s.name] = Filled(t, s.exp, m)])
        /\ \A i \in 1 .. m : FillError(t, s, i) = NoError
        /\ AmongRows(conns[c], t, s, x, m)
  <2>1. InFilling(c, "fill", s, n, p, h, t, x)
    BY <1>1, WhileFilling
  <2> QED
    BY ONLY <2>1 DEF InFilling
<1>4. m = 0 /\ conns[c].key = x
  BY <1>2, <1>3 DEF AmongRows, AmidRow
<1> PICK rows, key : rows = heap[conns[c].table].rows /\ key = conns[c].key
  OBVIOUS
<1> PICK todo : todo = [i \in DOMAIN rows |-> Task(key, i - 1)]
  OBVIOUS
<1> PICK r : r = [conns[c] EXCEPT !.pc = "add", !.todo = todo]
  OBVIOUS
<1>5. Goto(c, r) /\ UNCHANGED <<catalogue, heap, forest, process, asked, accepted, settled>>
  BY DEF RangeOverRows
<1>6. r.pc = "add" /\ r.todo = todo /\ r.call = conns[c].call /\ r.table = p
  BY <1>2 DEF Idle
<1>7. todo = RowTasks(x, m, Len(t.rows))
  <2>1. rows = t.rows /\ t.rows \in Seq(Row) /\ m = 0 /\ key = x
    BY <1>2, <1>4
  <2>2. todo = [i \in DOMAIN rows |-> Task(key, i - 1)]
    OBVIOUS
  <2> QED
    BY ONLY <2>1, <2>2, AllRowTasks
<1>8. AmongRows(r, t, s, x, m)
  BY <1>6, <1>7 DEF AmongRows
<1>9. Run(c) /\ r.pc \notin {"idle", "rows"}
  BY <1>6 DEF Run
<1>10. /\ s = Stmt(c) /\ n = s.table /\ p = catalogue[n] /\ h = heap[p] /\ t = tables[n]
       /\ x = h.indexes[Len(h.indexes)]
  OBVIOUS
<1>11. GoesOnFilling(c, "fill", s, n, p, h, t, x, m, r)
  BY ONLY <1>1, <1>3, <1>5, <1>6, <1>8, <1>9, <1>10, Zenon DEF GoesOnFilling
<1> QED
  BY ONLY SerialInv, c \in Conns, Filling(c), <1>11, FillingOn

\* The first row that is refused
LEMMA FirstBadRow ==
  ASSUME NEW t, NEW s, t.rows \in Seq(Row), NEW m \in Nat, m < Len(t.rows),
         \A i \in 1 .. m : FillError(t, s, i) = NoError,
         FillError(t, s, m + 1) # NoError
  PROVE  BadRows(t, s) # {} /\ Min(BadRows(t, s)) = m + 1
<1> PICK S, k : S = BadRows(t, s) /\ k = m + 1
  OBVIOUS
<1>1. DOMAIN t.rows = 1 .. Len(t.rows)
  OBVIOUS
<1>2. S \in SUBSET Nat /\ 0 \notin S /\ k \in S /\ k - 1 = m
  BY <1>1 DEF BadRows
<1>3. \A j \in 1 .. (k - 1) : j \notin S
  BY <1>2 DEF BadRows
<1>4. Min(S) = k
  BY <1>2, <1>3, LeastIs
<1> QED
  BY <1>2, <1>4

\* key is that of the row after the m-th, which the index x is to add.
RowFound(s, h, t, x, m, key) ==
  /\ t.rows \in Seq(Row) /\ h.rows = t.rows
  /\ h.columns = t.columns /\ h.columnTypes = t.columnTypes
  /\ PlainIndex(x) = NewIndex(s)
  /\ m \in Nat /\ m < Len(t.rows) /\ forest[x.tree] = Filled(t, s.exp, m)
  /\ key = IndexKey(h, RowAt(h.rows, m + 1), x.exp)

\* The next row of the table, and what addRow says of it
LEMMA NextRowError ==
  ASSUME NEW s, NEW h, NEW t, NEW x, NEW m, NEW key, RowFound(s, h, t, x, m, key)
  PROVE  /\ key = IndexKey(t, t.rows[m + 1], s.exp)
         /\ ErrorIs(key, x, FillError(t, s, m + 1))
<1> USE DEF RowFound
<1>1. x.exp = s.exp /\ x.unique = s.unique
  BY DEF PlainIndex, NewIndex
<1>2. key = IndexKey(t, t.rows[m + 1], s.exp)
  <2>1. m + 1 \in DOMAIN t.rows
    OBVIOUS
  <2>2. RowAt(h.rows, m + 1) = t.rows[m + 1]
    BY <2>1 DEF RowAt
  <2> QED
    BY <1>1, <2>2 DEF IndexKey
<1> PICK keys : keys = {IndexKey(t, t.rows[j], s.exp).value : j \in 1 .. m}
  OBVIOUS
<1>3. {ti.value : ti \in forest[x.tree]} = keys
  <2> PICK tree, Val : /\ tree = forest[x.tree]
                       /\ Val = [j \in 1 .. m |-> IndexKey(t, t.rows[j], s.exp).value]
    OBVIOUS
  <2>1. tree = {TreeItem(Val[j], j - 1, j - 1) : j \in 1 .. m}
    BY DEF Filled
  <2>2. keys = {Val[j] : j \in 1 .. m}
    OBVIOUS
  <2>3. \A a, b, d : TreeItem(a, b, d).value = a
    BY DEF TreeItem
  <2>4. {ti.value : ti \in tree} = {Val[j] : j \in 1 .. m}
    BY ONLY <2>1, <2>3
  <2> QED
    BY <2>2, <2>4
<1>4. FillError(t, s, m + 1) = AddRowError(key, x.unique, keys)
  <2>1. (m + 1) - 1 = m
    OBVIOUS
  <2> QED
    BY <1>1, <1>2, <2>1 DEF FillError
<1>5. ErrorIs(key, x, AddRowError(key, x.unique, keys))
  BY <1>3, RowErrors
<1> QED
  BY <1>2, <1>4, <1>5

\* The index stays with the entries there are when its method ends.
LEMMA IndexSettles ==
  ASSUME SerialInv, NEW c \in Conns, Alive, Busy(c), Indexing(c), Running,
         NEW s, s = Stmt(c), NEW n, n = s.table, s \in CreateIndexes, n \in TableNames,
         NEW t, t = tables[n], NEW m,
         Holds(c, n, WithNewIndex(t, s), [trees[n] EXCEPT ![s.name] = Filled(t, s.exp, m)]),
         NEW err, Return(c, err),
         UNCHANGED <<catalogue, heap, forest, accepted>>,
         \/ /\ BadRows(t, s) # {} /\ m = Min(BadRows(t, s)) - 1 /\ err \notin {NoError, Panic}
            /\ err = FillError(t, s, Min(BadRows(t, s)))
         \/ BadRows(t, s) = {} /\ m = Len(t.rows) /\ err = NoError
  PROVE  CreateIndex(s)
<1>1. TypeOK /\ TreesMapped /\ MemoryInv
  BY Executed
<1>2. conns[c].call.kind = "create index" /\ Exists(n) /\ ~HasIndex(t, s.name)
      /\ conns[c].call.stmt = s
  BY DEF Indexing, Stmt
<1> PICK w, f, answer :
      /\ w = WithNewIndex(t, s) /\ f = [trees[n] EXCEPT ![s.name] = Filled(t, s.exp, m)]
      /\ answer = Reply(s, err)
  OBVIOUS
<1>3. Settle(c, answer) /\ answer.err = err
  BY DEF Return, Reply
<1>4. tables' = [tables EXCEPT ![n] = w] /\ trees' = [trees EXCEPT ![n] = f]
  <2>1. Holds(c, n, w, f)
    OBVIOUS
  <2> QED
    BY ONLY <1>1, <1>3, <2>1, n \in TableNames,
            UNCHANGED <<catalogue, heap, forest, accepted>>, HeldSettles
<1>5. tables' = [tables EXCEPT ![n].indexes = Append(@, NewIndex(s))]
  BY <1>4 DEF WithNewIndex
<1>6. trees' = [trees EXCEPT ![n][s.name] = Filled(t, s.exp, m)]
  BY <1>4
<1>7. reply' = answer /\ granted' = Granted(conns[c].call, err)
  BY <1>3 DEF Settle
<1>8. CASE /\ BadRows(t, s) # {} /\ m = Min(BadRows(t, s)) - 1 /\ err \notin {NoError, Panic}
           /\ err = FillError(t, s, Min(BadRows(t, s)))
  <2>1. granted' = granted
    BY <1>7, <1>8 DEF Granted
  <2> QED
    BY <1>2, <1>5, <1>6, <1>7, <1>8, <2>1, Zenon DEF CreateIndex
<1>9. CASE BadRows(t, s) = {} /\ m = Len(t.rows) /\ err = NoError
  <2>1. granted' = granted \cup {<<n, s.name>>}
    BY <1>2, <1>7, <1>9, Zenon DEF Granted
  <2> QED
    BY <1>2, <1>5, <1>6, <1>7, <1>9, <2>1, Zenon DEF CreateIndex
<1> QED
  BY <1>8, <1>9

\* Where addRow is: the row after the m-th has key, and adding it gives err.
FillTask(c, s, n, t, h, x, m, key, err) ==
  /\ m \in Nat /\ m \in 0 .. Len(t.rows) /\ m + 1 \in 0 .. Len(t.rows) /\ m < Len(t.rows)
  /\ Holds(c, n, WithNewIndex(t, s), [trees[n] EXCEPT ![s.name] = Filled(t, s.exp, m)])
  /\ forest[x.tree] = Filled(t, s.exp, m)
  /\ \A i \in 1 .. m : FillError(t, s, i) = NoError
  /\ conns[c].todo = RowTasks(x, m, Len(t.rows))
  /\ Head(conns[c].todo) = Task(x, m)
  /\ Tail(conns[c].todo) = RowTasks(x, m + 1, Len(t.rows))
  /\ key = IndexKey(t, t.rows[m + 1], s.exp) /\ key = IndexKey(h, RowAt(h.rows, m + 1), x.exp)
  /\ err = FillError(t, s, m + 1) /\ ErrorIs(key, x, err)
  /\ conns[c].pc # "add" => AmidRow(conns[c], m, key, err)

LEMMA NextFill ==
  ASSUME SerialInv, NEW c \in Conns, NEW pc \in {"add", "key", "look", "entry"}, Local(c, pc),
         Filling(c), pc = "add" => conns[c].todo # <<>>,
         NEW s, NEW n, NEW p, NEW h, NEW t, NEW x, InFilling(c, pc, s, n, p, h, t, x),
         s = Stmt(c), n = s.table, p = catalogue[n], h = heap[p], t = tables[n],
         x = h.indexes[Len(h.indexes)]
  PROVE  \E m, key, err : FillTask(c, s, n, t, h, x, m, key, err)
<1>1. conns[c].pc = pc /\ t.rows \in Seq(Row) /\ Len(t.rows) \in Nat
  BY DEF InFilling
<1>2. /\ h.columns = t.columns /\ h.columnTypes = t.columnTypes /\ h.rows = t.rows
      /\ PlainIndex(x) = NewIndex(s)
  BY DEF InFilling
<1>3. PICK m \in 0 .. Len(t.rows) :
        /\ Holds(c, n, WithNewIndex(t, s), [trees[n] EXCEPT ![s.name] = Filled(t, s.exp, m)])
        /\ forest[x.tree] = Filled(t, s.exp, m)
        /\ \A i \in 1 .. m : FillError(t, s, i) = NoError
        /\ AmongRows(conns[c], t, s, x, m)
  BY DEF InFilling
<1> PICK key, err, todo, len :
      /\ key = IndexKey(h, RowAt(h.rows, m + 1), x.exp) /\ err = FillError(t, s, m + 1)
      /\ todo = conns[c].todo /\ len = Len(t.rows)
  OBVIOUS
<1>4. /\ todo = RowTasks(x, m, len)
      /\ pc # "add" => m < len /\ AmidRow(conns[c], m, IndexKey(t, t.rows[m + 1], s.exp), err)
  BY <1>1, <1>3 DEF AmongRows
<1>5. len \in Nat /\ m \in 0 .. len
  BY <1>1
<1>6. m < len /\ m # len /\ m \in Nat /\ m + 1 \in 0 .. len
  <2>1. pc = "add" => todo # <<>>
    OBVIOUS
  <2>2. m < len
    BY ONLY <1>4, <1>5, <2>1, RowTasksLeft
  <2> QED
    BY ONLY <1>5, <2>2
<1>7. todo # <<>>
  BY ONLY <1>4, <1>5, <1>6, RowTasksLeft
<1>8. Head(todo) = Task(x, m) /\ Tail(todo) = RowTasks(x, m + 1, len)
  <2>1. todo = RowTasks(x, m, len)
    BY <1>4
  <2>2. todo # <<>> => m < len /\ Head(todo) = Task(x, m) /\ Tail(todo) = RowTasks(x, m + 1, len)
    BY ONLY <1>5, <2>1, RowTasksLeft
  <2> QED
    BY <1>7, <2>2
<1>10. key = IndexKey(t, t.rows[m + 1], s.exp) /\ ErrorIs(key, x, err)
  <2>1. t.rows \in Seq(Row) /\ m \in Nat /\ m < Len(t.rows)
        /\ forest[x.tree] = Filled(t, s.exp, m)
    BY <1>1, <1>3, <1>6
  <2>2. err = FillError(t, s, m + 1)
    OBVIOUS
  <2>3. RowFound(s, h, t, x, m, key)
    BY <1>2, <2>1 DEF RowFound
  <2>5. key = IndexKey(t, t.rows[m + 1], s.exp) /\ ErrorIs(key, x, FillError(t, s, m + 1))
    BY ONLY <2>3, NextRowError
  <2>4. ErrorIs(key, x, err)
    BY <2>2, <2>5
  <2> QED
    BY ONLY <2>4, <2>5
<1>11. conns[c].pc # "add" => AmidRow(conns[c], m, key, err)
  BY <1>1, <1>4, <1>10
<1>12. FillTask(c, s, n, t, h, x, m, key, err)
  BY <1>3, <1>4, <1>6, <1>8, <1>10, <1>11 DEF FillTask
<1> QED
  BY <1>12

\* A step that reads, while the next row is added to the index
FillsOn(c, pc, s, n, p, h, t, x, m, r) ==
  /\ SerialInv /\ c \in Conns /\ Filling(c)
  /\ GoesOnFilling(c, pc, s, n, p, h, t, x, m, r)

LEMMA RowBeingFilled ==
  ASSUME NEW c, NEW pc, NEW s, NEW n, NEW p, NEW h, NEW t, NEW x, NEW m, NEW r,
         FillsOn(c, pc, s, n, p, h, t, x, m, r)
  PROVE  SerialInv' /\ [Next]_vars
<1>1. /\ SerialInv /\ c \in Conns /\ Filling(c)
      /\ GoesOnFilling(c, pc, s, n, p, h, t, x, m, r)
  BY DEF FillsOn
<1> QED
  BY ONLY <1>1, FillingOn

\* The step before a row that is being added goes on, for any of addRow's steps
LEMMA FillsOnAt ==
  ASSUME SerialInv, NEW c \in Conns, Filling(c), Run(c),
         NEW pc \in {"add", "key", "look", "entry"}, Local(c, pc),
         NEW s, NEW n, NEW p, NEW h, NEW t, NEW x, InFilling(c, pc, s, n, p, h, t, x),
         s = Stmt(c), n = s.table, p = catalogue[n], h = heap[p], t = tables[n],
         x = h.indexes[Len(h.indexes)],
         NEW m, NEW key, NEW err, FillTask(c, s, n, t, h, x, m, key, err),
         NEW r, Goto(c, r), r.pc \in {"key", "look", "entry"}, r.call = conns[c].call,
         r.table = p, r.todo = conns[c].todo, AmidRow(r, m, key, err),
         UNCHANGED <<catalogue, heap, forest, process, asked, accepted, settled>>
  PROVE  SerialInv' /\ [Next]_vars
<1>1. /\ m \in 0 .. Len(t.rows) /\ m < Len(t.rows)
      /\ Holds(c, n, WithNewIndex(t, s), [trees[n] EXCEPT ![s.name] = Filled(t, s.exp, m)])
      /\ \A i \in 1 .. m : FillError(t, s, i) = NoError
      /\ conns[c].todo = RowTasks(x, m, Len(t.rows))
      /\ key = IndexKey(t, t.rows[m + 1], s.exp) /\ err = FillError(t, s, m + 1)
  BY DEF FillTask
<1>2. AmongRows(r, t, s, x, m)
  BY <1>1 DEF AmongRows
<1>3. pc \notin {"idle", "rows"} /\ r.pc \notin {"idle", "rows"}
  OBVIOUS
<1>4. GoesOnFilling(c, pc, s, n, p, h, t, x, m, r)
  BY <1>1, <1>2, <1>3 DEF GoesOnFilling
<1>5. FillsOn(c, pc, s, n, p, h, t, x, m, r)
  BY <1>4 DEF FillsOn
<1> QED
  BY ONLY <1>5, RowBeingFilled

\* A row is refused.
LEMMA FillRefused ==
  ASSUME SerialInv, NEW c \in Conns, Filling(c), Run(c),
         NEW pc, NEW s, NEW n, NEW p, NEW h, NEW t, NEW x, InFilling(c, pc, s, n, p, h, t, x),
         s = Stmt(c), n = s.table, t = tables[n],
         NEW m, NEW key, NEW err, FillTask(c, s, n, t, h, x, m, key, err),
         err \notin {NoError, Panic}, Fail(c, err),
         UNCHANGED <<catalogue, heap, forest, process, asked, accepted>>
  PROVE  SerialInv' /\ [Next]_vars
<1>1. /\ Alive /\ Busy(c) /\ s \in CreateIndexes /\ n \in TableNames
      /\ Running /\ Indexing(c) /\ AllBalanced /\ MemoryInv /\ t.rows \in Seq(Row)
  BY DEF InFilling
<1>2. /\ m \in Nat /\ m < Len(t.rows)
      /\ Holds(c, n, WithNewIndex(t, s), [trees[n] EXCEPT ![s.name] = Filled(t, s.exp, m)])
      /\ \A i \in 1 .. m : FillError(t, s, i) = NoError
      /\ err = FillError(t, s, m + 1)
  BY DEF FillTask
<1>3. conns[c].call.kind = "create index"
  BY <1>1 DEF Indexing
<1>4. Return(c, err)
  BY <1>3, Zenon DEF Fail
<1>5. BadRows(t, s) # {} /\ Min(BadRows(t, s)) = m + 1
  BY <1>1, <1>2, FirstBadRow
<1>6. (m + 1) - 1 = m
  BY <1>2
<1>7. CreateIndex(s)
  <2>1. /\ BadRows(t, s) # {} /\ m = Min(BadRows(t, s)) - 1 /\ err \notin {NoError, Panic}
        /\ err = FillError(t, s, Min(BadRows(t, s)))
    BY <1>2, <1>5, <1>6
  <2>2. /\ SerialInv /\ c \in Conns /\ Alive /\ Busy(c) /\ Indexing(c) /\ Running
        /\ s = Stmt(c) /\ n = s.table /\ s \in CreateIndexes /\ n \in TableNames
        /\ t = tables[n]
    BY <1>1
  <2>3. UNCHANGED <<catalogue, heap, forest, accepted>>
    OBVIOUS
  <2> QED
    BY ONLY <1>2, <1>4, <2>1, <2>2, <2>3, IndexSettles
<1>8. Next
  BY <1>1, <1>7 DEF Next
<1>9. /\ Goto(c, Idle) /\ Settle(c, Reply(s, err)) /\ Reply(s, err).err = err
      /\ Idle.pc = "idle"
  BY <1>4 DEF Return, Reply, Idle
<1>10. MemoryInv' /\ AllBalanced' /\ ConnsInv'
  BY <1>1, MemoryUnmoved, ConnsKept
<1> QED
  BY <1>1, <1>8, <1>9, <1>10, Settling

\* PassRow, for a row that was there before the index
LEMMA PassRowFilling ==
  ASSUME SerialInv, NEW c \in Conns, PassRow(c), Filling(c)
  PROVE  SerialInv' /\ [Next]_vars
<1> PICK s, n, p, h, t, x :
      /\ s = Stmt(c) /\ n = s.table /\ p = catalogue[n] /\ h = heap[p] /\ t = tables[n]
      /\ x = h.indexes[Len(h.indexes)]
  OBVIOUS
<1>1. /\ Local(c, "add") /\ conns[c].todo # <<>> /\ "add" \notin {"idle", "rows"}
      /\ UNCHANGED <<catalogue, heap, forest, process, asked, accepted, settled>>
  BY DEF PassRow
<1>2. InFilling(c, "add", s, n, p, h, t, x)
  BY <1>1, WhileFilling
<1>3. DOMAIN conns[c] = DOMAIN Idle /\ conns[c].table = p
  BY <1>2 DEF InFilling
<1>4. PICK m, key, err : FillTask(c, s, n, t, h, x, m, key, err)
  BY <1>1, <1>2, NextFill
<1>5. Head(conns[c].todo).at = m /\ m # last
  <2>1. m \in Nat /\ Head(conns[c].todo) = Task(x, m)
    BY ONLY <1>4 DEF FillTask
  <2> QED
    BY ONLY <2>1, PointersAssumption DEF last, Task
<1> PICK r : r = [conns[c] EXCEPT !.pc = "key", !.at = m]
  OBVIOUS
<1>6. /\ r.pc = "key" /\ r.at = m /\ r.todo = conns[c].todo
      /\ r.call = conns[c].call /\ r.table = p
  BY <1>3 DEF Idle
<1>7. Goto(c, r) /\ Run(c)
  BY <1>5, Zenon DEF PassRow, Run
<1>8. AmidRow(r, m, key, err)
  BY <1>6 DEF AmidRow
<1>9. /\ "add" \in {"add", "key", "look", "entry"} /\ r.pc \in {"key", "look", "entry"}
      /\ SerialInv /\ c \in Conns /\ Filling(c) /\ s = Stmt(c) /\ n = s.table
      /\ p = catalogue[n] /\ h = heap[p] /\ t = tables[n] /\ x = h.indexes[Len(h.indexes)]
  BY <1>6
<1> QED
  BY ONLY <1>1, <1>2, <1>4, <1>6, <1>7, <1>8, <1>9, FillsOnAt

\* EvaluateKey, for a row that was there before the index
LEMMA EvaluateKeyFilling ==
  ASSUME SerialInv, NEW c \in Conns, EvaluateKey(c), Filling(c)
  PROVE  SerialInv' /\ [Next]_vars
<1> PICK s, n, p, h, t, x :
      /\ s = Stmt(c) /\ n = s.table /\ p = catalogue[n] /\ h = heap[p] /\ t = tables[n]
      /\ x = h.indexes[Len(h.indexes)]
  OBVIOUS
<1>1. Local(c, "key") /\ "key" \notin {"idle", "rows"} /\ UNCHANGED asked
  BY DEF EvaluateKey
<1>2. InFilling(c, "key", s, n, p, h, t, x)
  BY <1>1, WhileFilling
<1>3. /\ Alive /\ Busy(c) /\ s \in CreateIndexes /\ n \in TableNames
      /\ Running /\ Exists(n) /\ ~HasIndex(t, s.name) /\ t.rows \in Seq(Row)
      /\ DOMAIN conns[c] = DOMAIN Idle /\ conns[c].table = p /\ conns[c].pc = "key"
  BY <1>2 DEF InFilling
<1>4. PICK m, key, err : FillTask(c, s, n, t, h, x, m, key, err)
  BY <1>1, <1>2, NextFill
<1>5. /\ m \in Nat /\ m < Len(t.rows) /\ \A i \in 1 .. m : FillError(t, s, i) = NoError
      /\ err = FillError(t, s, m + 1) /\ ErrorIs(key, x, err)
  BY ONLY <1>4 DEF FillTask
<1>6. /\ Head(conns[c].todo).index = x /\ conns[c].at = m
      /\ key = IndexKey(h, RowAt(h.rows, m + 1), x.exp)
  BY ONLY <1>3, <1>4 DEF FillTask, Task, AmidRow
<1> PICK bare : bare = AddRowError(key, FALSE, {})
  OBVIOUS
<1>7. IF bare = Panic THEN Crash(c)
      ELSE /\ UNCHANGED <<catalogue, heap, forest, accepted, process>>
           /\ IF bare # NoError THEN Fail(c, bare)
              ELSE /\ Goto(c, [conns[c] EXCEPT !.pc = "look", !.key = key.value])
                   /\ UNCHANGED settled
  BY <1>3, <1>6 DEF EvaluateKey
<1>8. Run(c) /\ NoError # Panic
  BY DEF Run, NoError, Panic
<1>9. CASE bare = Panic
  <2>1. err = Panic
    BY <1>5, <1>8, <1>9 DEF ErrorIs
  <2>2. Crash(c)
    BY <1>7, <1>9
  <2>3. BadRows(t, s) # {} /\ Min(BadRows(t, s)) = m + 1
    BY <1>3, <1>5, <1>8, <2>1, FirstBadRow
  <2>4. BadRows(t, s) # {} /\ FillError(t, s, Min(BadRows(t, s))) = Panic
    BY <1>5, <2>1, <2>3
  <2>5. Refuse(s, Panic)
    BY <2>2 DEF Crash, Refuse
  <2>6. CreateIndex(s)
    BY <1>3, <2>4, <2>5, Zenon DEF CreateIndex
  <2>7. Next
    BY <1>3, <2>6 DEF Next
  <2> QED
    BY <1>1, <1>3, <2>2, <2>7, Crashing
<1>10. CASE bare \notin {NoError, Panic}
  <2>1. err = bare
    BY <1>5, <1>10 DEF ErrorIs
  <2>2. /\ err \notin {NoError, Panic} /\ Fail(c, err)
        /\ UNCHANGED <<catalogue, heap, forest, process, asked, accepted>>
    BY <1>1, <1>7, <1>10, <2>1
  <2> QED
    BY ONLY <1>2, <1>4, <1>8, <2>2, SerialInv, c \in Conns, Filling(c), s = Stmt(c),
            n = s.table, t = tables[n], FillRefused
<1>11. CASE bare = NoError
  <2> PICK r : r = [conns[c] EXCEPT !.pc = "look", !.key = key.value]
    OBVIOUS
  <2>1. /\ Goto(c, r)
        /\ UNCHANGED <<catalogue, heap, forest, process, asked, accepted, settled>>
    BY <1>1, <1>7, <1>8, <1>11
  <2>2. /\ r.pc = "look" /\ r.key = key.value /\ r.at = m /\ r.todo = conns[c].todo
        /\ r.call = conns[c].call /\ r.table = p
    BY <1>3, <1>6 DEF Idle
  <2>3. AmidRow(r, m, key, err)
    BY <1>11, <2>2 DEF AmidRow
  <2> QED
    BY <1>1, <1>2, <1>4, <1>8, <2>1, <2>2, <2>3, FillsOnAt
<1> QED
  BY <1>9, <1>10, <1>11

\* LookUpKey, for a row that was there before the index
LEMMA LookUpKeyFilling ==
  ASSUME SerialInv, NEW c \in Conns, LookUpKey(c), Filling(c)
  PROVE  SerialInv' /\ [Next]_vars
<1> PICK s, n, p, h, t, x :
      /\ s = Stmt(c) /\ n = s.table /\ p = catalogue[n] /\ h = heap[p] /\ t = tables[n]
      /\ x = h.indexes[Len(h.indexes)]
  OBVIOUS
<1>1. /\ Local(c, "look") /\ "look" \notin {"idle", "rows"}
      /\ UNCHANGED <<catalogue, heap, forest, accepted, process, asked>>
  BY DEF LookUpKey
<1>2. InFilling(c, "look", s, n, p, h, t, x)
  BY <1>1, WhileFilling
<1>3. DOMAIN conns[c] = DOMAIN Idle /\ conns[c].table = p /\ conns[c].pc = "look"
  BY <1>2 DEF InFilling
<1>4. PICK m, key, err : FillTask(c, s, n, t, h, x, m, key, err)
  BY <1>1, <1>2, NextFill
<1>5. ErrorIs(key, x, err)
  BY ONLY <1>4 DEF FillTask
<1>6. /\ Head(conns[c].todo).index = x /\ conns[c].at = m
      /\ conns[c].key = key.value /\ AddRowError(key, FALSE, {}) = NoError
  <2>1. /\ Head(conns[c].todo) = Task(x, m)
        /\ conns[c].pc # "add" => AmidRow(conns[c], m, key, err)
    BY ONLY <1>4 DEF FillTask
  <2>2. AmidRow(conns[c], m, key, err)
    BY <1>3, <2>1
  <2>3. Head(conns[c].todo).index = x
    BY ONLY <2>1 DEF Task
  <2>4. "look" # "key"
    OBVIOUS
  <2> QED
    BY ONLY <1>3, <2>2, <2>3, <2>4, Zenon DEF AmidRow
<1>7. IF HasKey(x, key.value) THEN Fail(c, "ErrViolatesUniqueConstraint")
      ELSE Goto(c, [conns[c] EXCEPT !.pc = "entry"]) /\ UNCHANGED settled
  BY <1>6, Zenon DEF LookUpKey
<1>8. Run(c)
  BY DEF Run
<1>9. CASE HasKey(x, key.value)
  <2>1. err = "ErrViolatesUniqueConstraint"
    BY <1>5, <1>6, <1>9 DEF ErrorIs
  <2>2. /\ err \notin {NoError, Panic} /\ Fail(c, err)
        /\ UNCHANGED <<catalogue, heap, forest, process, asked, accepted>>
    BY <1>1, <1>7, <1>9, <2>1 DEF NoError, Panic
  <2> QED
    BY ONLY <1>2, <1>4, <1>8, <2>2, SerialInv, c \in Conns, Filling(c), s = Stmt(c),
            n = s.table, t = tables[n], FillRefused
<1>10. CASE ~HasKey(x, key.value)
  <2> PICK r : r = [conns[c] EXCEPT !.pc = "entry"]
    OBVIOUS
  <2>1. /\ Goto(c, r)
        /\ UNCHANGED <<catalogue, heap, forest, process, asked, accepted, settled>>
    BY <1>1, <1>7, <1>10
  <2>2. /\ r.pc = "entry" /\ r.key = key.value /\ r.at = m /\ r.todo = conns[c].todo
        /\ r.call = conns[c].call /\ r.table = p
    BY <1>3, <1>6 DEF Idle
  <2>3. err = NoError
    BY <1>5, <1>6, <1>10 DEF ErrorIs
  <2>4. AmidRow(r, m, key, err)
    BY <1>6, <2>2, <2>3 DEF AmidRow
  <2> QED
    BY <1>1, <1>2, <1>4, <1>8, <2>1, <2>2, <2>4, FillsOnAt
<1> QED
  BY <1>9, <1>10

\* One row more has an entry.
LEMMA OneMoreFilled ==
  ASSUME NEW t, NEW exp, NEW m \in Nat
  PROVE  Filled(t, exp, m + 1) =
           Filled(t, exp, m) \cup {TreeItem(IndexKey(t, t.rows[m + 1], exp).value, m, m)}
<1> PICK Val : Val = [i \in 1 .. m + 1 |-> IndexKey(t, t.rows[i], exp).value]
  OBVIOUS
<1> PICK Item : Item = [i \in 1 .. m + 1 |-> TreeItem(Val[i], i - 1, i - 1)]
  OBVIOUS
<1>1. 1 .. m + 1 = (1 .. m) \cup {m + 1} /\ (m + 1) - 1 = m
  OBVIOUS
<1>2. Filled(t, exp, m + 1) = {Item[i] : i \in 1 .. m + 1}
  BY DEF Filled
<1>3. Filled(t, exp, m) = {Item[i] : i \in 1 .. m}
  BY <1>1 DEF Filled
<1>4. Item[m + 1] = TreeItem(IndexKey(t, t.rows[m + 1], exp).value, m, m)
  BY <1>1
<1> QED
  BY <1>1, <1>2, <1>3, <1>4

\* InsertEntry, for a row that was there before the index
LEMMA InsertEntryFilling ==
  ASSUME SerialInv, NEW c \in Conns, InsertEntry(c), Filling(c)
  PROVE  SerialInv' /\ [Next]_vars
<1> PICK s, n, p, h, t, x :
      /\ s = Stmt(c) /\ n = s.table /\ p = catalogue[n] /\ h = heap[p] /\ t = tables[n]
      /\ x = h.indexes[Len(h.indexes)]
  OBVIOUS
<1>1. Local(c, "entry") /\ "entry" \notin {"idle", "rows"}
      /\ UNCHANGED <<catalogue, heap, process, asked, accepted, settled>>
  BY DEF InsertEntry
<1>2. /\ Alive /\ Busy(c) /\ s \in CreateIndexes /\ n \in TableNames /\ conns[c].pc = "entry"
      /\ s.name \in IndexNames /\ TypeOK
      /\ DOMAIN conns[c] = DOMAIN Idle /\ Indexing(c) /\ AllBalanced /\ MemoryInv
      /\ conns[c].table = p /\ p # none /\ h \in HeapTable /\ t.rows \in Seq(Row)
      /\ \A q \in TableNames \ {n} : ShownAsSettled(q)
  <2>1. InFilling(c, "entry", s, n, p, h, t, x)
    BY <1>1, WhileFilling
  <2> QED
    BY ONLY <2>1 DEF InFilling
<1>3. Len(h.indexes) \in DOMAIN h.indexes /\ PlainIndex(x) = NewIndex(s)
  <2>1. InFilling(c, "entry", s, n, p, h, t, x)
    BY <1>1, WhileFilling
  <2> QED
    BY ONLY <2>1 DEF InFilling
<1>E. InFilling(c, "entry", s, n, p, h, t, x)
  BY <1>1, WhileFilling
<1> PICK m, key, err : FillTask(c, s, n, t, h, x, m, key, err)
  BY <1>1, <1>E, NextFill
<1>N. FillTask(c, s, n, t, h, x, m, key, err)
  OBVIOUS
<1>4. /\ Holds(c, n, WithNewIndex(t, s), [trees[n] EXCEPT ![s.name] = Filled(t, s.exp, m)])
      /\ forest[x.tree] = Filled(t, s.exp, m)
      /\ \A i \in 1 .. m : FillError(t, s, i) = NoError
  BY ONLY <1>N DEF FillTask
<1>5. /\ m < Len(t.rows) /\ FillError(t, s, m + 1) = NoError
      /\ conns[c].key = IndexKey(t, t.rows[m + 1], s.exp).value /\ conns[c].at = m
  <2>1. /\ conns[c].pc # "add" => AmidRow(conns[c], m, key, err)
        /\ m < Len(t.rows) /\ err = FillError(t, s, m + 1)
        /\ key = IndexKey(t, t.rows[m + 1], s.exp)
    BY ONLY <1>N DEF FillTask
  <2>2. AmidRow(conns[c], m, key, err) /\ "entry" # "key"
    BY <1>2, <2>1
  <2>3. conns[c].key = key.value /\ conns[c].at = m /\ err = NoError
    BY ONLY <1>2, <2>2, Zenon DEF AmidRow
  <2> QED
    BY ONLY <2>1, <2>3
<1>6. /\ m \in Nat /\ m + 1 \in 0 .. Len(t.rows)
      /\ Head(conns[c].todo) = Task(x, m)
      /\ Tail(conns[c].todo) = RowTasks(x, m + 1, Len(t.rows))
  BY ONLY <1>N DEF FillTask
<1> PICK w, f, g, e :
      /\ w = WithNewIndex(t, s) /\ f = [trees[n] EXCEPT ![s.name] = Filled(t, s.exp, m)]
      /\ g = [trees[n] EXCEPT ![s.name] = Filled(t, s.exp, m + 1)]
      /\ e = TreeItem(IndexKey(t, t.rows[m + 1], s.exp).value, m, m)
  OBVIOUS
<1>7. forest' = [forest EXCEPT ![x.tree] = @ \cup {e}]
  <2>1. Head(conns[c].todo).index = x
    <3>1. Head(conns[c].todo) = Task(x, m)
      BY ONLY <1>6
    <3> QED
      BY ONLY <3>1 DEF Task
  <2>2. e = TreeItem(conns[c].key, conns[c].at, Cardinality(forest[x.tree]))
    <3>1. Cardinality(Filled(t, s.exp, m)) = m
      BY ONLY <1>6, FilledSize
    <3> QED
      BY <1>4, <1>5, <3>1
  <2> QED
    BY <2>1, <2>2, Zenon DEF InsertEntry
<1>8. g = [f EXCEPT ![s.name] = @ \cup {e}]
  <2> PICK A, B : A = Filled(t, s.exp, m) /\ B = Filled(t, s.exp, m + 1)
    OBVIOUS
  <2>1. B = A \cup {e}
    <3>1. m \in Nat
      BY <1>6
    <3>2. Filled(t, s.exp, m + 1) =
            Filled(t, s.exp, m) \cup {TreeItem(IndexKey(t, t.rows[m + 1], s.exp).value, m, m)}
      BY ONLY <3>1, OneMoreFilled
    <3> QED
      BY <3>2, Zenon
  <2>2. s.name \in DOMAIN trees[n]
    BY <1>2 DEF TypeOK
  <2> QED
    BY <2>1, <2>2
<1>9. Shown(n, w, f)
  BY <1>4 DEF Holds
<1>10. MemoryInv' /\ OthersShown(n) /\ Shown(n, w, g)'
  <2> PICK k : k = Len(h.indexes)
    OBVIOUS
  <2>1. /\ MemoryInv /\ n \in TableNames /\ catalogue[n] # none
        /\ k \in DOMAIN heap[catalogue[n]].indexes
        /\ forest' = [forest EXCEPT ![heap[catalogue[n]].indexes[k].tree] = @ \cup {e}]
        /\ UNCHANGED <<catalogue, heap, accepted>>
    BY <1>1, <1>2, <1>3, <1>7
  <2>2. /\ MemoryInv' /\ OthersShown(n)
        /\ \A a, b : Shown(n, a, b) => Shown(n, a, [b EXCEPT ![a.indexes[k].name] = @ \cup {e}])'
    BY ONLY <2>1, EntryAdded
  <2>3. w.indexes[k].name = s.name
    <3>1. w.indexes[k] = PlainIndex(h.indexes[k])
      <4>1. h = heap[catalogue[n]]
        OBVIOUS
      <4> QED
        BY ONLY <1>9, <2>1, <4>1, NameShown
    <3>2. w.indexes[k] = NewIndex(s)
      BY <1>3, <3>1
    <3> QED
      BY ONLY <3>2 DEF NewIndex
  <2>4. Shown(n, w, [f EXCEPT ![s.name] = @ \cup {e}])'
    BY <1>9, <2>2, <2>3
  <2> QED
    BY <1>8, <2>2, <2>4
<1> PICK r : r = [conns[c] EXCEPT !.pc = "add", !.todo = Tail(@)]
  OBVIOUS
<1>11. /\ r.pc = "add" /\ r.todo = Tail(conns[c].todo) /\ r.call = conns[c].call
       /\ r.table = p
  BY <1>2 DEF Idle
<1>12. Goto(c, r) /\ conns'[c] = r /\ ConnsInv'
  BY <1>2, Executed, OthersIdle, ConnsKept DEF Run, InsertEntry
<1>13. UNCHANGED <<tables, trees>>
  BY <1>1 DEF settled, vars
<1>14. AllBalanced'
  BY <1>1, <1>2 DEF AllBalanced, Balanced
<1>15. Holds(c, n, w, g)'
  <2>1. conns'[c].table = catalogue'[n] /\ catalogue'[n] # none
    BY <1>1, <1>2, <1>11, <1>12
  <2> QED
    BY <1>2, <1>10, <1>13, <2>1, HoldsAfter
<1>16. StillFilling(c, s, n, t, x, r, m + 1)
  <2>1. Holds(c, n, WithNewIndex(t, s),
              [trees[n] EXCEPT ![s.name] = Filled(t, s.exp, m + 1)])'
    <3>1. /\ WithNewIndex(t, s) = w /\ trees'[n] = trees[n]
          /\ [trees[n] EXCEPT ![s.name] = Filled(t, s.exp, m + 1)] = g
      BY <1>13
    <3> QED
      BY <1>15, <3>1
  <2>2. x = heap'[r.table].indexes[Len(heap'[r.table].indexes)]
    BY <1>1, <1>11
  <2>3. \A i \in 1 .. m + 1 : FillError(t, s, i) = NoError
    <3>1. \A i \in 1 .. m + 1 : i \in 1 .. m \/ i = m + 1
      BY ONLY <1>6
    <3> QED
      BY <1>4, <1>5, <3>1
  <2>4. AmongRows(r, t, s, x, m + 1)
    BY <1>6, <1>11 DEF AmongRows
  <2> QED
    BY <1>2, <1>6, <1>11, <1>12, <1>13, <1>14, <2>1, <2>2, <2>3, <2>4 DEF StillFilling
<1>17. Progress(c)'
  <2>1. Filling(c)'
    BY ONLY <1>16, FillingGoesOn
  <2> QED
    BY <2>1 DEF Progress
<1> QED
  BY <1>1, <1>2, <1>10, <1>11, <1>12, <1>17, Working

\* EndAdd, for the primary key of a table being created
LEMMA EndAddInstalled ==
  ASSUME SerialInv, NEW c \in Conns, EndAdd(c), KeyInstalled(c)
  PROVE  SerialInv' /\ [Next]_vars
<1> PICK s, n : s = Stmt(c) /\ n = s.table
  OBVIOUS
<1>1. Alive /\ Return(c, NoError) /\ UNCHANGED <<catalogue, heap, forest, process, asked>>
  BY DEF EndAdd, Local
<1>2. /\ Busy(c) /\ Creating(c) /\ BadColumns(s.cols) = {}
      /\ conns[c].call.kind = "create table" /\ Holds(c, n, NewTable(n, s.cols), NoEntries)
  <2>1. Installed(c, s, n)
    BY <1>1, WhileInstalled
  <2> QED
    BY <2>1 DEF Installed
<1>3. UNCHANGED accepted
  BY <1>2 DEF EndAdd
<1>4. ConnsInv'
  BY ConnsKept DEF Run
<1> QED
  BY <1>1, <1>2, <1>3, <1>4, TableMade

\* EndAdd, for CREATE INDEX
LEMMA EndAddFilling ==
  ASSUME SerialInv, NEW c \in Conns, EndAdd(c), Filling(c)
  PROVE  SerialInv' /\ [Next]_vars
<1> PICK s, n, p, h, t, x :
      /\ s = Stmt(c) /\ n = s.table /\ p = catalogue[n] /\ h = heap[p] /\ t = tables[n]
      /\ x = h.indexes[Len(h.indexes)]
  OBVIOUS
<1>1. Local(c, "add") /\ conns[c].todo = <<>> /\ "add" \notin {"idle", "rows"}
      /\ Return(c, NoError) /\ UNCHANGED <<catalogue, heap, forest, process, asked>>
  BY DEF EndAdd
<1>2. /\ Alive /\ Busy(c) /\ s \in CreateIndexes /\ n \in TableNames /\ conns[c].pc = "add"
      /\ Running /\ Indexing(c) /\ AllBalanced /\ MemoryInv /\ t.rows \in Seq(Row)
  <2>1. InFilling(c, "add", s, n, p, h, t, x)
    BY <1>1, WhileFilling
  <2> QED
    BY ONLY <2>1 DEF InFilling
<1>3. PICK m \in 0 .. Len(t.rows) :
        /\ Holds(c, n, WithNewIndex(t, s), [trees[n] EXCEPT ![s.name] = Filled(t, s.exp, m)])
        /\ \A i \in 1 .. m : FillError(t, s, i) = NoError
        /\ AmongRows(conns[c], t, s, x, m)
  <2>1. InFilling(c, "add", s, n, p, h, t, x)
    BY <1>1, WhileFilling
  <2> QED
    BY ONLY <2>1 DEF InFilling
<1>4. m = Len(t.rows)
  <2> PICK todo, len : todo = conns[c].todo /\ len = Len(t.rows)
    OBVIOUS
  <2>1. len \in Nat /\ m \in 0 .. len
    BY <1>2, <1>3
  <2>2. todo = RowTasks(x, m, len) /\ todo = <<>>
    BY <1>1, <1>2, <1>3 DEF AmongRows, AmidRow
  <2>3. m = len
    <3>1. RowTasks(x, m, len) = <<>>
      BY ONLY <2>2
    <3> QED
      BY ONLY <2>1, <3>1, NoRowTasksLeft
  <2> QED
    BY <2>3
<1>5. BadRows(t, s) = {}
  BY <1>2, <1>3, <1>4 DEF BadRows
<1>6. UNCHANGED accepted
  <2>1. conns[c].call.kind # "insert"
    BY <1>2 DEF Indexing
  <2> QED
    BY <2>1 DEF EndAdd
<1>7. CreateIndex(s)
  BY <1>1, <1>2, <1>3, <1>4, <1>5, <1>6, IndexSettles
<1>8. Next
  BY <1>2, <1>7 DEF Next
<1>9. /\ Goto(c, Idle) /\ Settle(c, Reply(s, NoError)) /\ Reply(s, NoError).err # Panic
      /\ Idle.pc = "idle"
  BY <1>1 DEF Return, Reply, Idle, NoError, Panic
<1>10. MemoryInv' /\ AllBalanced' /\ ConnsInv'
  BY <1>1, <1>2, <1>6, MemoryUnmoved, ConnsKept DEF Run
<1> QED
  BY <1>1, <1>2, <1>8, <1>9, <1>10, Settling

------------------------------------------------------------------------------
(***************************************************************************)
(* Select.                                                                 *)
(***************************************************************************)

\* What Select answers
RightAnswer(s) ==
  IF s.table = nil \/ Exists(s.table) THEN SelectFrom(From(s), FromTrees(s), s)
  ELSE Reply(s, "ErrTableDoesNotExist")

\* A step that leaves the tables alone and gives that answer is Select's.
LEMMA SelectAnswers ==
  ASSUME NEW s \in Selects, Running, UNCHANGED <<tables, trees, granted>>,
         reply' = RightAnswer(s)
  PROVE  Next
<1>1. Select(s)
  BY Zenon DEF Select, RightAnswer, From, FromTrees
<1> QED
  BY <1>1 DEF Next

\* A SELECT ends with an answer that is right.
LEMMA SelectSettles ==
  ASSUME SerialInv, NEW c \in Conns, Alive, Busy(c), Settled, conns[c].call.kind = "select",
         NEW s \in Selects,
         NEW r, Goto(c, r), r.pc \in {"idle", "rows"},
         NEW answer, Settle(c, answer), answer.err # Panic, answer = RightAnswer(s),
         UNCHANGED <<catalogue, heap, forest, accepted, process, asked>>, ConnsInv'
  PROVE  SerialInv' /\ [Next]_vars
<1>1. MemoryInv /\ TypeOK /\ TreesMapped /\ Running
  BY Executed
<1>2. MemoryInv' /\ AllBalanced'
  BY <1>1, MemoryUnmoved DEF Settled
<1>3. UNCHANGED <<tables, trees>>
  BY <1>1, SameAsSettled DEF Settled, Settle
<1>4. granted' = granted
  BY DEF Settle, Granted
<1>5. reply' = RightAnswer(s)
  BY DEF Settle
<1>6. Next
  BY <1>1, <1>3, <1>4, <1>5, SelectAnswers
<1> QED
  BY <1>2, <1>6, Settling

\* A SELECT panics.
LEMMA SelectCrashes ==
  ASSUME SerialInv, NEW c \in Conns, Alive, Busy(c), NEW s \in Selects, s = Stmt(c),
         Crash(c), UNCHANGED asked, RightAnswer(s) = Reply(s, Panic)
  PROVE  SerialInv' /\ [Next]_vars
<1>1. Running
  BY Executed
<1>2. UNCHANGED <<tables, trees, granted>> /\ reply' = Reply(s, Panic)
  BY DEF Crash
<1>3. Next
  BY <1>1, <1>2, SelectAnswers
<1> QED
  BY <1>3, Crashing

\* While a SELECT is executed, nothing has changed since it began.
LEMMA WhileSelecting ==
  ASSUME SerialInv, NEW c \in Conns, Alive, Busy(c), Selecting(c), NEW s, s = Stmt(c)
  PROVE  /\ s \in Selects /\ Settled /\ MemoryInv /\ conns[c].call.kind = "select"
         /\ s.items # <<>> /\ DOMAIN conns[c] = DOMAIN Idle
         /\ Source(c) = From(s) /\ SourceTrees(c) = FromTrees(s)
         /\ RightAnswer(s) = SelectFrom(From(s), FromTrees(s), s)
<1>1. /\ conns[c].call \in Statements /\ MemoryInv /\ ConnsInv
      /\ conns[c].call.kind = "select" /\ s.items # <<>> /\ Settled
  BY Executed DEF Selecting
<1>2. s \in Selects
  BY <1>1, StatementShape DEF Stmt
<1>3. s.table = nil \/ s.table \in TableNames
  BY <1>2, StatementsAssumption
<1>4. CASE s.table = nil
  <2>1. conns[c].table = nil
    BY <1>4 DEF Selecting
  <2>2. Source(c) = From(s) /\ SourceTrees(c) = FromTrees(s)
    BY <1>4, <2>1 DEF Source, SourceTrees, From, FromTrees
  <2>3. RightAnswer(s) = SelectFrom(From(s), FromTrees(s), s)
    BY <1>4 DEF RightAnswer
  <2> QED
    BY <1>1, <1>2, <2>2, <2>3 DEF ConnsInv
<1>5. CASE s.table # nil
  <2> PICK n : n = s.table
    OBVIOUS
  <2>1. Exists(n) /\ conns[c].table = catalogue[n] /\ n \in TableNames
    BY <1>3, <1>5 DEF Selecting
  <2>2. Shown(n, tables[n], trees[n])
    BY <1>1, <2>1 DEF Settled, ShownAsSettled
  <2>3. /\ catalogue[n] # none /\ catalogue[n] \in DOMAIN heap
        /\ tables[n] = Plain(heap[catalogue[n]])
        /\ trees[n] = TreesOf(heap[catalogue[n]], forest)
    BY <1>1, <2>1, <2>2, NameShown DEF Exists
  <2>4. catalogue[n] # nil
    <3>1. DOMAIN heap \subseteq Nat
      BY <1>1 DEF MemoryInv
    <3> QED
      BY <2>3, <3>1, PointersAssumption
  <2>5. Source(c) = From(s) /\ SourceTrees(c) = FromTrees(s)
    BY <1>5, <2>1, <2>3, <2>4, Zenon DEF Source, SourceTrees, From, FromTrees
  <2>6. RightAnswer(s) = SelectFrom(From(s), FromTrees(s), s)
    BY <2>1 DEF RightAnswer
  <2> QED
    BY <1>1, <1>2, <2>5, <2>6 DEF ConnsInv
<1> QED
  BY <1>4, <1>5

\* LookUpSelect
LEMMA LookUpSelectStep ==
  ASSUME SerialInv, NEW c \in Conns, LookUpSelect(c)
  PROVE  SerialInv' /\ [Next]_vars
<1> PICK s : s = Stmt(c)
  OBVIOUS
<1>1. /\ Executes(c, "select")
      /\ UNCHANGED <<catalogue, heap, forest, accepted, process, asked>>
  BY DEF LookUpSelect
<1>2. /\ Alive /\ Busy(c) /\ Settled /\ conns[c].call.kind = "select" /\ s \in Selects
      /\ (s.table = nil \/ s.table \in TableNames)
  BY <1>1, Called, StatementsAssumption
<1>3. ConnsInv'
  BY ConnsKept DEF Run
<1>4. MemoryInv /\ TypeOK /\ TreesMapped /\ Running /\ DOMAIN conns[c] = DOMAIN Idle
  BY <1>2, Executed DEF ConnsInv
<1>5. s.table # nil => (catalogue[s.table] # none <=> Exists(s.table))
  BY <1>2, <1>4, Found
<1>6. CASE s.table # nil /\ catalogue[s.table] = none
  <2>1. Return(c, "ErrTableDoesNotExist")
    BY <1>6 DEF LookUpSelect
  <2>2. Goto(c, Idle) /\ Settle(c, Reply(s, "ErrTableDoesNotExist")) /\ Idle.pc = "idle"
    BY <2>1 DEF Return, Idle
  <2>3. RightAnswer(s) = Reply(s, "ErrTableDoesNotExist")
    BY <1>5, <1>6 DEF RightAnswer
  <2>4. Reply(s, "ErrTableDoesNotExist").err # Panic
    BY DEF Reply, Panic
  <2> QED
    BY <1>1, <1>2, <1>3, <2>2, <2>3, <2>4, SelectSettles
<1>7. CASE ~(s.table # nil /\ catalogue[s.table] = none) /\ s.items = <<>>
  <2>1. Answer(c, Reply(s, NoError))
    BY <1>7 DEF LookUpSelect
  <2> PICK answer : answer = Reply(s, NoError)
    OBVIOUS
  <2> PICK r : r = [Idle EXCEPT !.pc = "rows", !.rows = answer.rows, !.columns = answer.columns]
    OBVIOUS
  <2>2. Goto(c, r) /\ Settle(c, answer) /\ r.pc = "rows"
    BY <2>1 DEF Answer, Idle
  <2>3. RightAnswer(s) = answer
    BY <1>5, <1>7, Zenon DEF RightAnswer, SelectFrom
  <2>4. answer.err # Panic
    BY DEF Reply, Panic, NoError
  <2> QED
    BY <1>1, <1>2, <1>3, <2>2, <2>3, <2>4, SelectSettles
<1>8. CASE ~(s.table # nil /\ catalogue[s.table] = none) /\ s.items # <<>>
  <2> PICK r : r = [conns[c] EXCEPT !.pc = "narrow",
                            !.table = IF s.table = nil THEN nil ELSE catalogue[s.table]]
    OBVIOUS
  <2>1. Goto(c, r) /\ UNCHANGED settled
    BY <1>8 DEF LookUpSelect
  <2>2. /\ r.pc = "narrow" /\ r.call = conns[c].call
        /\ r.table = IF s.table = nil THEN nil ELSE catalogue[s.table]
    BY <1>4 DEF Idle
  <2>3. conns'[c] = r
    BY <1>2, <2>1, Executed, OthersIdle
  <2>4. Stmt(c)' = s
    BY <2>2, <2>3 DEF Stmt
  <2>5. MemoryInv' /\ Settled'
    BY <1>1, <1>2, <1>4, <2>1, StillSettled
  <2>6. tables' = tables /\ catalogue' = catalogue
    BY <1>1, <2>1 DEF settled, vars
  <2>7. Selecting(c)'
    BY <1>2, <1>5, <1>8, <2>2, <2>3, <2>4, <2>5, <2>6 DEF Selecting, Exists
  <2>8. Progress(c)'
    BY <2>2, <2>3, <2>7 DEF Narrowing, Progress
  <2> QED
    BY <1>1, <1>2, <1>3, <2>1, <2>2, <2>5, <2>8, Working
<1> QED
  BY <1>6, <1>7, <1>8

\* Where the loop over the rows begins
ScanBegins(window) ==
  [done |-> window.err # NoError, err |-> window.err, rowIndex |-> -1,
   rows |-> <<>>, columns |-> <<>>]

\* Its turns
LEMMA ScanTurns ==
  ASSUME NEW n \in Nat, NEW t, NEW s, NEW rows, NEW window,
         NEW f, ScannedUpTo(f, n, t, s, rows, window)
  PROVE  /\ f[0] = ScanBegins(window)
         /\ \A i \in 0 .. (n - 1) :
              f[i + 1] = ScanRow(t, s.where, FinalItems(t, s.items), window, f[i], rows[i + 1])
<1>1. f[0] = ScanBegins(window)
  BY DEF ScannedUpTo, ScanBegins
<1>2. ASSUME NEW i \in 0 .. (n - 1)
      PROVE  f[i + 1] = ScanRow(t, s.where, FinalItems(t, s.items), window, f[i], rows[i + 1])
  <2>1. i + 1 \in 0 .. n /\ i + 1 # 0 /\ (i + 1) - 1 = i
    OBVIOUS
  <2> QED
    BY <2>1 DEF ScannedUpTo
<1> QED
  BY <1>1, <1>2

\* Once the loop is done, it stays so.
LEMMA ScanStays ==
  ASSUME NEW n \in Nat, NEW t, NEW s, NEW rows, NEW window,
         NEW f, ScannedUpTo(f, n, t, s, rows, window), NEW k \in 0 .. n, f[k].done
  PROVE  f[n] = f[k]
<1> DEFINE Q == {i \in k .. n : f[i] = f[k]}
<1>1. k \in Q
  OBVIOUS
<1>2. ASSUME NEW i \in k .. (n - 1), i \in Q PROVE i + 1 \in Q
  <2>1. f[i + 1] = ScanRow(t, s.where, FinalItems(t, s.items), window, f[i], rows[i + 1])
    BY ScanTurns
  <2>2. f[i] = f[k] /\ i + 1 \in k .. n
    BY <1>2
  <2>3. \A where, items, row : ScanRow(t, where, items, window, f[k], row) = f[k]
    BY Zenon DEF ScanRow
  <2> QED
    BY <2>1, <2>2, <2>3
<1> HIDE DEF Q
<1>3. \A i \in k .. n : i \in Q
  BY <1>1, <1>2, Upwards
<1> QED
  BY <1>3 DEF Q

\* The loop comes to what it always comes to.
LEMMA ScanEnds ==
  ASSUME NEW t, NEW s, NEW rows, NEW window, NEW n \in Nat, n = Len(rows),
         NEW f, ScannedUpTo(f, n, t, s, rows, window),
         NEW k \in 0 .. n, f[k].done \/ k = n
  PROVE  ScanRows(t, s, rows, window) = f[k]
<1> PICK acc : acc = CHOOSE g : ScannedUpTo(g, n, t, s, rows, window)
  OBVIOUS
<1>1. ScanRows(t, s, rows, window) = acc[n]
  BY Zenon DEF ScanRows, ScannedUpTo
<1>2. ScannedUpTo(acc, n, t, s, rows, window)
  BY ScannedExists DEF ScansUpTo
<1> DEFINE Q == {i \in 0 .. n : acc[i] = f[i]}
<1>3. 0 \in Q
  BY <1>2, ScanTurns
<1>4. ASSUME NEW i \in 0 .. (n - 1), i \in Q PROVE i + 1 \in Q
  <2>1. /\ f[i + 1] = ScanRow(t, s.where, FinalItems(t, s.items), window, f[i], rows[i + 1])
        /\ acc[i + 1] = ScanRow(t, s.where, FinalItems(t, s.items), window, acc[i], rows[i + 1])
    <3>1. f[i + 1] = ScanRow(t, s.where, FinalItems(t, s.items), window, f[i], rows[i + 1])
      BY ONLY n \in Nat, i \in 0 .. (n - 1), ScannedUpTo(f, n, t, s, rows, window), ScanTurns
    <3>2. acc[i + 1] = ScanRow(t, s.where, FinalItems(t, s.items), window, acc[i], rows[i + 1])
      BY ONLY n \in Nat, i \in 0 .. (n - 1), <1>2, ScanTurns
    <3> QED
      BY ONLY <3>1, <3>2
  <2>2. acc[i] = f[i] /\ i + 1 \in 0 .. n
    BY <1>4
  <2> QED
    BY <2>1, <2>2
<1>5. acc[n] = f[n]
  <2> HIDE DEF Q
  <2>3. 0 \in Q /\ 0 \in Int /\ n \in Int
    BY <1>3
  <2>4. \A i \in 0 .. (n - 1) : i \in Q => i + 1 \in Q
    BY <1>4
  <2>1. \A i \in 0 .. n : i \in Q
    BY ONLY <2>3, <2>4, Upwards
  <2>2. n \in Q
    BY <2>1
  <2> QED
    BY <2>2 DEF Q
<1>6. f[n] = f[k]
  BY ScanStays
<1> QED
  BY <1>1, <1>5, <1>6

\* What Select answers, from what the loop comes to
LEMMA SelectedBy ==
  ASSUME NEW s, s.items # <<>>, NEW t, NEW f, NEW sub, sub = Narrowed(t, f, s.where)
  PROVE  /\ sub.panicked => SelectFrom(t, f, s) = Reply(s, Panic)
         /\ ~sub.panicked =>
              SelectFrom(t, f, s) = Results(s, ScanRows(t, s, sub.rows, Window(t, sub.rows, s)))
BY Zenon DEF SelectFrom

\* A table that no index narrows is read itself.
LEMMA ReadWhole ==
  ASSUME NEW t, t.indexes \in Seq(Index), NEW where \in Exprs \cup {nil}, NEW tree,
         ReadsTable(t, where)
  PROVE  Narrowed(t, tree, where) = Subset(t.rows, FALSE)
<1> PICK list : list = GetApplicableIndexes(t.indexes, where)
  OBVIOUS
<1>1. PICK n \in Nat : DOMAIN list = 1 .. n /\ Len(list) = n
  BY ApplicableDomain
<1>2. \A i \in 1 .. n : EvaluateConstant(ApplicableValue(list[i].index.exp, list[i].exp)).err # NoError
  <2>1. \A i \in 1 .. n : list[i] \in ToSet(list)
    BY <1>1 DEF ToSet
  <2> QED
    BY <2>1 DEF ReadsTable
<1> PICK sub : sub = CHOOSE g : NarrowedUpTo(g, n, t.rows, tree, list)
  OBVIOUS
<1>3. Narrowed(t, tree, where) = sub[n]
  <2>1. Narrowed(t, tree, where) =
          LET g == CHOOSE g : NarrowedUpTo(g, Len(list), t.rows, tree, list)
          IN  g[Len(list)]
    BY Zenon DEF Narrowed, NarrowedUpTo
  <2> QED
    BY <1>1, <2>1
<1>4. NarrowedUpTo(sub, n, t.rows, tree, list)
  BY NarrowedExists DEF NarrowsUpTo
<1> PICK whole : whole = Subset(t.rows, FALSE)
  OBVIOUS
<1>5. whole.rows = t.rows /\ ~whole.panicked
  BY DEF Subset
<1> DEFINE Q == {i \in 0 .. n : sub[i] = whole}
<1>6. 0 \in Q
  <2>1. sub[0] = Subset(t.rows, FALSE)
    BY ONLY <1>4, n \in Nat DEF NarrowedUpTo
  <2>2. sub[0] = whole
    BY ONLY <2>1, whole = Subset(t.rows, FALSE)
  <2>3. 0 \in 0 .. n
    OBVIOUS
  <2> QED
    BY ONLY <2>2, <2>3
<1>7. ASSUME NEW i \in 0 .. (n - 1), i \in Q PROVE i + 1 \in Q
  <2>1. i + 1 \in 1 .. n /\ i + 1 \in 0 .. n /\ i + 1 # 0 /\ (i + 1) - 1 = i
    OBVIOUS
  <2> PICK p : p = list[i + 1]
    OBVIOUS
  <2>2. sub[i + 1] = IF sub[i].panicked THEN sub[i]
                     ELSE NewTableFromSubset(sub[i].rows, p.index, tree[p.index.name], p.exp)
    BY ONLY <1>4, <2>1, p = list[i + 1] DEF NarrowedUpTo
  <2>3. sub[i] = whole
    BY <1>7
  <2>4. EvaluateConstant(ApplicableValue(p.index.exp, p.exp)).err # NoError
    BY <1>2, <2>1
  <2>5. \A f : NewTableFromSubset(t.rows, p.index, f, p.exp) = whole
    BY <2>4, Zenon DEF NewTableFromSubset
  <2>6. sub[i + 1] = whole
    BY <1>5, <2>2, <2>3, <2>5
  <2> QED
    BY <2>1, <2>6
<1> HIDE DEF Q
<1>8. \A i \in 0 .. n : i \in Q
  BY <1>6, <1>7, Upwards
<1>9. sub[n] = whole
  <2>1. n \in Q
    BY ONLY <1>8, n \in Nat
  <2> QED
    BY <2>1 DEF Q
<1> QED
  BY ONLY <1>3, <1>9, whole = Subset(t.rows, FALSE)

\* A SELECT goes through a sequence of rows: the table's own, unless an
\* index has given others.
LEMMA RowsRead ==
  ASSUME IndexInv, FiniteTrees, NEW s \in Selects, s.table = nil \/ Exists(s.table),
         NEW t, t = From(s), NEW sub, sub = Narrowed(t, FromTrees(s), s.where)
  PROVE  /\ Len(sub.rows) \in Nat /\ DOMAIN sub.rows = 1 .. Len(sub.rows)
         /\ ReadsTable(t, s.where) => t.rows = sub.rows
<1>1. s.where \in Exprs \cup {nil} /\ (s.table = nil \/ s.table \in TableNames)
  BY StatementsAssumption
<1>2. t.indexes \in Seq(Index) /\ \E S : t.rows \in Seq(S)
  <2>1. CASE s.table = nil
    <3>1. t.indexes = <<>> /\ t.rows = << <<>> >>
      BY <2>1 DEF From, NoTable
    <3>2. << <<>> >> \in Seq({<<>>}) /\ <<>> \in Seq(Index)
      OBVIOUS
    <3> QED
      BY <3>1, <3>2
  <2>2. CASE s.table # nil
    <3>1. t = tables[s.table] /\ Exists(s.table) /\ s.table \in TableNames
      BY <1>1, <2>2 DEF From
    <3> QED
      BY <3>1, TableShape DEF IndexInv
  <2> QED
    BY <2>1, <2>2
<1>3. ASSUME ReadsTable(t, s.where) PROVE t.rows = sub.rows
  <2>1. sub = Subset(t.rows, FALSE)
    BY <1>1, <1>2, <1>3, ReadWhole
  <2> QED
    BY <2>1 DEF Subset
<1>4. \E S : sub.rows \in Seq(S)
  <2>1. CASE s.table = nil
    <3>1. t.indexes = <<>>
      BY <2>1 DEF From, NoTable
    <3>2. ToSet(GetApplicableIndexes(t.indexes, s.where)) = {}
      <4> PICK list : list = GetApplicableIndexes(t.indexes, s.where)
        OBVIOUS
      <4>1. PICK n \in Nat : DOMAIN list = 1 .. n /\ \A i \in 1 .. n : \E k \in DOMAIN t.indexes :
                               list[i].index = t.indexes[k]
        BY <1>1, <1>2, ApplicableDomain
      <4>2. DOMAIN list = {}
        BY <3>1, <4>1
      <4> QED
        BY <4>2 DEF ToSet
    <3>3. ReadsTable(t, s.where)
      BY <3>2 DEF ReadsTable
    <3> QED
      BY <1>2, <1>3, <3>3
  <2>2. CASE s.table # nil
    <3> PICK tree : tree = FromTrees(s)
      OBVIOUS
    <3>1. \A x \in IndexNames : IsFiniteSet(tree[x])
      BY <1>1, <2>2 DEF FromTrees, FiniteTrees
    <3>2. t.rows \in Seq(ToSet(t.rows))
      BY <1>2 DEF ToSet
    <3>3. sub.rows \in Seq(ToSet(t.rows))
      BY <1>1, <1>2, <3>1, <3>2, NarrowedRows
    <3> QED
      BY <3>3
  <2> QED
    BY <2>1, <2>2
<1> QED
  BY <1>3, <1>4

\* A LIMIT or an OFFSET that is wrong ends a SELECT before its first row.
LEMMA WindowFails ==
  ASSUME NEW t, NEW s, NEW rows, Len(rows) \in Nat, NEW window, window.err # NoError
  PROVE  Results(s, ScanRows(t, s, rows, window)) = Reply(s, window.err)
<1> PICK n \in Nat : n = Len(rows)
  OBVIOUS
<1>1. PICK f : ScannedUpTo(f, n, t, s, rows, window)
  BY ScannedExists DEF ScansUpTo
<1>2. f[0] = ScanBegins(window)
  BY <1>1, ScanTurns
<1>3. f[0].done /\ f[0].err = window.err /\ 0 \in 0 .. n
  <2>1. (window.err # NoError) = TRUE
    OBVIOUS
  <2>2. ScanBegins(window) = [done |-> TRUE, err |-> window.err, rowIndex |-> -1,
                              rows |-> <<>>, columns |-> <<>>]
    BY <2>1, Zenon DEF ScanBegins
  <2>3. ScanBegins(window).done /\ ScanBegins(window).err = window.err
    BY ONLY <2>2
  <2> QED
    BY <1>2, <2>3
<1>4. ScanRows(t, s, rows, window) = f[0]
  <2>1. 0 \in 0 .. n /\ (f[0].done \/ 0 = n)
    BY <1>3
  <2> QED
    BY ONLY n \in Nat, n = Len(rows), <1>1, <2>1, ScanEnds
<1> QED
  BY <1>3, <1>4 DEF Results

\* Narrow
LEMMA NarrowStep ==
  ASSUME SerialInv, NEW c \in Conns, Narrow(c)
  PROVE  SerialInv' /\ [Next]_vars
<1> PICK s, t, f, sub, window :
      /\ s = Stmt(c) /\ t = Source(c) /\ f = SourceTrees(c)
      /\ sub = Narrowed(t, f, s.where) /\ window = Window(t, sub.rows, s)
  OBVIOUS
<1>1. Local(c, "narrow") /\ "narrow" \notin {"idle", "rows"} /\ UNCHANGED asked
  BY DEF Narrow
<1>2. Alive /\ Busy(c) /\ conns[c].pc = "narrow" /\ Progress(c)
  BY <1>1, Underway
<1>3. Selecting(c)
  BY <1>2, Whereabouts DEF Narrowing
<1>4. /\ s \in Selects /\ Settled /\ MemoryInv /\ conns[c].call.kind = "select"
      /\ s.items # <<>> /\ DOMAIN conns[c] = DOMAIN Idle
      /\ t = From(s) /\ f = FromTrees(s) /\ RightAnswer(s) = SelectFrom(t, f, s)
  BY <1>2, <1>3, WhileSelecting
<1>5. IndexInv /\ FiniteTrees
  BY <1>2, Executed
<1>6. ConnsInv'
  BY ConnsKept DEF Run
<1>7. /\ Len(sub.rows) \in Nat
      /\ ReadsTable(t, s.where) => t.rows = sub.rows
  <2>1. s.table = nil \/ Exists(s.table)
    BY <1>3 DEF Selecting
  <2> QED
    BY <1>4, <1>5, <2>1, RowsRead
<1>8. /\ sub.panicked => RightAnswer(s) = Reply(s, Panic)
      /\ ~sub.panicked => RightAnswer(s) = Results(s, ScanRows(t, s, sub.rows, window))
  BY <1>4, SelectedBy
<1>9. CASE sub.panicked \/ window.err = Panic
  <2>1. Crash(c)
    BY <1>9 DEF Narrow
  <2>2. RightAnswer(s) = Reply(s, Panic)
    <3>1. CASE sub.panicked
      BY <1>8, <3>1
    <3>2. CASE ~sub.panicked
      <4>1. window.err = Panic /\ window.err # NoError
        BY <1>9, <3>2 DEF NoError, Panic
      <4> QED
        BY <1>7, <1>8, <3>2, <4>1, WindowFails
    <3> QED
      BY <3>1, <3>2
  <2> QED
    BY <1>1, <1>2, <1>4, <2>1, <2>2, SelectCrashes
<1>10. CASE ~sub.panicked /\ window.err \notin {NoError, Panic}
  <2>1. UNCHANGED <<catalogue, heap, forest, accepted, process>> /\ Return(c, window.err)
    BY <1>10 DEF Narrow
  <2> PICK answer : answer = Reply(s, window.err)
    OBVIOUS
  <2>2. Goto(c, Idle) /\ Settle(c, answer) /\ Idle.pc = "idle"
    BY <2>1 DEF Return, Idle
  <2>3. RightAnswer(s) = answer
    BY <1>7, <1>8, <1>10, WindowFails
  <2>4. answer.err # Panic
    BY <1>10 DEF Reply
  <2> QED
    BY <1>1, <1>2, <1>4, <1>6, <2>1, <2>2, <2>3, <2>4, SelectSettles
<1>11. CASE ~sub.panicked /\ window.err = NoError
  <2> PICK acc : acc = [done |-> FALSE, err |-> NoError, rowIndex |-> -1,
                        rows |-> <<>>, columns |-> <<>>]
    OBVIOUS
  <2> PICK live : live = ReadsTable(t, s.where)
    OBVIOUS
  <2> PICK r : r = [conns[c] EXCEPT !.pc = "scan", !.rows = sub.rows, !.live = live,
                      !.todo = FinalItems(t, s.items), !.window = window, !.acc = acc,
                      !.index = 0]
    OBVIOUS
  <2>1. /\ UNCHANGED <<catalogue, heap, forest, accepted, process>>
        /\ Goto(c, r) /\ UNCHANGED settled
    BY <1>11 DEF Narrow, NoError, Panic
  <2>2. /\ r.pc = "scan" /\ r.call = conns[c].call /\ r.rows = sub.rows /\ r.live = live
        /\ r.todo = FinalItems(t, s.items) /\ r.window = window /\ r.acc = acc
        /\ r.index = 0 /\ r.table = conns[c].table
    BY <1>4 DEF Idle
  <2>3. conns'[c] = r
    BY <1>2, <2>1, Executed, OthersIdle
  <2>4. Stmt(c)' = s
    BY <2>2, <2>3 DEF Stmt
  <2>5. MemoryInv' /\ Settled'
    BY <1>4, <2>1, StillSettled
  <2>6. tables' = tables /\ trees' = trees /\ catalogue' = catalogue
    BY <2>1 DEF settled, vars
  <2>7. Selecting(c)'
    <3>1. conns'[c].call = conns[c].call /\ conns'[c].table = conns[c].table
      BY <2>2, <2>3
    <3>2. Exists(s.table)' <=> Exists(s.table)
      BY <2>6 DEF Exists
    <3>3. s = Stmt(c)
      OBVIOUS
    <3> QED
      BY ONLY <1>3, <2>4, <2>5, <2>6, <3>1, <3>2, <3>3 DEF Selecting
  <2>9. \E g : ScannedUpTo(g, Len(sub.rows), t, s, sub.rows, window) /\ acc = g[0]
    <3>1. PICK g : ScannedUpTo(g, Len(sub.rows), t, s, sub.rows, window)
      BY <1>7, ScannedExists DEF ScansUpTo
    <3>2. g[0] = ScanBegins(window)
      BY <1>7, <3>1, ScanTurns
    <3>3. ScanBegins(window) = acc
      BY <1>11 DEF ScanBegins
    <3> QED
      BY <3>1, <3>2, <3>3
  <2>10. Scanning(c)'
    <3>1. AmongRead(r, t, s, sub)
      <4>1. acc.err = NoError /\ acc.err # Panic /\ DOMAIN acc = AccFields
        BY DEF NoError, Panic, AccFields
      <4>2. r.index \in 0 .. Len(sub.rows) /\ r.window = Window(t, sub.rows, s)
        BY <1>7, <2>2
      <4>3. \E g : ScannedUpTo(g, Len(sub.rows), t, s, sub.rows, r.window) /\ r.acc = g[r.index]
        BY ONLY <2>2, <2>9
      <4> QED
        BY ONLY <1>7, <1>11, <2>2, <4>1, <4>2, <4>3, live = ReadsTable(t, s.where)
           DEF AmongRead
    <3> QED
      <4>1. t = IF s.table = nil THEN NoTable ELSE tables'[s.table]
        BY ONLY <1>4, <2>6 DEF From
      <4>2. f = IF s.table = nil THEN <<>> ELSE trees'[s.table]
        BY ONLY <1>4, <2>6 DEF FromTrees
      <4> QED
        BY ONLY <2>3, <2>4, <2>7, <3>1, <4>1, <4>2, sub = Narrowed(t, f, s.where)
           DEF Scanning, From, FromTrees
  <2>11. Progress(c)'
    BY <2>10 DEF Progress
  <2> QED
    BY <1>1, <1>2, <1>6, <2>1, <2>2, <2>5, <2>11, Working
<1> QED
  BY <1>9, <1>10, <1>11

\* A turn of the loop that does not end it brings no error.
LEMMA TurnErrors ==
  ASSUME NEW t, NEW where, NEW items, NEW window, NEW row, NEW acc, DOMAIN acc = AccFields,
         NEW a, a = ScanRow(t, where, items, window, acc, row)
  PROVE  DOMAIN a = AccFields /\ (a.done \/ a.err = acc.err)
<1> PICK counted : counted = [acc EXCEPT !.rowIndex = acc.rowIndex + 1]
  OBVIOUS
<1>1. DOMAIN counted = AccFields /\ counted.err = acc.err
  BY DEF AccFields
<1>2. \A e : /\ Ended(acc, e).done /\ DOMAIN Ended(acc, e) = AccFields
             /\ Ended(counted, e).done /\ DOMAIN Ended(counted, e) = AccFields
  BY <1>1 DEF Ended, AccFields
<1>3. \A cells, columns :
        LET b == [counted EXCEPT !.rows = Append(@, cells), !.columns = columns]
        IN  DOMAIN b = AccFields /\ b.err = acc.err
  BY <1>1 DEF AccFields
<1>4. \/ a = acc
      \/ a = counted
      \/ \E e : a = Ended(acc, e) \/ a = Ended(counted, e)
      \/ \E cells, columns :
           a = [counted EXCEPT !.rows = Append(@, cells), !.columns = columns]
  BY Zenon DEF ScanRow
<1>5. CASE \E cells, columns :
             a = [counted EXCEPT !.rows = Append(@, cells), !.columns = columns]
  <2>1. PICK cells, columns :
          a = [counted EXCEPT !.rows = Append(@, cells), !.columns = columns]
    BY <1>5
  <2> QED
    BY <1>3, <2>1
<1>6. CASE \E e : a = Ended(acc, e) \/ a = Ended(counted, e)
  BY <1>2, <1>6
<1> QED
  BY <1>1, <1>4, <1>5, <1>6

\* While Select's loop runs
LEMMA WhileScanning ==
  ASSUME SerialInv, NEW c \in Conns, Local(c, "scan"),
         NEW s, s = Stmt(c), NEW t, t = Source(c),
         NEW sub, sub = Narrowed(t, SourceTrees(c), s.where)
  PROVE  /\ Alive /\ Busy(c) /\ s \in Selects /\ Settled /\ MemoryInv /\ Selecting(c)
         /\ conns[c].call.kind = "select" /\ DOMAIN conns[c] = DOMAIN Idle
         /\ DOMAIN conns[c].acc = AccFields
         /\ t = From(s) /\ SourceTrees(c) = FromTrees(s)
         /\ AmongRead(conns[c], t, s, sub)
         /\ Len(sub.rows) \in Nat /\ DOMAIN sub.rows = 1 .. Len(sub.rows)
         /\ RightAnswer(s) = Results(s, ScanRows(t, s, sub.rows, conns[c].window))
<1>1. "scan" \notin {"idle", "rows"}
  OBVIOUS
<1>2. Alive /\ Busy(c) /\ conns[c].pc = "scan" /\ Progress(c)
  BY <1>1, Underway
<1>3. Scanning(c)
  BY <1>2, Whereabouts
<1>4. Selecting(c)
  BY <1>3 DEF Scanning
<1>5. /\ s \in Selects /\ Settled /\ MemoryInv /\ conns[c].call.kind = "select"
      /\ s.items # <<>> /\ DOMAIN conns[c] = DOMAIN Idle
      /\ t = From(s) /\ SourceTrees(c) = FromTrees(s)
      /\ RightAnswer(s) = SelectFrom(From(s), FromTrees(s), s)
  BY <1>2, <1>4, WhileSelecting
<1>6. AmongRead(conns[c], t, s, sub)
  BY <1>3, <1>5 DEF Scanning
<1>7. IndexInv /\ FiniteTrees /\ ConnsInv
  BY <1>2, Executed
<1>8. Len(sub.rows) \in Nat /\ DOMAIN sub.rows = 1 .. Len(sub.rows)
  <2>1. s.table = nil \/ Exists(s.table)
    BY <1>4 DEF Selecting
  <2> QED
    BY <1>5, <1>7, <2>1, RowsRead
<1>9. RightAnswer(s) = Results(s, ScanRows(t, s, sub.rows, conns[c].window))
  <2>1. ~sub.panicked /\ conns[c].window = Window(t, sub.rows, s)
    BY <1>6 DEF AmongRead
  <2>2. RightAnswer(s) = SelectFrom(t, SourceTrees(c), s)
    BY ONLY <1>5
  <2> PICK f : f = SourceTrees(c)
    OBVIOUS
  <2>3. SelectFrom(t, f, s) = Results(s, ScanRows(t, s, sub.rows, Window(t, sub.rows, s)))
    <3>1. sub = Narrowed(t, f, s.where)
      OBVIOUS
    <3> QED
      BY ONLY <1>5, <2>1, <3>1, SelectedBy
  <2> QED
    BY ONLY <2>1, <2>2, <2>3, f = SourceTrees(c)
<1>10. DOMAIN conns[c].acc = AccFields
  BY <1>6 DEF AmongRead
<1> QED
  BY <1>2, <1>4, <1>5, <1>6, <1>8, <1>9, <1>10

\* EndScan
LEMMA EndScanStep ==
  ASSUME SerialInv, NEW c \in Conns, EndScan(c)
  PROVE  SerialInv' /\ [Next]_vars
<1> PICK s, t, sub, acc, k, window :
      /\ s = Stmt(c) /\ t = Source(c) /\ sub = Narrowed(t, SourceTrees(c), s.where)
      /\ acc = conns[c].acc /\ k = conns[c].index /\ window = conns[c].window
  OBVIOUS
<1>1. /\ Local(c, "scan") /\ (acc.done \/ ~(k < Len(conns[c].rows)))
      /\ UNCHANGED <<catalogue, heap, forest, accepted, process, asked>>
  BY DEF EndScan, RowsLeft
<1>2. /\ Alive /\ Busy(c) /\ s \in Selects /\ Settled /\ conns[c].call.kind = "select"
      /\ AmongRead(conns[c], t, s, sub) /\ Len(sub.rows) \in Nat
      /\ RightAnswer(s) = Results(s, ScanRows(t, s, sub.rows, window))
  BY <1>1, WhileScanning
<1>3. ConnsInv'
  BY ConnsKept DEF Run
<1> PICK n \in Nat : n = Len(sub.rows)
  BY <1>2
<1>4. /\ k \in 0 .. n /\ acc.err # Panic /\ (acc.done \/ k = n)
      /\ \E f : ScannedUpTo(f, n, t, s, sub.rows, window) /\ acc = f[k]
  BY <1>1, <1>2 DEF AmongRead
<1>5. ScanRows(t, s, sub.rows, window) = acc
  <2>1. PICK f : ScannedUpTo(f, n, t, s, sub.rows, window) /\ acc = f[k]
    BY <1>4
  <2>2. f[k].done \/ k = n
    BY <1>4, <2>1
  <2>3. ScanRows(t, s, sub.rows, window) = f[k]
    BY ONLY n \in Nat, n = Len(sub.rows), <1>4, <2>1, <2>2, ScanEnds
  <2> QED
    BY <2>1, <2>3
<1>6. RightAnswer(s) = Results(s, acc)
  BY <1>2, <1>5
<1> PICK answer : answer = Results(s, acc)
  OBVIOUS
<1>7. answer.err # Panic
  <2>1. CASE acc.err # NoError
    BY <1>4, <2>1 DEF Results, Reply
  <2>2. CASE acc.err = NoError
    BY <2>2 DEF Results, NoError, Panic
  <2> QED
    BY <2>1, <2>2
<1>8. CASE acc.err # NoError
  <2>1. Return(c, acc.err) /\ answer = Reply(s, acc.err)
    BY <1>8 DEF EndScan, Results
  <2>2. Goto(c, Idle) /\ Settle(c, answer) /\ Idle.pc = "idle"
    BY <2>1 DEF Return, Idle
  <2> QED
    BY <1>1, <1>2, <1>3, <1>6, <1>7, <2>2, SelectSettles
<1>9. CASE acc.err = NoError
  <2>1. Answer(c, answer)
    BY <1>9 DEF EndScan
  <2> PICK r : r = [Idle EXCEPT !.pc = "rows", !.rows = answer.rows, !.columns = answer.columns]
    OBVIOUS
  <2>2. Goto(c, r) /\ Settle(c, answer) /\ r.pc = "rows"
    BY <2>1 DEF Answer, Idle
  <2> QED
    BY <1>1, <1>2, <1>3, <1>6, <1>7, <2>2, SelectSettles
<1> QED
  BY <1>8, <1>9

\* VisitRow
LEMMA VisitRowStep ==
  ASSUME SerialInv, NEW c \in Conns, VisitRow(c)
  PROVE  SerialInv' /\ [Next]_vars
<1> PICK s, t, tree, sub, k, window, items :
      /\ s = Stmt(c) /\ t = Source(c) /\ tree = SourceTrees(c)
      /\ sub = Narrowed(t, tree, s.where)
      /\ k = conns[c].index /\ window = conns[c].window /\ items = conns[c].todo
  OBVIOUS
<1> PICK rows : rows = IF conns[c].live THEN t.rows ELSE conns[c].rows
  OBVIOUS
<1> PICK acc : acc = ScanRow(t, s.where, items, window, conns[c].acc, RowAt(rows, k + 1))
  OBVIOUS
<1>1. /\ Local(c, "scan") /\ ~conns[c].acc.done /\ k < Len(conns[c].rows)
      /\ UNCHANGED asked
  BY DEF VisitRow, RowsLeft
<1>2. /\ Alive /\ Busy(c) /\ s \in Selects /\ Settled /\ MemoryInv /\ Selecting(c)
      /\ DOMAIN conns[c] = DOMAIN Idle /\ DOMAIN conns[c].acc = AccFields
      /\ t = From(s) /\ tree = FromTrees(s)
      /\ AmongRead(conns[c], t, s, sub)
      /\ Len(sub.rows) \in Nat /\ DOMAIN sub.rows = 1 .. Len(sub.rows)
      /\ RightAnswer(s) = Results(s, ScanRows(t, s, sub.rows, window))
  BY <1>1, WhileScanning
<1>3. ConnsInv'
  BY ConnsKept DEF Run
<1> PICK n \in Nat : n = Len(sub.rows)
  BY <1>2
<1>4. /\ k \in 0 .. (n - 1) /\ conns[c].acc.err = NoError /\ items = FinalItems(t, s.items)
      /\ rows = sub.rows /\ conns[c].rows = sub.rows
      /\ window = Window(t, sub.rows, s) /\ window.err = NoError /\ ~sub.panicked
  <2>1. /\ k \in 0 .. Len(sub.rows) /\ (~conns[c].acc.done => conns[c].acc.err = NoError)
        /\ items = FinalItems(t, s.items) /\ conns[c].rows = sub.rows
        /\ window = Window(t, sub.rows, s) /\ window.err = NoError /\ ~sub.panicked
        /\ (conns[c].live => t.rows = sub.rows)
    BY <1>2 DEF AmongRead
  <2>2. rows = sub.rows
    BY ONLY <2>1, rows = IF conns[c].live THEN t.rows ELSE conns[c].rows
  <2>3. k \in 0 .. (n - 1)
    BY <1>1, <2>1
  <2> QED
    BY <1>1, <2>1, <2>2, <2>3
<1>5. PICK f : ScannedUpTo(f, n, t, s, sub.rows, window) /\ conns[c].acc = f[k]
  BY <1>2 DEF AmongRead
<1>6. acc = f[k + 1]
  <2>1. RowAt(rows, k + 1) = sub.rows[k + 1]
    BY <1>2, <1>4 DEF RowAt
  <2>2. f[k + 1] = ScanRow(t, s.where, FinalItems(t, s.items), window, f[k], sub.rows[k + 1])
    BY ONLY n \in Nat, <1>4, <1>5, ScanTurns
  <2> QED
    BY <1>4, <1>5, <2>1, <2>2
<1>7. DOMAIN acc = AccFields /\ (acc.done \/ acc.err = NoError)
  BY <1>2, <1>4, TurnErrors
<1>8. CASE acc.err = Panic
  <2>1. Crash(c)
    BY <1>8 DEF VisitRow
  <2>2. f[k + 1].done /\ k + 1 \in 0 .. n
    BY <1>4, <1>6, <1>7, <1>8 DEF NoError, Panic
  <2>3. ScanRows(t, s, sub.rows, window) = f[k + 1]
    <3> PICK m : m = k + 1
      OBVIOUS
    <3>1. m \in 0 .. n /\ (f[m].done \/ m = n)
      BY <2>2
    <3>3. ScannedUpTo(f, n, t, s, sub.rows, window)
      BY <1>5
    <3>4. n \in Nat /\ n = Len(sub.rows)
      OBVIOUS
    <3>2. ScanRows(t, s, sub.rows, window) = f[m]
      BY ONLY <3>1, <3>3, <3>4, ScanEnds
    <3> QED
      BY <3>2
  <2>4. RightAnswer(s) = Reply(s, Panic)
    BY <1>2, <1>6, <1>8, <2>3 DEF Results, NoError, Panic
  <2> QED
    BY <1>1, <1>2, <2>1, <2>4, SelectCrashes
<1>9. CASE acc.err # Panic
  <2> PICK r : r = NextRow(conns[c], acc)
    OBVIOUS
  <2>1. /\ Goto(c, r)
        /\ UNCHANGED <<catalogue, heap, forest, accepted, process, settled>>
    BY <1>9 DEF VisitRow
  <2>2. /\ r.pc = conns[c].pc /\ r.call = conns[c].call /\ r.rows = conns[c].rows
        /\ r.live = conns[c].live /\ r.todo = items /\ r.window = window /\ r.acc = acc
        /\ r.index = k + 1 /\ r.table = conns[c].table
    BY <1>2 DEF NextRow, Idle
  <2>3. conns'[c] = r
    BY <1>2, <2>1, Executed, OthersIdle
  <2>4. Stmt(c)' = s
    BY <2>2, <2>3 DEF Stmt
  <2>5. MemoryInv' /\ Settled'
    BY <1>2, <2>1, StillSettled
  <2>6. tables' = tables /\ trees' = trees /\ catalogue' = catalogue
    BY <2>1 DEF settled, vars
  <2>7. Selecting(c)'
    BY <1>2, <2>2, <2>3, <2>4, <2>5, <2>6 DEF Selecting, Exists, Stmt
  <2>8. Scanning(c)'
    <3>1. AmongRead(r, t, s, sub)
      <4>1. k + 1 \in 0 .. Len(sub.rows)
        BY <1>4
      <4>2. \E g : ScannedUpTo(g, Len(sub.rows), t, s, sub.rows, r.window) /\ r.acc = g[r.index]
        BY ONLY n = Len(sub.rows), <1>5, <1>6, <2>2
      <4>3. r.pc = "scan" /\ (r.live => t.rows = sub.rows)
        BY <1>2, <2>2 DEF AmongRead
      <4> QED
        BY ONLY <1>4, <1>7, <1>9, <2>2, <4>1, <4>2, <4>3 DEF AmongRead
    <3>2. t = IF s.table = nil THEN NoTable ELSE tables'[s.table]
      BY ONLY <1>2, <2>6 DEF From
    <3>3. tree = IF s.table = nil THEN <<>> ELSE trees'[s.table]
      BY ONLY <1>2, <2>6 DEF FromTrees
    <3> QED
      BY ONLY <2>3, <2>4, <2>7, <3>1, <3>2, <3>3, sub = Narrowed(t, tree, s.where)
         DEF Scanning, From, FromTrees
  <2>9. Progress(c)' /\ r.pc = "scan"
    BY <1>1, <2>2, <2>8 DEF Progress, Local
  <2> QED
    BY <1>1, <1>2, <1>3, <2>1, <2>2, <2>5, <2>9, Working
<1> QED
  BY <1>8, <1>9

------------------------------------------------------------------------------
(***************************************************************************)
(* What the client asks.                                                   *)
(***************************************************************************)

\* What it asks changes nothing that has been settled.
LEMMA Untouched ==
  ASSUME SerialInv, UNCHANGED <<settled, catalogue, heap, forest, accepted>>
  PROVE  /\ MemoryInv' /\ UNCHANGED vars /\ IndexInv' /\ FiniteTrees' /\ TreesMapped'
         /\ (Settled => Settled') /\ \A m : Sized(m) => Sized(m)'
         /\ reply'.err = reply.err
<1>1. MemoryInv /\ IndexInv /\ FiniteTrees /\ TreesMapped
  BY DEF SerialInv, BackendInv
<1>2. UNCHANGED vars
  BY DEF settled
<1>3. UNCHANGED <<tables, trees, granted, reply>>
  BY <1>2 DEF vars
<1>4. MemoryInv' /\ (Settled => Settled')
  BY <1>1, <1>3, MemoryUnmoved DEF Settled, ShownAsSettled, Shown
<1>5. IndexInv' /\ FiniteTrees' /\ TreesMapped'
  BY <1>1, <1>2, <1>3, NextInv, StepFinite DEF TreesMapped
<1>6. \A m : Sized(m) => Sized(m)'
  BY <1>3 DEF Sized, Exists
<1> QED
  BY <1>2, <1>3, <1>4, <1>5, <1>6

\* With one query at a time, the connection that is given one is the only
\* one in use.
LEMMA NobodyBusy ==
  ASSUME OneAtATime, Cardinality(InUse) < AtOnce
  PROVE  \A d \in Conns : conns[d].pc = "idle"
<1>1. IsFiniteSet(InUse)
  BY QueriesAssumption, FS_Subset DEF InUse
<1>2. Cardinality(InUse) = 0
  BY <1>1, FS_CardinalityType DEF OneAtATime
<1>3. InUse = {}
  BY <1>1, <1>2, FS_EmptySet
<1> QED
  BY <1>3 DEF InUse

\* A query that the process does not outlive
LEMMA QueryPanics ==
  ASSUME SerialInv, NEW c \in Conns, asked < MaxQueries, asked' = asked + 1,
         \A d \in Conns : conns[d].pc = "idle",
         process' = "panicked", UNCHANGED <<catalogue, heap, forest, conns, accepted, settled>>,
         ConnsInv'
  PROVE  SerialInv' /\ [Next]_vars
<1>1. asked \in Nat /\ Sized(Ends) /\ IndexInv /\ FiniteTrees
  BY DEF SerialInv, BackendInv
<1>2. Ends = asked /\ Ends' = asked + 1
  BY DEF Ends, Busy
<1>3. /\ MemoryInv' /\ UNCHANGED vars /\ IndexInv' /\ FiniteTrees' /\ TreesMapped'
      /\ \A m : Sized(m) => Sized(m)'
  BY Untouched
<1>4. Sized(Ends)'
  <2> PICK m : m = asked + 1
    OBVIOUS
  <2>1. Sized(m)
    BY <1>1, <1>2, SizedMore
  <2>2. Sized(m)' /\ Ends' = m
    BY <1>2, <1>3, <2>1
  <2> QED
    BY <2>2 DEF Sized
<1>5. OneBusy'
  BY DEF OneBusy
<1>6. asked' \in Nat /\ asked' <= MaxQueries /\ ~Alive'
  BY <1>1, QueriesAssumption DEF Alive
<1> QED
  BY <1>3, <1>4, <1>5, <1>6 DEF SerialInv, BackendInv

\* Query
LEMMA QueryStep ==
  ASSUME OneAtATime, SerialInv, NEW c \in Conns, NEW q \in Queries, Query(c, q)
  PROVE  SerialInv' /\ [Next]_vars
<1>1. /\ Local(c, "idle") /\ Cardinality(InUse) < AtOnce /\ asked < MaxQueries
      /\ asked' = asked + 1 /\ UNCHANGED <<catalogue, heap, forest, accepted, settled>>
  BY DEF Query
<1>2. \A d \in Conns : conns[d].pc = "idle"
  BY <1>1, NobodyBusy
<1>3. ConnsInv'
  BY AskInv DEF Ask, SerialInv
<1>4. /\ asked \in Nat /\ Sized(Ends) /\ IndexInv /\ FiniteTrees /\ Alive /\ Settled
      /\ reply.err # Panic /\ DOMAIN conns = Conns
  <2>1. Alive /\ Quiet
    BY <1>1, <1>2 DEF Local, Quiet
  <2> QED
    BY <2>1 DEF SerialInv, BackendInv, ConnsInv
<1>5. Ends = asked
  BY <1>2 DEF Ends, Busy
<1>6. /\ MemoryInv' /\ UNCHANGED vars /\ IndexInv' /\ FiniteTrees' /\ TreesMapped'
      /\ Settled' /\ (\A m : Sized(m) => Sized(m)') /\ reply'.err # Panic
  BY <1>1, <1>4, Untouched
<1>7. asked' \in Nat /\ asked' <= MaxQueries /\ asked' > 0
  BY <1>1, <1>4, QueriesAssumption
<1>8. CASE q = parseError /\ UNCHANGED <<conns, process>>
  <2>1. Ends' = asked + 1
    BY <1>1, <1>2, <1>8 DEF Ends, Busy
  <2>2. Sized(Ends)'
    <3> PICK m : m = asked + 1
      OBVIOUS
    <3>1. Sized(m)
      BY <1>4, <1>5, SizedMore
    <3>2. Sized(m)' /\ Ends' = m
      BY <1>6, <2>1, <3>1
    <3> QED
      BY <3>2 DEF Sized
  <2>3. OneBusy' /\ \A d \in Conns : ~Busy(d)'
    BY <1>2, <1>8 DEF OneBusy, Busy
  <2> QED
    BY <1>3, <1>6, <1>7, <2>2, <2>3 DEF SerialInv, BackendInv
<1>9. CASE q = <<>> /\ process' = "panicked" /\ UNCHANGED conns
  BY <1>1, <1>2, <1>3, <1>9, QueryPanics
<1>10. CASE /\ q \notin {parseError, unsupported, <<>>}
            /\ Goto(c, [Idle EXCEPT !.pc = "execute", !.call = q[1]]) /\ UNCHANGED process
  <2> PICK r : r = [Idle EXCEPT !.pc = "execute", !.call = q[1]]
    OBVIOUS
  <2>1. r.pc = "execute" /\ r.call = q[1]
    BY DEF Idle
  <2>2. q[1] \in Statements
    BY <1>10, QueriesAssumption
  <2>3. conns'[c] = r /\ \A d \in Conns \ {c} : conns'[d].pc = "idle"
    BY <1>2, <1>4, <1>10 DEF Goto
  <2>4. Busy(c)' /\ OneBusy' /\ \A d \in Conns : Busy(d)' => d = c
    BY <2>1, <2>3 DEF Busy, OneBusy
  <2>5. Ends' = asked
    BY <1>1, <1>4, <2>4 DEF Ends
  <2>6. Sized(Ends)'
    <3> PICK m : m = asked
      OBVIOUS
    <3>1. Sized(m)' /\ Ends' = m
      BY <1>4, <1>5, <1>6, <2>5
    <3> QED
      BY <3>1 DEF Sized
  <2>7. Progress(c)'
    BY <1>6, <2>1, <2>3 DEF Executing, Progress
  <2>8. conns'[c].call \in Statements /\ ~Quiet'
    BY <2>1, <2>2, <2>3, <2>4 DEF Quiet, Busy
  <2> QED
    BY <1>3, <1>6, <1>7, <2>4, <2>6, <2>7, <2>8 DEF SerialInv, BackendInv
<1> QED
  BY <1>8, <1>9, <1>10 DEF Query

\* Prepare, Begin, and Query with arguments
LEMMA NotSupportedStep ==
  ASSUME OneAtATime, SerialInv, NEW c \in Conns, NotSupported(c)
  PROVE  SerialInv' /\ [Next]_vars
<1>1. /\ Cardinality(InUse) < AtOnce /\ asked < MaxQueries /\ asked' = asked + 1
      /\ process' = "panicked"
      /\ UNCHANGED <<catalogue, heap, forest, conns, accepted, settled>>
  BY DEF NotSupported
<1>2. \A d \in Conns : conns[d].pc = "idle"
  BY <1>1, NobodyBusy
<1>3. ConnsInv'
  BY AskInv DEF Ask, SerialInv
<1> QED
  BY <1>1, <1>2, <1>3, QueryPanics

\* A cursor is read or closed.
LEMMA CursorStep ==
  ASSUME SerialInv, NEW c \in Conns, Local(c, "rows"),
         NEW r, Goto(c, r), r.pc \in {"idle", "rows"},
         UNCHANGED <<catalogue, heap, forest, process, asked, accepted, settled>>, ConnsInv'
  PROVE  SerialInv' /\ [Next]_vars
<1>1. Alive /\ conns[c].pc = "rows" /\ ConnsInv /\ OneBusy
  BY DEF Local, SerialInv
<1>2. /\ conns'[c] = r /\ OneBusy'
      /\ \A d \in Conns \ {c} : conns'[d] = conns[d] /\ conns[d].pc = "idle"
  BY <1>1, OthersIdle
<1>3. (\A d \in Conns : ~Busy(d)) /\ (\A d \in Conns : ~Busy(d)')
  BY <1>1, <1>2 DEF Busy
<1>4. Quiet
  BY <1>1, <1>3 DEF Quiet, Busy
<1>5. Settled /\ reply.err # Panic /\ Sized(Ends)
  BY <1>1, <1>4 DEF SerialInv, BackendInv
<1>6. /\ MemoryInv' /\ UNCHANGED vars /\ IndexInv' /\ FiniteTrees' /\ TreesMapped'
      /\ Settled' /\ (\A m : Sized(m) => Sized(m)') /\ reply'.err # Panic
  BY <1>5, Untouched
<1>7. Sized(Ends)'
  <2> PICK m : m = Ends
    OBVIOUS
  <2>1. Ends' = Ends
    BY <1>3 DEF Ends
  <2>2. Sized(m)' /\ Ends' = m
    BY <1>5, <1>6, <2>1
  <2> QED
    BY <2>2 DEF Sized
<1>8. asked' \in Nat /\ asked' <= MaxQueries
  BY DEF SerialInv
<1> QED
  BY <1>2, <1>3, <1>6, <1>7, <1>8 DEF SerialInv, BackendInv

\* RowsNext, EOF and Close
LEMMA CursorSteps ==
  ASSUME SerialInv, NEW c \in Conns, RowsNext(c) \/ EOF(c) \/ Close(c)
  PROVE  SerialInv' /\ [Next]_vars
<1>1. /\ Local(c, "rows")
      /\ UNCHANGED <<catalogue, heap, forest, process, asked, accepted, settled>>
  BY DEF RowsNext, EOF, Close
<1>2. ConnsInv'
  BY AskInv DEF Ask, SerialInv
<1>3. conns[c].pc = "rows" /\ DOMAIN conns[c] = DOMAIN Idle
  BY <1>1 DEF Local, SerialInv, ConnsInv
<1>4. ASSUME RowsNext(c)
      PROVE  \E r : Goto(c, r) /\ r.pc = "rows"
  <2>1. \A i, g : [conns[c] EXCEPT !.index = i, !.got = g].pc = "rows"
    BY <1>3 DEF Idle
  <2>2. \E i, g : Goto(c, [conns[c] EXCEPT !.index = i, !.got = g])
    BY <1>4, Zenon DEF RowsNext
  <2> QED
    BY <2>1, <2>2
<1>5. ASSUME EOF(c) PROVE \E r : Goto(c, r) /\ r.pc = "idle"
  BY <1>5 DEF EOF, Idle
<1>6. ASSUME Close(c) PROVE \E r : Goto(c, r) /\ r.pc = "rows"
  <2>1. \A i, b : [conns[c] EXCEPT !.index = i, !.closed = b].pc = "rows"
    BY <1>3 DEF Idle
  <2>2. \E i, b : Goto(c, [conns[c] EXCEPT !.index = i, !.closed = b])
    BY <1>6, Zenon DEF Close
  <2> QED
    BY <2>1, <2>2
<1>7. PICK r : Goto(c, r) /\ r.pc \in {"idle", "rows"}
  BY <1>4, <1>5, <1>6
<1> QED
  BY <1>1, <1>2, <1>7, CursorStep

------------------------------------------------------------------------------
(***************************************************************************)
(* The refinement.                                                         *)
(***************************************************************************)

\* Nothing is there at first.
LEMMA SerialInit == DriverInit => Init /\ SerialInv
<1> SUFFICES ASSUME DriverInit PROVE Init /\ SerialInv
  OBVIOUS
<1>1. /\ Init /\ catalogue = [n \in TableNames |-> none]
      /\ heap = <<>> /\ forest = <<>> /\ accepted = <<>>
      /\ conns = [c \in Conns |-> Idle] /\ process = "running" /\ asked = 0
  BY DEF DriverInit
<1>2. \A n \in TableNames : tables[n] = none /\ trees[n] = NoEntries
  BY <1>1 DEF Init, NoEntries
<1>3. \A c \in Conns : conns[c] = Idle /\ conns[c].pc = "idle"
  BY <1>1 DEF Idle
<1>4. ConnsInv /\ OneBusy /\ Quiet /\ Alive /\ \A c \in Conns : ~Busy(c)
  BY <1>1, <1>3 DEF ConnsInv, OneBusy, Quiet, Alive, Busy, Idle
<1>5. MemoryInv
  BY <1>1, EmptySequence DEF MemoryInv, NamesApart, TreesApart
<1>6. Settled
  <2>1. \A n \in TableNames : ShownAsSettled(n)
    BY <1>1, <1>2, NothingShown DEF ShownAsSettled
  <2>2. AllBalanced
    BY <1>1 DEF AllBalanced, Balanced
  <2> QED
    BY <2>1, <2>2 DEF Settled
<1>7. IndexInv /\ FiniteTrees /\ TreesMapped /\ reply.err # Panic
  <2>1. FiniteTrees
    BY <1>2, FS_EmptySet DEF FiniteTrees, NoEntries
  <2>2. TreesMapped /\ reply.err # Panic
    BY <1>1 DEF Init, TreesMapped, Reply, NoError, Panic
  <2> QED
    BY <1>1, <2>1, <2>2, InitInv
<1>8. Sized(Ends)
  BY <1>2 DEF Sized, Exists
<1>9. asked \in Nat /\ asked <= MaxQueries
  BY <1>1, QueriesAssumption
<1> QED
  BY <1>1, <1>4, <1>5, <1>6, <1>7, <1>8, <1>9 DEF SerialInv, BackendInv

\* A step of a method comes to an action of MemoryBackend, or to none.
LEMMA RunStep ==
  ASSUME OneAtATime, SerialInv, NEW c \in Conns, Run(c)
  PROVE  SerialInv' /\ [Next]_vars
<1>1. ASSUME NEW pc, Local(c, pc), pc \notin {"idle", "rows"}
      PROVE  conns[c].pc = pc /\ Progress(c)
  BY <1>1, Underway
<1>2. ASSUME CheckIndexName(c) PROVE SerialInv' /\ [Next]_vars
  <2>1. InstallingKey(c) \/ NamingIndex(c)
    BY <1>1, <1>2, Whereabouts DEF CheckIndexName
  <2> QED
    BY <1>2, <2>1, CheckKeyNameStep, CheckIndexNameStep
<1>3. ASSUME ReadIndexes(c) PROVE SerialInv' /\ [Next]_vars
  <2>1. InstallingKey(c) \/ InstallingIndex(c)
    BY <1>1, <1>3, Whereabouts DEF ReadIndexes
  <2> QED
    BY <1>3, <2>1, ReadNoIndexesStep, ReadIndexesStep
<1>4. ASSUME InstallIndex(c) PROVE SerialInv' /\ [Next]_vars
  <2>1. InstallingKey(c) \/ InstallingIndex(c)
    BY <1>1, <1>4, Whereabouts DEF InstallIndex
  <2> QED
    BY <1>4, <2>1, InstallKeyStep, InstallIndexStep
<1>5. ASSUME RangeOverRows(c) PROVE SerialInv' /\ [Next]_vars
  <2>1. KeyInstalled(c) \/ Filling(c)
    BY <1>1, <1>5, Whereabouts DEF RangeOverRows
  <2> QED
    BY <1>5, <2>1, RangeOverNoRows, RangeOverRowsStep
<1>6. ASSUME PassRow(c) PROVE SerialInv' /\ [Next]_vars
  <2>1. conns[c].pc = "add" /\ conns[c].todo # <<>> /\ Progress(c)
    BY <1>1, <1>6 DEF PassRow
  <2>2. Filling(c) \/ AddingRow(c)
    BY <2>1, Whereabouts DEF KeyInstalled
  <2> QED
    BY <1>6, <2>2, PassRowFilling, PassRowInserting
<1>7. ASSUME EvaluateKey(c) PROVE SerialInv' /\ [Next]_vars
  <2>1. Filling(c) \/ AddingRow(c)
    BY <1>1, <1>7, Whereabouts DEF EvaluateKey
  <2> QED
    BY <1>7, <2>1, EvaluateKeyFilling, EvaluateKeyInserting
<1>8. ASSUME LookUpKey(c) PROVE SerialInv' /\ [Next]_vars
  <2>1. Filling(c) \/ AddingRow(c)
    BY <1>1, <1>8, Whereabouts DEF LookUpKey
  <2> QED
    BY <1>8, <2>1, LookUpKeyFilling, LookUpKeyInserting
<1>9. ASSUME InsertEntry(c) PROVE SerialInv' /\ [Next]_vars
  <2>1. Filling(c) \/ AddingRow(c)
    BY <1>1, <1>9, Whereabouts DEF InsertEntry
  <2> QED
    BY <1>9, <2>1, InsertEntryFilling, InsertEntryInserting
<1>10. ASSUME EndAdd(c) PROVE SerialInv' /\ [Next]_vars
  <2>1. KeyInstalled(c) \/ Filling(c) \/ AddingRow(c)
    BY <1>1, <1>10, Whereabouts DEF EndAdd
  <2> QED
    BY <1>10, <2>1, EndAddInstalled, EndAddFilling, EndAddInserting
<1>11. ASSUME \/ CheckName(c) \/ EnterTable(c) \/ AddColumn(c) \/ AddType(c) \/ EndColumns(c)
              \/ LookUpDrop(c) \/ RemoveTable(c)
       PROVE  SerialInv' /\ [Next]_vars
  BY <1>11, CheckNameStep, EnterTableStep, AddColumnStep, AddTypeStep, EndColumnsStep,
     LookUpDropStep, RemoveTableStep
<1>12. ~UndoTable(c)
  BY <1>1, Whereabouts DEF UndoTable
<1>13. ASSUME \/ LookUpIndex(c) \/ LookUpInsert(c) \/ CheckValues(c) \/ ReadRows(c)
              \/ StoreRows(c) \/ RangeOverIndexes(c) \/ TakeBack(c) \/ StoreShorter(c)
       PROVE  SerialInv' /\ [Next]_vars
  BY <1>13, LookUpIndexStep, LookUpInsertStep, CheckValuesStep, ReadRowsStep, StoreRowsStep,
     RangeOverIndexesStep, TakeBackStep, StoreShorterStep
<1>14. ASSUME LookUpSelect(c) \/ Narrow(c) \/ VisitRow(c) \/ EndScan(c)
       PROVE  SerialInv' /\ [Next]_vars
  BY <1>14, LookUpSelectStep, NarrowStep, VisitRowStep, EndScanStep
<1> QED
  BY <1>2, <1>3, <1>4, <1>5, <1>6, <1>7, <1>8, <1>9, <1>10, <1>11, <1>12, <1>13, <1>14 DEF Run

\* A step that changes nothing leaves the method where it is.
LEMMA ProgressKept ==
  ASSUME NEW c, Progress(c),
         UNCHANGED <<settled, catalogue, heap, forest, conns, process, asked, accepted>>
  PROVE  Progress(c)'
<1>1. UNCHANGED <<tables, trees, catalogue, heap, forest, conns, accepted>>
  BY DEF settled, vars
<1>2. UNCHANGED <<Stmt(c), AllBalanced, Settled>>
  BY <1>1 DEF Stmt, AllBalanced, Balanced, Settled, ShownAsSettled, Shown
<1>3. \A n, t, f : Holds(c, n, t, f)' <=> Holds(c, n, t, f)
  BY <1>1 DEF Holds, ShownAsSettled, Shown
<1>4. (Executing(c) => Executing(c)') /\ (Entering(c) => Entering(c)')
      /\ (Removing(c) => Removing(c)')
  BY <1>1, <1>2 DEF Executing, Entering, Removing
<1>5. UNCHANGED Creating(c)
  BY <1>1, <1>2 DEF Creating
<1>6. AddingColumns(c) => AddingColumns(c)'
  BY <1>1, <1>2, <1>3, <1>5 DEF AddingColumns
<1>7. AddingType(c) => AddingType(c)'
  BY <1>1, <1>2, <1>3, <1>5 DEF AddingType
<1>8. InstallingKey(c) => InstallingKey(c)'
  BY <1>1, <1>2, <1>3, <1>5 DEF InstallingKey
<1>9. KeyInstalled(c) => KeyInstalled(c)'
  BY <1>1, <1>2, <1>3, <1>5 DEF KeyInstalled
<1>10. UNCHANGED Indexing(c)
  BY <1>1, <1>2 DEF Indexing, Exists
<1>11. InstallingIndex(c) => InstallingIndex(c)'
  BY <1>1, <1>2, <1>10 DEF InstallingIndex
<1>12. NamingIndex(c) => NamingIndex(c)'
  BY <1>1, <1>2 DEF NamingIndex, Exists
<1>13. Filling(c) => Filling(c)'
  BY <1>1, <1>2, <1>3, <1>10 DEF Filling
<1>14. UNCHANGED Inserting(c)
  BY <1>1, <1>2 DEF Inserting, Exists
<1>15. Valuing(c) => Valuing(c)'
  BY <1>1, <1>2 DEF Valuing, Exists
<1>16. AppendingRow(c) => AppendingRow(c)'
  BY <1>1, <1>2, <1>14 DEF AppendingRow
<1>17. AddingRow(c) => AddingRow(c)'
  <2> SUFFICES ASSUME AddingRow(c) PROVE AddingRow(c)'
    OBVIOUS
  <2> PICK n, t, row, p, r :
        /\ n = Stmt(c).table /\ t = tables[n] /\ row = conns[c].row
        /\ p = conns[c].table /\ r = conns[c]
    OBVIOUS
  <2>1. PICK m \in 0 .. Len(t.indexes) :
          /\ Holds(c, n, WithNewRow(t, row), Added(n, row, Len(t.rows), m))
          /\ \A k \in 1 .. m : InsertError(n, row, k) = NoError
          /\ AmongIndexes(r, t, heap[p].indexes, m, InsertError(n, row, m + 1),
                          IndexKey(t, row, t.indexes[m + 1].exp))
    BY RowGoingOn
  <2>2. Holds(c, n, WithNewRow(t, row), Added(n, row, Len(t.rows), m))'
    <3> PICK u, f : u = WithNewRow(t, row) /\ f = Added(n, row, Len(t.rows), m)
      OBVIOUS
    <3>1. Holds(c, n, u, f)'
      BY <1>3, <2>1
    <3>2. f = Added(n, row, Len(t.rows), m)'
      BY <1>1 DEF Added
    <3> QED
      BY <3>1, <3>2
  <2>3. /\ Inserting(c) /\ heap[p].rows = Append(accepted[p], row)
        /\ \A q \in DOMAIN heap \ {p} : Balanced(q)
    BY DEF AddingRow
  <2>4. conns'[c] = r /\ r.call = conns[c].call /\ r.row = row /\ r.table = p
    BY <1>1
  <2>5. StillInserting(c, n, t, row, p, r, m)
    BY <1>1, <2>1, <2>2, <2>3, <2>4 DEF StillInserting
  <2> QED
    BY ONLY <2>5, RowGoesOn
<1>18. UNCHANGED Selecting(c)
  BY <1>1, <1>2 DEF Selecting, Exists
<1>19. Narrowing(c) => Narrowing(c)'
  BY <1>1, <1>18 DEF Narrowing
<1>20. Scanning(c) => Scanning(c)'
  BY <1>1, <1>2, <1>18 DEF Scanning, From, FromTrees
<1> QED
  BY <1>4, <1>6, <1>7, <1>8, <1>9, <1>11, <1>12, <1>13, <1>15, <1>16, <1>17, <1>19, <1>20
     DEF Progress

\* Any step
LEMMA SerialStep ==
  ASSUME OneAtATime, SerialInv, [DriverNext]_driverVars
  PROVE  SerialInv' /\ [Next]_vars
<1>1. ASSUME NEW c \in Conns, Run(c) PROVE SerialInv' /\ [Next]_vars
  BY <1>1, RunStep
<1>2. ASSUME NEW c \in Conns, Ask(c) PROVE SerialInv' /\ [Next]_vars
  <2>1. ASSUME NEW q \in Queries, Query(c, q) PROVE SerialInv' /\ [Next]_vars
    BY <2>1, QueryStep
  <2>2. ASSUME NotSupported(c) PROVE SerialInv' /\ [Next]_vars
    BY <2>2, NotSupportedStep
  <2>3. ASSUME RowsNext(c) \/ EOF(c) \/ Close(c) PROVE SerialInv' /\ [Next]_vars
    BY <2>3, CursorSteps
  <2> QED
    BY <1>2, <2>1, <2>2, <2>3 DEF Ask
<1>3. ASSUME UNCHANGED driverVars PROVE SerialInv' /\ [Next]_vars
  <2>1. UNCHANGED <<settled, catalogue, heap, forest, conns, process, asked, accepted>>
    BY <1>3 DEF driverVars
  <2>2. /\ MemoryInv' /\ UNCHANGED vars /\ IndexInv' /\ FiniteTrees' /\ TreesMapped'
        /\ (Settled => Settled') /\ (\A m : Sized(m) => Sized(m)') /\ reply'.err = reply.err
    BY <2>1, Untouched
  <2>3. Ends' = Ends
    BY <2>1 DEF Ends, Busy
  <2>4. Sized(Ends)'
    <3> PICK m : m = Ends
      OBVIOUS
    <3>1. Sized(m)' /\ Ends' = m
      BY <2>2, <2>3 DEF SerialInv, BackendInv
    <3> QED
      BY <3>1 DEF Sized
  <2>5. ConnsInv' /\ OneBusy'
    BY <2>1 DEF SerialInv, ConnsInv, OneBusy
  <2>6. ASSUME NEW c, Progress(c) PROVE Progress(c)'
    BY <2>1, <2>6, ProgressKept
  <2> QED
    BY <2>1, <2>2, <2>4, <2>5, <2>6 DEF SerialInv, BackendInv, Alive, Quiet, Busy
<1> QED
  BY <1>1, <1>2, <1>3 DEF DriverNext

(***************************************************************************)
(* With one connection in use at a time, however many there are and        *)
(* whatever they ask, the steps of each method come to one action of       *)
(* MemoryBackend: each read of the memory is still good when the method    *)
(* uses it.  (driver.go, memory.go:565-830)                                *)
(***************************************************************************)
THEOREM DriverCallsBackend ==
  ASSUME OneAtATime
  PROVE  DriverSpec => CallsBackend
<1>1. DriverInit => Init /\ SerialInv
  BY SerialInit
<1>2. SerialInv /\ [DriverNext]_driverVars => SerialInv' /\ [Next]_vars
  BY SerialStep
<1> QED
  BY <1>1, <1>2, PTL DEF DriverSpec, CallsBackend, Spec

(***************************************************************************)
(* With one connection in use at a time, a table holds the rows whose      *)
(* INSERT returned no error whenever no statement is being executed: none  *)
(* is lost, and none that was refused stays.  (memory.go:699)              *)
(***************************************************************************)
THEOREM NoRowLost ==
  ASSUME OneAtATime
  PROVE  DriverSpec => []RowsAccounted
<1>1. DriverInit => SerialInv
  BY SerialInit
<1>2. SerialInv /\ [DriverNext]_driverVars => SerialInv'
  BY SerialStep
<1>3. SerialInv => RowsAccounted
  <2> SUFFICES ASSUME SerialInv, Quiet PROVE \A p \in DOMAIN heap : heap[p].rows = accepted[p]
    BY DEF RowsAccounted
  <2>1. Settled
    BY DEF SerialInv, Quiet
  <2> QED
    BY <2>1 DEF Settled, AllBalanced, Balanced
<1> QED
  BY <1>1, <1>2, <1>3, PTL DEF DriverSpec

------------------------------------------------------------------------------
(***************************************************************************)
(* Primary keys.                                                           *)
(***************************************************************************)

\* A primary key's index is unique and was granted, with its table.
PrimaryGranted ==
  \A n \in TableNames : Exists(n) =>
    \A k \in DOMAIN tables[n].indexes : tables[n].indexes[k].primaryKey =>
      tables[n].indexes[k].unique /\ k \in GrantedIndexes(n)

LEMMA StepKeepsGranted ==
  ASSUME IndexInv, PrimaryGranted, [Next]_vars
  PROVE  PrimaryGranted'
<1> SUFFICES ASSUME NEW n \in TableNames, Exists(n)',
                    NEW k \in DOMAIN tables'[n].indexes, tables'[n].indexes[k].primaryKey
             PROVE  /\ tables'[n].indexes[k].unique
                    /\ <<n, tables'[n].indexes[k].name>> \in granted'
  BY DEF PrimaryGranted, GrantedIndexes
<1>1. CASE Made(n)
  <2>1. PICK s \in CreateTables :
          /\ tables'[n] = NewTable(n, s.cols)
          /\ \A x \in ToSet(PrimaryKeyIndexes(n, s.cols)) : <<n, x.name>> \in granted'
    BY <1>1 DEF Made
  <2>2. tables'[n].indexes = PrimaryKeyIndexes(n, s.cols)
    BY <2>1 DEF NewTable
  <2>3. tables'[n].indexes[k].unique
    <3> PICK xs : xs = PrimaryKeyIndexes(n, s.cols)
      OBVIOUS
    <3>1. \/ xs = <<>>
          \/ \E x, e : xs = <<[name |-> x, exp |-> e, unique |-> TRUE, primaryKey |-> TRUE]>>
      BY Zenon DEF PrimaryKeyIndexes
    <3>2. k \in DOMAIN xs
      BY <2>2
    <3>3. xs[k].unique
      BY ONLY <3>1, <3>2
    <3> QED
      BY <2>2, <3>3
  <2> QED
    BY <2>1, <2>2, <2>3 DEF ToSet
<1>2. CASE Grown(n)
  <2>1. \A l \in DOMAIN tables[n].indexes : tables[n].indexes[l].primaryKey =>
          tables[n].indexes[l].unique /\ <<n, tables[n].indexes[l].name>> \in granted'
    BY <1>2 DEF Grown, PrimaryGranted, GrantedIndexes
  <2>2. k \in DOMAIN tables[n].indexes /\ tables'[n].indexes[k] = tables[n].indexes[k]
    <3>1. CASE tables'[n].indexes = tables[n].indexes
      BY <3>1
    <3>2. CASE \E x \in Index : ~x.primaryKey /\ tables'[n].indexes = Append(tables[n].indexes, x)
      <4>1. PICK x \in Index : ~x.primaryKey /\ tables'[n].indexes = Append(tables[n].indexes, x)
        BY <3>2
      <4>2. tables[n].indexes \in Seq(Index)
        BY <1>2, TableShape DEF IndexInv, Grown
      <4>3. k \in 1 .. Len(tables[n].indexes) + 1
        BY <4>1, <4>2
      <4>4. k # Len(tables[n].indexes) + 1
        BY <4>1, <4>2
      <4> QED
        BY <4>1, <4>2, <4>3, <4>4
    <3> QED
      BY <1>2, <3>1, <3>2 DEF Grown
  <2> QED
    BY <2>1, <2>2
<1> QED
  BY <1>1, <1>2, StepGrows DEF GrownOrMade

\* No two rows have the same primary key.
KeysApart(t) ==
  \A k \in DOMAIN t.indexes : t.indexes[k].primaryKey =>
    \A i, j \in DOMAIN t.rows : i # j =>
      ~SameKey(IndexKey(t, t.rows[i], t.indexes[k].exp).value,
               IndexKey(t, t.rows[j], t.indexes[k].exp).value)

\* Where there is no statement under way, the table of a name has them apart.
LEMMA NameKeysApart ==
  ASSUME IndexInv, PrimaryGranted, MemoryInv, NEW n \in TableNames, ShownAsSettled(n),
         catalogue[n] # none
  PROVE  KeysApart(heap[catalogue[n]])
<1> PICK t, u : t = heap[catalogue[n]] /\ u = tables[n]
  OBVIOUS
<1>1. t \in HeapTable /\ u = Plain(t)
  BY PointerShape, HeapShape, ShownAt DEF ShownAsSettled
<1>2. /\ u # none /\ u.columns = t.columns /\ u.columnTypes = t.columnTypes
      /\ u.rows = t.rows /\ DOMAIN u.indexes = DOMAIN t.indexes
      /\ \A k \in DOMAIN t.indexes : u.indexes[k] = PlainIndex(t.indexes[k])
  BY <1>1, PlainTable
<1>3. \A k \in DOMAIN t.indexes :
        u.indexes[k].primaryKey = t.indexes[k].primaryKey /\ u.indexes[k].exp = t.indexes[k].exp
  <2>1. \A x : PlainIndex(x).primaryKey = x.primaryKey /\ PlainIndex(x).exp = x.exp
    BY DEF PlainIndex
  <2> QED
    BY <1>2, <2>1
<1>4. \A k \in DOMAIN u.indexes : u.indexes[k].primaryKey =>
        \A i, j \in DOMAIN u.rows : i # j =>
          ~SameKey(IndexKey(u, u.rows[i], u.indexes[k].exp).value,
                   IndexKey(u, u.rows[j], u.indexes[k].exp).value)
  <2>1. UniqueEnforced
    BY TreesMakeUnique
  <2> QED
    BY <1>2, <2>1 DEF UniqueEnforced, PrimaryGranted, Exists, Key
<1>5. \A row, e : IndexKey(u, row, e) = IndexKey(t, row, e)
  BY <1>2 DEF IndexKey
<1> QED
  BY <1>2, <1>3, <1>4, <1>5 DEF KeysApart

\* A name leads to the table.
Named(p) == \E n \in TableNames : catalogue[n] = p

\* What a method changes is a table that has a name.
LEMMA HeldNamed ==
  ASSUME SerialInv, NEW c \in Conns, NEW pc, Local(c, pc),
         pc \in {"columns", "type", "join", "store", "reslice"}
  PROVE  conns[c].table \in DOMAIN heap /\ Named(conns[c].table)
<1>1. /\ Alive /\ Busy(c) /\ conns[c].pc = pc /\ Progress(c) /\ conns[c].call \in Statements
  BY Underway
<1>2. \/ AddingColumns(c) \/ AddingType(c) \/ InstallingKey(c) \/ InstallingIndex(c)
      \/ AppendingRow(c) \/ AddingRow(c)
  BY <1>1, Whereabouts
<1>3. MemoryInv
  BY DEF SerialInv
<1>4. ASSUME NEW n \in TableNames, conns[c].table = catalogue[n], catalogue[n] # none
      PROVE  conns[c].table \in DOMAIN heap /\ Named(conns[c].table)
  BY <1>3, <1>4, PointerShape DEF Named
<1>5. CASE AddingColumns(c) \/ AddingType(c) \/ InstallingKey(c)
  <2>1. /\ conns[c].table = catalogue[Stmt(c).table] /\ catalogue[Stmt(c).table] # none
        /\ conns[c].call.kind = "create table"
    BY <1>5 DEF AddingColumns, AddingType, InstallingKey, Creating, Holds
  <2>2. Stmt(c) \in CreateTables
    BY <1>1, <2>1, StatementShape DEF Stmt
  <2> QED
    BY <1>4, <2>1, <2>2, StatementsAssumption
<1>6. CASE InstallingIndex(c)
  <2>1. /\ conns[c].table = catalogue[Stmt(c).table] /\ Exists(Stmt(c).table) /\ Settled
        /\ conns[c].call.kind = "create index"
    BY <1>6 DEF InstallingIndex, Indexing
  <2>2. Stmt(c).table \in TableNames
    BY <1>1, <2>1, StatementShape, StatementsAssumption DEF Stmt
  <2>3. catalogue[Stmt(c).table] # none
    BY <2>1, <2>2, ShownAt DEF Settled, ShownAsSettled, Exists
  <2> QED
    BY <1>4, <2>1, <2>2, <2>3
<1>7. CASE AppendingRow(c) \/ AddingRow(c)
  <2>1. Inserting(c)
    BY <1>7 DEF AppendingRow, AddingRow
  <2>2. conns[c].call.kind = "insert" /\ Exists(Stmt(c).table)
    BY <2>1 DEF Inserting
  <2>3. Stmt(c).table \in TableNames
    BY <1>1, <2>2, StatementShape, StatementsAssumption DEF Stmt
  <2>4. conns[c].table = catalogue[Stmt(c).table] /\ catalogue[Stmt(c).table] # none
    <3>1. CASE AppendingRow(c)
      BY <2>2, <2>3, <3>1, ShownAt DEF AppendingRow, Settled, ShownAsSettled, Exists
    <3>2. CASE AddingRow(c)
      BY <3>2 DEF AddingRow, Holds
    <3> QED
      BY <1>7, <3>1, <3>2
  <2> QED
    BY <1>4, <2>3, <2>4
<1> QED
  BY <1>2, <1>5, <1>6, <1>7

\* A table without a name stays as it is; one that loses its name has its
\* keys apart.
LEMMA UnnamedStay ==
  ASSUME SerialInv, PrimaryGranted, NEW c \in Conns, Run(c) \/ Ask(c),
         NEW p \in DOMAIN heap', ~Named(p)'
  PROVE  p \in DOMAIN heap /\ ((~Named(p) /\ heap'[p] = heap[p]) \/ KeysApart(heap'[p]))
<1>1. CASE UNCHANGED <<catalogue, heap>>
  BY <1>1 DEF Named
<1>2. MemoryInv /\ IndexInv /\ catalogue \in [TableNames -> DOMAIN heap \cup {none}]
  BY DEF SerialInv, BackendInv, MemoryInv
<1>3. CASE EnterTable(c)
  <2> PICK n : n = Stmt(c).table
    OBVIOUS
  <2>1. n \in TableNames /\ catalogue[n] = none
    <3>1. Local(c, "enter") /\ "enter" \notin {"idle", "rows"}
      BY <1>3 DEF EnterTable
    <3>2. Entering(c) /\ conns[c].call \in Statements
      BY <3>1, Underway, Whereabouts
    <3>3. Stmt(c) \in CreateTables
      BY <3>2, StatementShape DEF Entering, Stmt
    <3> QED
      BY <3>2, <3>3, StatementsAssumption DEF Entering
  <2>2. /\ heap' = Append(heap, EmptyTable)
        /\ catalogue' = [catalogue EXCEPT ![n] = Len(heap) + 1]
    BY <1>3 DEF EnterTable
  <2>3. heap \in Seq(HeapTable)
    BY <1>2 DEF MemoryInv
  <2>4. catalogue'[n] = Len(heap) + 1
    BY <1>2, <2>1, <2>2
  <2>5. p # Len(heap) + 1
    BY <2>1, <2>4 DEF Named
  <2>6. p \in DOMAIN heap /\ heap'[p] = heap[p]
    BY <2>2, <2>3, <2>5
  <2>7. \A m \in TableNames : catalogue'[m] = catalogue[m] \/ (m = n /\ catalogue[m] = none)
    BY <1>2, <2>1, <2>2
  <2>8. p # none
    BY <2>3, <2>6, PointersAssumption
  <2>9. ~Named(p)
    BY <2>7, <2>8 DEF Named
  <2> QED
    BY <2>6, <2>9
<1>4. ASSUME catalogue' = catalogue, Named(conns[c].table), NEW t,
             heap' = [heap EXCEPT ![conns[c].table] = t]
      PROVE  p \in DOMAIN heap /\ ~Named(p) /\ heap'[p] = heap[p]
  BY <1>4 DEF Named
<1>5. CASE InstallIndex(c) \/ StoreRows(c) \/ StoreShorter(c)
  <2>1. PICK pc \in {"join", "store", "reslice"} : Local(c, pc)
    BY <1>5 DEF InstallIndex, StoreRows, StoreShorter
  <2>2. Named(conns[c].table)
    BY <2>1, HeldNamed
  <2>3. catalogue' = catalogue
    BY <1>5 DEF InstallIndex, StoreRows, StoreShorter
  <2>4. \E t : heap' = [heap EXCEPT ![conns[c].table] = t]
    BY <1>5 DEF InstallIndex, StoreRows, StoreShorter
  <2> QED
    BY <1>4, <2>2, <2>3, <2>4
<1>6. CASE AddColumn(c) \/ AddType(c)
  <2> PICK n, cols : n = Stmt(c).table /\ cols = Stmt(c).cols
    OBVIOUS
  <2>1. PICK pc \in {"columns", "type"} : Local(c, pc)
    BY <1>6 DEF AddColumn, AddType
  <2>2. conns[c].pc = pc /\ Progress(c) /\ conns[c].call \in Statements
    BY <2>1, Underway
  <2>3. AddingColumns(c) \/ AddingType(c)
    BY <2>1, <2>2, Whereabouts
  <2> PICK q : q = conns[c].table
    OBVIOUS
  <2>4. n \in TableNames
    <3>1. conns[c].call.kind = "create table"
      BY <2>3 DEF AddingColumns, AddingType, Creating
    <3>2. Stmt(c) \in CreateTables
      BY <2>2, <3>1, StatementShape DEF Stmt
    <3> QED
      BY <3>2, StatementsAssumption
  <2>5. /\ q = catalogue[n] /\ catalogue[n] # none
        /\ \E i : Plain(heap[q]) = FirstColumns(cols, i) \/ Plain(heap[q]) = HalfColumns(cols, i)
    BY <2>3, <2>4, ShownAt DEF AddingColumns, AddingType, Holds
  <2>6. q \in DOMAIN heap /\ Named(q)
    BY <2>1, HeldNamed
  <2>7. DOMAIN heap[q].indexes = {}
    <3>1. PICK i : Plain(heap[q]) = FirstColumns(cols, i) \/ Plain(heap[q]) = HalfColumns(cols, i)
      BY <2>5
    <3>2. Plain(heap[q]).indexes = <<>>
      BY <3>1 DEF FirstColumns, HalfColumns
    <3>3. DOMAIN Plain(heap[q]).indexes = DOMAIN heap[q].indexes
      BY DEF Plain
    <3> QED
      BY <3>2, <3>3
  <2>8. /\ DOMAIN heap' = DOMAIN heap /\ \A r \in DOMAIN heap \ {q} : heap'[r] = heap[r]
        /\ DOMAIN heap'[q].indexes = DOMAIN heap[q].indexes
        /\ catalogue' = catalogue \/ catalogue' = [catalogue EXCEPT ![n] = none]
    <3>1. heap[q] \in HeapTable
      BY <1>2, <2>6, HeapShape
    <3>2. \/ heap' = heap
          \/ \E x : heap' = [heap EXCEPT ![q].columns = x]
          \/ \E x : heap' = [heap EXCEPT ![q].columnTypes = x]
      BY <1>6, Zenon DEF AddColumn, AddType, DeleteTable
    <3>3. catalogue' = catalogue \/ catalogue' = [catalogue EXCEPT ![n] = none]
      BY <1>6, Zenon DEF AddColumn, AddType, DeleteTable
    <3>4. /\ DOMAIN heap' = DOMAIN heap /\ \A r \in DOMAIN heap \ {q} : heap'[r] = heap[r]
          /\ heap'[q].indexes = heap[q].indexes
      BY ONLY <2>6, <3>1, <3>2 DEF HeapTable
    <3> QED
      BY <3>3, <3>4
  <2>9. p \in DOMAIN heap /\ (p # q => heap'[p] = heap[p]) /\ DOMAIN heap'[q].indexes = {}
    BY <2>6, <2>7, <2>8
  <2>10. CASE p = q
    BY <2>9, <2>10 DEF KeysApart
  <2>11. CASE p # q
    <3>1. \A m \in TableNames : catalogue[m] = p => catalogue'[m] = p
      BY <1>2, <2>5, <2>8, <2>11
    <3> QED
      BY <2>9, <2>11, <3>1 DEF Named
  <2> QED
    BY <2>10, <2>11
<1>7. CASE RemoveTable(c)
  <2> PICK n : n = Stmt(c).table
    OBVIOUS
  <2>1. Local(c, "remove") /\ heap' = heap /\ catalogue' = [catalogue EXCEPT ![n] = none]
    BY <1>7 DEF RemoveTable, DeleteTable
  <2>2. Settled /\ n \in TableNames
    <3>1. "remove" \notin {"idle", "rows"}
      OBVIOUS
    <3>2. Removing(c) /\ conns[c].call \in Statements
      BY <2>1, <3>1, Underway, Whereabouts
    <3>3. Stmt(c) \in DropTables
      BY <3>2, StatementShape DEF Removing, Stmt
    <3> QED
      BY <3>2, <3>3, StatementsAssumption DEF Removing
  <2>3. CASE p = catalogue[n]
    <3>1. p # none
      <4>1. p \in DOMAIN heap
        BY <2>1
      <4>2. p \in 1 .. Len(heap) /\ Len(heap) \in Nat
        BY <1>2, <4>1, HeapShape
      <4> QED
        BY <4>2, PointersAssumption
    <3>2. KeysApart(heap[p])
      BY <1>2, <2>2, <2>3, <3>1, NameKeysApart DEF Settled
    <3> QED
      BY <2>1, <3>2
  <2>4. CASE p # catalogue[n]
    <3>1. \A m \in TableNames : catalogue[m] = p => catalogue'[m] = p
      BY <1>2, <2>1, <2>4
    <3> QED
      BY <2>1, <3>1 DEF Named
  <2> QED
    BY <2>3, <2>4
<1>8. CASE \/ EndColumns(c) \/ CheckIndexName(c) \/ EvaluateKey(c) \/ LookUpKey(c)
           \/ TakeBack(c)
  BY <1>1, <1>8, Zenon DEF EndColumns, CheckIndexName, EvaluateKey, LookUpKey, TakeBack, Crash
<1>9. CASE \/ CheckName(c) \/ LookUpDrop(c) \/ LookUpIndex(c) \/ ReadIndexes(c)
           \/ RangeOverRows(c)
  BY <1>1, <1>9, Zenon DEF CheckName, LookUpDrop, LookUpIndex, ReadIndexes, RangeOverRows
<1>10. CASE \/ LookUpInsert(c) \/ CheckValues(c) \/ ReadRows(c) \/ RangeOverIndexes(c)
            \/ PassRow(c) \/ InsertEntry(c) \/ EndAdd(c)
  BY <1>1, <1>10, Zenon DEF LookUpInsert, CheckValues, ReadRows, RangeOverIndexes, PassRow,
     InsertEntry, EndAdd
<1>11. CASE LookUpSelect(c) \/ Narrow(c) \/ VisitRow(c) \/ EndScan(c)
  BY <1>1, <1>11, Zenon DEF LookUpSelect, Narrow, VisitRow, EndScan, Crash
<1>12. CASE Ask(c)
  BY <1>1, <1>12 DEF Ask, Query, NotSupported, RowsNext, EOF, Close, Crash
<1>13. ~UndoTable(c)
  <2>1. ASSUME Local(c, "undo") PROVE FALSE
    <3>1. "undo" \notin {"idle", "rows"}
      OBVIOUS
    <3> QED
      BY <2>1, <3>1, Underway, Whereabouts
  <2> QED
    BY <2>1 DEF UndoTable
<1> QED
  BY <1>3, <1>5, <1>6, <1>7, <1>8, <1>9, <1>10, <1>11, <1>12, <1>13 DEF Run

\* A table that has lost its name has its keys apart, and keeps them so.
KeyInv ==
  SerialInv /\ PrimaryGranted /\ \A p \in DOMAIN heap : Named(p) \/ KeysApart(heap[p])

(***************************************************************************)
(* With one connection in use at a time, no two rows of a table have the   *)
(* same primary key whenever no statement is being executed, dropped       *)
(* tables included, whatever was refused before.  (memory.go:699-730)      *)
(***************************************************************************)
THEOREM PrimaryKeysDistinct ==
  ASSUME OneAtATime
  PROVE  DriverSpec => []KeysDistinct
<1>1. DriverInit => KeyInv
  <2> SUFFICES ASSUME DriverInit PROVE KeyInv
    OBVIOUS
  <2>1. SerialInv /\ Init
    BY SerialInit
  <2>2. PrimaryGranted
    BY <2>1 DEF PrimaryGranted, Init, Exists
  <2>3. DOMAIN heap = {}
    BY DEF DriverInit
  <2> QED
    BY <2>1, <2>2, <2>3 DEF KeyInv
<1>2. ASSUME KeyInv, [DriverNext]_driverVars PROVE KeyInv'
  <2>1. SerialInv' /\ [Next]_vars
    BY <1>2, SerialStep DEF KeyInv
  <2>2. PrimaryGranted'
    BY <1>2, <2>1, StepKeepsGranted DEF KeyInv, SerialInv, BackendInv
  <2>3. ASSUME NEW p \in DOMAIN heap', ~Named(p)' PROVE KeysApart(heap'[p])
    <3>1. CASE UNCHANGED driverVars
      BY <1>2, <2>3, <3>1 DEF KeyInv, Named, driverVars
    <3>2. ASSUME NEW c \in Conns, Run(c) \/ Ask(c) PROVE KeysApart(heap'[p])
      BY <1>2, <2>3, <3>2, UnnamedStay DEF KeyInv
    <3> QED
      BY <1>2, <3>1, <3>2 DEF DriverNext
  <2>4. \A p \in DOMAIN heap' : KeysApart(heap'[p]) = KeysApart(heap[p])'
    BY DEF KeysApart, IndexKey
  <2> QED
    BY <2>1, <2>2, <2>3, <2>4 DEF KeyInv
<1>3. KeyInv => KeysDistinct
  <2> SUFFICES ASSUME KeyInv, Quiet, NEW p \in DOMAIN heap PROVE KeysApart(heap[p])
    BY DEF KeysDistinct, KeysApart
  <2>1. SerialInv /\ Settled /\ IndexInv /\ PrimaryGranted /\ MemoryInv
    BY DEF KeyInv, SerialInv, BackendInv, Quiet
  <2>2. ASSUME NEW n \in TableNames, catalogue[n] = p PROVE KeysApart(heap[p])
    <3>1. p # none
      BY <2>1, HeapShape, PointersAssumption
    <3> QED
      BY <2>1, <2>2, <3>1, NameKeysApart DEF Settled
  <2> QED
    BY <2>2 DEF KeyInv, Named
<1> QED
  BY <1>1, <1>2, <1>3, PTL DEF DriverSpec
=============================================================================
