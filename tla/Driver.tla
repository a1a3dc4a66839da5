------------------------------- MODULE Driver -------------------------------
(***************************************************************************)
(* driver.go over memory.go: goroutines that query through database/sql,   *)
(* each by a connection of its own, on the one backend init registers.  A  *)
(* Conn has no state but that backend, and which one a goroutine is given  *)
(* makes no difference.  Nothing is locked, and MemoryBackend's actions    *)
(* come about step by step: a step reads the catalogue, a slice of a table *)
(* or a tree into local variables, or stores one of them, and what it read *)
(* may be stale when it is used.                                           *)
(*                                                                         *)
(* Three things are one step though they read more than once: evaluating   *)
(* an expression on a row, narrowing a table by its indexes (Narrow), and  *)
(* t.rows[:len(t.rows)-1].  The columns of a table are stored by the       *)
(* goroutine that creates it alone, so its append to them is one step too. *)
(*                                                                         *)
(* A table and a tree are reached by pointers, the positions in heap and   *)
(* forest: a table that is dropped stays there for those who still use it. *)
(* A slice is a value: what two that share an array do to each other is    *)
(* left out.                                                               *)
(***************************************************************************)
EXTENDS MemoryBackend

CONSTANTS
  Conns,       \* goroutines, with the connection each one uses
  AtOnce,      \* how many of them may be inside a query or its answer at once
  Queries,     \* what they ask: lists of statements, or one of the next two
  parseError, unsupported,
  MaxQueries   \* bound: queries asked in all

ASSUME QueriesAssumption ==
  /\ IsFiniteSet(Conns) /\ MaxQueries \in Nat
  /\ Queries \subseteq Seq(Statements) \cup {parseError, unsupported}

\* Neither Go's nil nor the absence of a table is a pointer.
ASSUME PointersAssumption == none \notin Nat /\ nil \notin Nat

VARIABLES
  catalogue,   \* mb.tables: the pointer of each name's table, or none
  heap,        \* the tables; an index has a pointer to its tree
  forest,      \* the trees
  conns,       \* where each connection is
  process,     \* "running" or "panicked"
  asked,       \* the number of queries
  accepted     \* history: per table, the rows whose INSERT returned no error

\* History, in the variables of MemoryBackend: the backend as the last
\* statement to end left it, and what its method returned
settled == vars

driverVars == <<settled, catalogue, heap, forest, conns, process, asked, accepted>>

(***************************************************************************)
(* A connection: its program counter pc, its query's statement and what    *)
(* it holds in local variables.                                            *)
(***************************************************************************)
Idle ==
  [pc |-> "idle", call |-> nil, table |-> nil, row |-> nil, slice |-> <<>>, rows |-> <<>>,
   todo |-> <<>>, key |-> nil, at |-> nil, err |-> NoError, live |-> FALSE, window |-> nil, acc |-> nil,
   columns |-> <<>>, index |-> 0, got |-> <<>>, closed |-> FALSE]

EmptyTable == [columns |-> <<>>, columnTypes |-> <<>>, rows |-> <<>>, indexes |-> <<>>]

\* An index and a table as MemoryBackend has them, and the trees of a table
PlainIndex(x) ==
  [name |-> x.name, exp |-> x.exp, unique |-> x.unique, primaryKey |-> x.primaryKey]

Plain(t) ==
  [columns |-> t.columns, columnTypes |-> t.columnTypes, rows |-> t.rows,
   indexes |-> [k \in DOMAIN t.indexes |-> PlainIndex(t.indexes[k])]]

TreesOf(t, fs) ==
  [x \in IndexNames |->
     UNION {fs[t.indexes[k].tree] : k \in {k \in DOMAIN t.indexes : t.indexes[k].name = x}}]

\* The tables and trees of the catalogue
TablesAt(names, ts) ==
  [n \in TableNames |-> IF names[n] = none THEN none ELSE Plain(ts[names[n]])]

TreesAt(names, ts, fs) ==
  [n \in TableNames |-> IF names[n] = none THEN [x \in IndexNames |-> {}]
                        ELSE TreesOf(ts[names[n]], fs)]

\* The names of the indexes a call has created, if it returns err
Granted(call, err) ==
  LET s == call.stmt
  IN  IF err # NoError THEN granted
      ELSE IF call.kind = "create index" THEN granted \cup {<<s.table, s.name>>}
      ELSE IF call.kind = "create table"
      THEN granted \cup {<<s.table, x.name>> : x \in ToSet(PrimaryKeyIndexes(s.table, s.cols))}
      ELSE IF call.kind = "drop table" THEN {g \in granted : g[1] # s.table}
      ELSE granted

------------------------------------------------------------------------------
(* What steps have in common.                                              *)

Alive == process = "running"

Local(c, pc) == Alive /\ conns[c].pc = pc

Executes(c, kind) == Local(c, "execute") /\ conns[c].call.kind = kind

Stmt(c) == conns[c].call.stmt

Pointer(c) == catalogue[Stmt(c).table]

Goto(c, local) == conns' = [conns EXCEPT ![c] = local]

Settle(c, answer) ==
  /\ tables' = TablesAt(catalogue', heap')
  /\ trees' = TreesAt(catalogue', heap', forest')
  /\ granted' = Granted(conns[c].call, answer.err)
  /\ reply' = answer

\* The method returns err to Query, and Query to the caller.
Return(c, err) == Goto(c, Idle) /\ Settle(c, Reply(Stmt(c), err))

\* An error after the method has begun to change the table: each kind of
\* statement has its own way of undoing what it did, a CREATE INDEX none.
Fail(c, err) ==
  IF conns[c].call.kind = "create index" THEN Return(c, err)
  ELSE /\ Goto(c, [conns[c] EXCEPT !.err = err,
                    !.pc = IF conns[c].call.kind = "insert" THEN "drop" ELSE "undo"])
       /\ UNCHANGED settled

Crash(c) ==
  /\ process' = "panicked"
  /\ reply' = Reply(Stmt(c), Panic)
  /\ UNCHANGED <<tables, trees, granted, catalogue, heap, forest, conns, accepted>>

------------------------------------------------------------------------------
(* Query.  Only the first statement of a query is executed.  Any statement *)
(* but a SELECT returns nil Rows.                                          *)

InUse == {c \in Conns : conns[c].pc # "idle"}

Query(c, q) ==
  /\ Local(c, "idle") /\ Cardinality(InUse) < AtOnce /\ asked < MaxQueries
  /\ asked' = asked + 1
  /\ \/ /\ q = parseError
        /\ UNCHANGED <<conns, process>>
     \/ /\ q = <<>>
        /\ process' = "panicked"
        /\ UNCHANGED conns
     \/ /\ q \notin {parseError, unsupported, <<>>}
        /\ Goto(c, [Idle EXCEPT !.pc = "execute", !.call = q[1]])
        /\ UNCHANGED process
  /\ UNCHANGED <<catalogue, heap, forest, accepted, settled>>

\* Prepare, Begin, and Query with arguments
NotSupported(c) ==
  /\ Local(c, "idle") /\ Cardinality(InUse) < AtOnce /\ asked < MaxQueries
  /\ unsupported \in Queries
  /\ asked' = asked + 1
  /\ process' = "panicked"
  /\ UNCHANGED <<catalogue, heap, forest, conns, accepted, settled>>

------------------------------------------------------------------------------
(* CreateTable: the table is entered, then given its columns one by one.   *)

CheckName(c) ==
  /\ Executes(c, "create table")
  /\ UNCHANGED <<catalogue, heap, forest, accepted, process, asked>>
  /\ IF Pointer(c) # none THEN Return(c, "ErrTableAlreadyExists")
     ELSE Goto(c, [conns[c] EXCEPT !.pc = "enter"]) /\ UNCHANGED settled

EnterTable(c) ==
  /\ Local(c, "enter")
  /\ heap' = Append(heap, EmptyTable)
  /\ accepted' = Append(accepted, <<>>)
  /\ catalogue' = [catalogue EXCEPT ![Stmt(c).table] = Len(heap) + 1]
  /\ Goto(c, [conns[c] EXCEPT !.pc = "columns", !.table = Len(heap) + 1,
                              !.todo = Stmt(c).cols])
  /\ UNCHANGED <<forest, process, asked, settled>>

AddColumn(c) ==
  /\ Local(c, "columns") /\ conns[c].todo # <<>>
  /\ heap' = [heap EXCEPT ![conns[c].table].columns = Append(@, Head(conns[c].todo).name)]
  /\ Goto(c, [conns[c] EXCEPT !.pc = "type"])
  /\ UNCHANGED <<catalogue, forest, process, asked, accepted, settled>>

\* delete(mb.tables, t.name), whichever table has the name by now
DeleteTable(c, err) ==
  /\ catalogue' = [catalogue EXCEPT ![Stmt(c).table] = none]
  /\ UNCHANGED <<heap, forest, accepted, process, asked>>
  /\ Return(c, err)

AddType(c) ==
  LET cols == Stmt(c).cols
      err  == ColumnError(cols, Len(cols) - Len(conns[c].todo) + 1)
  IN  /\ Local(c, "type")
      /\ \/ err # NoError /\ DeleteTable(c, err)
         \/ /\ err = NoError
            /\ heap' = [heap EXCEPT ![conns[c].table].columnTypes =
                                       Append(@, Head(conns[c].todo).datatype)]
            /\ Goto(c, [conns[c] EXCEPT !.pc = "columns", !.todo = Tail(@)])
            /\ UNCHANGED <<catalogue, forest, accepted, process, asked, settled>>

\* The call of CreateIndex for the primary key looks the table up again.
EndColumns(c) ==
  LET pkeys == PrimaryKeyIndexes(Stmt(c).table, Stmt(c).cols)
  IN  /\ Local(c, "columns") /\ conns[c].todo = <<>>
      /\ UNCHANGED <<catalogue, heap, forest, accepted, process, asked>>
      /\ IF pkeys = <<>> THEN Return(c, NoError)
         ELSE IF Pointer(c) = none THEN Fail(c, "ErrTableDoesNotExist")
         ELSE /\ Goto(c, [conns[c] EXCEPT !.pc = "names", !.table = Pointer(c),
                                          !.key = pkeys[1]])
              /\ UNCHANGED settled

\* CreateIndex has failed within CreateTable.
UndoTable(c) == Local(c, "undo") /\ DeleteTable(c, conns[c].err)

LookUpDrop(c) ==
  /\ Executes(c, "drop table")
  /\ UNCHANGED <<catalogue, heap, forest, accepted, process, asked>>
  /\ IF Pointer(c) = none THEN Return(c, "ErrTableDoesNotExist")
     ELSE Goto(c, [conns[c] EXCEPT !.pc = "remove"]) /\ UNCHANGED settled

RemoveTable(c) == Local(c, "remove") /\ DeleteTable(c, NoError)

------------------------------------------------------------------------------
(* CreateIndex: the index joins the table, then the rows there are now are *)
(* added to it.                                                            *)

LookUpIndex(c) ==
  /\ Executes(c, "create index")
  /\ UNCHANGED <<catalogue, heap, forest, accepted, process, asked>>
  /\ IF Pointer(c) = none THEN Return(c, "ErrTableDoesNotExist")
     ELSE /\ Goto(c, [conns[c] EXCEPT !.pc = "names", !.table = Pointer(c),
                                      !.key = NewIndex(Stmt(c))])
          /\ UNCHANGED settled

CheckIndexName(c) ==
  /\ Local(c, "names")
  /\ UNCHANGED <<catalogue, heap, forest, accepted, process, asked>>
  /\ IF HasIndex(heap[conns[c].table], conns[c].key.name)
     THEN Fail(c, "ErrIndexAlreadyExists")
     ELSE Goto(c, [conns[c] EXCEPT !.pc = "install"]) /\ UNCHANGED settled

ReadIndexes(c) ==
  /\ Local(c, "install")
  /\ Goto(c, [conns[c] EXCEPT !.pc = "join", !.slice = heap[conns[c].table].indexes])
  /\ UNCHANGED <<catalogue, heap, forest, process, asked, accepted, settled>>

WithTree(x, tree) == [name |-> x.name, exp |-> x.exp, unique |-> x.unique,
                      primaryKey |-> x.primaryKey, tree |-> tree]

InstallIndex(c) ==
  LET x == WithTree(conns[c].key, Len(forest) + 1)
  IN  /\ Local(c, "join")
      /\ forest' = Append(forest, {})
      /\ heap' = [heap EXCEPT ![conns[c].table].indexes = Append(conns[c].slice, x)]
      /\ Goto(c, [conns[c] EXCEPT !.pc = "fill", !.key = x])
      /\ UNCHANGED <<catalogue, process, asked, accepted, settled>>

\* What addRow is to be called for: an index and the position of a row
Task(x, at) == [index |-> x, at |-> at]

RangeOverRows(c) ==
  LET rows == heap[conns[c].table].rows
  IN  /\ Local(c, "fill")
      /\ Goto(c, [conns[c] EXCEPT !.pc = "add",
                    !.todo = [i \in DOMAIN rows |-> Task(conns[c].key, i - 1)]])
      /\ UNCHANGED <<catalogue, heap, forest, process, asked, accepted, settled>>

------------------------------------------------------------------------------
(* Insert: append reads the rows, then stores them with one more; each     *)
(* index adds what is the last row when its turn comes.                    *)

\* The position is left open: the last row there is by then
last == nil

LookUpInsert(c) ==
  /\ Executes(c, "insert")
  /\ UNCHANGED <<catalogue, heap, forest, accepted, process, asked>>
  /\ IF Pointer(c) = none THEN Return(c, "ErrTableDoesNotExist")
     ELSE /\ Goto(c, [conns[c] EXCEPT !.pc = "values", !.table = Pointer(c)])
          /\ UNCHANGED settled

CheckValues(c) ==
  LET values == Stmt(c).values
  IN  /\ Local(c, "values")
      /\ UNCHANGED <<catalogue, heap, forest, accepted, process, asked>>
      /\ IF Len(values) # Len(heap[conns[c].table].columns)
         THEN Return(c, "ErrMissingValues")
         ELSE IF BadValues(values) # {}
         THEN Return(c, EvaluateConstant(values[Min(BadValues(values))]).err)
         ELSE /\ Goto(c, [conns[c] EXCEPT !.pc = "append", !.row = RowOf(values)])
              /\ UNCHANGED settled

ReadRows(c) ==
  /\ Local(c, "append")
  /\ Goto(c, [conns[c] EXCEPT !.pc = "store", !.slice = heap[conns[c].table].rows])
  /\ UNCHANGED <<catalogue, heap, forest, process, asked, accepted, settled>>

StoreRows(c) ==
  /\ Local(c, "store")
  /\ heap' = [heap EXCEPT ![conns[c].table].rows = Append(conns[c].slice, conns[c].row)]
  /\ Goto(c, [conns[c] EXCEPT !.pc = "indexes"])
  /\ UNCHANGED <<catalogue, forest, process, asked, accepted, settled>>

RangeOverIndexes(c) ==
  LET xs == heap[conns[c].table].indexes
  IN  /\ Local(c, "indexes")
      /\ Goto(c, [conns[c] EXCEPT !.pc = "add",
                    !.todo = [k \in DOMAIN xs |-> Task(xs[k], last)]])
      /\ UNCHANGED <<catalogue, heap, forest, process, asked, accepted, settled>>

------------------------------------------------------------------------------
(* index.addRow: the position is taken, the key evaluated, looked up and   *)
(* inserted, each by a step of its own.                                    *)

PassRow(c) ==
  LET at == Head(conns[c].todo).at
  IN  /\ Local(c, "add") /\ conns[c].todo # <<>>
      /\ Goto(c, [conns[c] EXCEPT !.pc = "key",
                    !.at = IF at = last THEN Len(heap[conns[c].table].rows) - 1 ELSE at])
      /\ UNCHANGED <<catalogue, heap, forest, process, asked, accepted, settled>>

EvaluateKey(c) ==
  LET t   == heap[conns[c].table]
      key == IndexKey(t, RowAt(t.rows, conns[c].at + 1), Head(conns[c].todo).index.exp)
      err == AddRowError(key, FALSE, {})
  IN  /\ Local(c, "key")
      /\ UNCHANGED asked
      /\ IF err = Panic THEN Crash(c)
         ELSE /\ UNCHANGED <<catalogue, heap, forest, accepted, process>>
              /\ IF err # NoError THEN Fail(c, err)
                 ELSE /\ Goto(c, [conns[c] EXCEPT !.pc = "look", !.key = key.value])
                      /\ UNCHANGED settled

\* Faulty: the key is not looked up
HasKeyNever(x, key) == FALSE

HasKey(x, key) == x.unique /\ \E ti \in forest[x.tree] : SameKey(ti.value, key)

LookUpKey(c) ==
  /\ Local(c, "look")
  /\ UNCHANGED <<catalogue, heap, forest, accepted, process, asked>>
  /\ IF HasKey(Head(conns[c].todo).index, conns[c].key)
     THEN Fail(c, "ErrViolatesUniqueConstraint")
     ELSE Goto(c, [conns[c] EXCEPT !.pc = "entry"]) /\ UNCHANGED settled

InsertEntry(c) ==
  LET tree  == Head(conns[c].todo).index.tree
      entry == TreeItem(conns[c].key, conns[c].at, Cardinality(forest[tree]))
  IN  /\ Local(c, "entry")
      /\ forest' = [forest EXCEPT ![tree] = @ \cup {entry}]
      /\ Goto(c, [conns[c] EXCEPT !.pc = "add", !.todo = Tail(@)])
      /\ UNCHANGED <<catalogue, heap, process, asked, accepted, settled>>

\* All rows or indexes are done: the statement succeeds.
EndAdd(c) ==
  /\ Local(c, "add") /\ conns[c].todo = <<>>
  /\ accepted' = IF conns[c].call.kind = "insert"
                 THEN [accepted EXCEPT ![conns[c].table] = Append(@, conns[c].row)]
                 ELSE accepted
  /\ UNCHANGED <<catalogue, heap, forest, process, asked>>
  /\ Return(c, NoError)

\* t.rows[:len(t.rows)-1], whichever row is the last by then
TakeBack(c) ==
  LET rows == heap[conns[c].table].rows
  IN  /\ Local(c, "drop")
      /\ IF rows = <<>> THEN Crash(c)
         ELSE /\ Goto(c, [conns[c] EXCEPT !.pc = "reslice", !.slice = DropRow(rows)])
              /\ UNCHANGED <<catalogue, heap, forest, accepted, process, settled>>
      /\ UNCHANGED asked

StoreShorter(c) ==
  /\ Local(c, "reslice")
  /\ heap' = [heap EXCEPT ![conns[c].table].rows = conns[c].slice]
  /\ UNCHANGED <<catalogue, forest, accepted, process, asked>>
  /\ Return(c, conns[c].err)

------------------------------------------------------------------------------
(* Select: one step narrows the table by its indexes and fixes the window  *)
(* and the number of rows to go through; each row is a step.  A table that *)
(* no index has narrowed is read where the other connections write it.     *)

\* Query makes a cursor of what Select returns.
Answer(c, answer) ==
  /\ Goto(c, [Idle EXCEPT !.pc = "rows", !.rows = answer.rows, !.columns = answer.columns])
  /\ Settle(c, answer)

LookUpSelect(c) ==
  LET s == Stmt(c)
  IN  /\ Executes(c, "select")
      /\ UNCHANGED <<catalogue, heap, forest, accepted, process, asked>>
      /\ IF s.table # nil /\ catalogue[s.table] = none THEN Return(c, "ErrTableDoesNotExist")
         ELSE IF s.items = <<>> THEN Answer(c, Reply(s, NoError))
         ELSE /\ Goto(c, [conns[c] EXCEPT !.pc = "narrow",
                            !.table = IF s.table = nil THEN nil ELSE catalogue[s.table]])
              /\ UNCHANGED settled

\* The table itself is read unless an index gave another in its place.
ReadsTable(t, where) ==
  \A p \in ToSet(GetApplicableIndexes(t.indexes, where)) :
    EvaluateConstant(ApplicableValue(p.index.exp, p.exp)).err # NoError

Source(c) == IF conns[c].table = nil THEN NoTable ELSE Plain(heap[conns[c].table])

SourceTrees(c) ==
  IF conns[c].table = nil THEN <<>> ELSE TreesOf(heap[conns[c].table], forest)

Narrow(c) ==
  LET s      == Stmt(c)
      t      == Source(c)
      sub    == Narrowed(t, SourceTrees(c), s.where)
      window == Window(t, sub.rows, s)
  IN  /\ Local(c, "narrow")
      /\ UNCHANGED asked
      /\ IF sub.panicked \/ window.err = Panic THEN Crash(c)
         ELSE /\ UNCHANGED <<catalogue, heap, forest, accepted, process>>
              /\ IF window.err # NoError THEN Return(c, window.err)
                 ELSE /\ Goto(c, [conns[c] EXCEPT !.pc = "scan", !.rows = sub.rows,
                           !.live = ReadsTable(t, s.where),
                           !.todo = FinalItems(t, s.items), !.window = window,
                           !.acc = [done |-> FALSE, err |-> NoError, rowIndex |-> -1,
                                    rows |-> <<>>, columns |-> <<>>],
                           !.index = 0])
                      /\ UNCHANGED settled

\* Faulty: a row the condition is false for is not left
NextRowStays(r, acc) == [r EXCEPT !.acc = acc, !.index = IF acc = r.acc THEN @ ELSE @ + 1]

NextRow(r, acc) == [r EXCEPT !.acc = acc, !.index = @ + 1]

\* Faulty: the length is taken anew at each turn of the loop
RowsLeftNow(c) ==
  conns[c].index < Len(IF conns[c].live THEN Source(c).rows ELSE conns[c].rows)

RowsLeft(c) == conns[c].index < Len(conns[c].rows)

VisitRow(c) ==
  LET s    == Stmt(c)
      t    == Source(c)
      rows == IF conns[c].live THEN t.rows ELSE conns[c].rows
      acc  == ScanRow(t, s.where, conns[c].todo, conns[c].window,
                              conns[c].acc, RowAt(rows, conns[c].index + 1))
  IN  /\ Local(c, "scan") /\ ~conns[c].acc.done /\ RowsLeft(c)
      /\ IF acc.err = Panic THEN Crash(c)
         ELSE /\ Goto(c, NextRow(conns[c], acc))
              /\ UNCHANGED <<catalogue, heap, forest, accepted, process, settled>>
      /\ UNCHANGED asked

EndScan(c) ==
  LET acc == conns[c].acc
  IN  /\ Local(c, "scan") /\ (acc.done \/ ~RowsLeft(c))
      /\ UNCHANGED <<catalogue, heap, forest, accepted, process, asked>>
      /\ IF acc.err # NoError THEN Return(c, acc.err)
         ELSE Answer(c, Results(Stmt(c), acc))

------------------------------------------------------------------------------
(* Rows.                                                                   *)

(***************************************************************************)
(* What Next makes of a cell in a column of a type.  A null, the empty     *)
(* text and any truth value are handed over as pointers.                   *)
(***************************************************************************)
DriverValue(cell, type) ==
  LET value == CASE type = "int"     -> AsInt(cell)
                 [] type = "text"    -> AsText(cell)
                 [] type = "boolean" -> AsBool(cell)
  IN  [value |-> value, pointer |-> type = "boolean" \/ value = nil]

\* Faulty: r.index+1 >= len(r.rows)
AtEndEarly(r) == r.index + 1 >= Len(r.rows)

AtEnd(r) == r.index >= Len(r.rows)

RowsNext(c) ==
  LET r   == conns[c]
      row == r.rows[r.index + 1]
  IN  /\ Local(c, "rows") /\ ~AtEnd(r)
      /\ Goto(c, [r EXCEPT !.index = @ + 1,
                    !.got = Append(@, [k \in DOMAIN row |-> DriverValue(row[k], r.columns[k])])])
      /\ UNCHANGED <<catalogue, heap, forest, process, asked, accepted, settled>>

\* io.io.EOF; database/sql then closes the rows and is done with them.
EOF(c) ==
  /\ Local(c, "rows") /\ AtEnd(conns[c])
  /\ Goto(c, Idle)
  /\ UNCHANGED <<catalogue, heap, forest, process, asked, accepted, settled>>

Close(c) ==
  /\ Local(c, "rows") /\ ~conns[c].closed
  /\ Goto(c, [conns[c] EXCEPT !.index = Len(conns[c].rows), !.closed = TRUE])
  /\ UNCHANGED <<catalogue, heap, forest, process, asked, accepted, settled>>

------------------------------------------------------------------------------
DriverInit ==
  /\ Init
  /\ catalogue = [n \in TableNames |-> none]
  /\ heap = <<>> /\ forest = <<>> /\ accepted = <<>>
  /\ conns = [c \in Conns |-> Idle]
  /\ process = "running" /\ asked = 0

\* A step of a query being executed
Run(c) ==
  \/ CheckName(c) \/ EnterTable(c) \/ AddColumn(c) \/ AddType(c) \/ EndColumns(c)
  \/ UndoTable(c) \/ LookUpDrop(c) \/ RemoveTable(c)
  \/ LookUpIndex(c) \/ CheckIndexName(c) \/ ReadIndexes(c) \/ InstallIndex(c)
  \/ RangeOverRows(c)
  \/ LookUpInsert(c) \/ CheckValues(c) \/ ReadRows(c) \/ StoreRows(c) \/ RangeOverIndexes(c)
  \/ PassRow(c) \/ EvaluateKey(c) \/ LookUpKey(c) \/ InsertEntry(c) \/ EndAdd(c)
  \/ TakeBack(c) \/ StoreShorter(c)
  \/ LookUpSelect(c) \/ Narrow(c) \/ VisitRow(c) \/ EndScan(c)

\* What the client asks of a connection
Ask(c) ==
  \/ \E q \in Queries : Query(c, q)
  \/ NotSupported(c) \/ RowsNext(c) \/ EOF(c) \/ Close(c)

DriverNext == \E c \in Conns : Run(c) \/ Ask(c)

\* As long as a goroutine can go on, one does; a client may leave a cursor
\* where it is.
DriverSpec ==
  DriverInit /\ [][DriverNext]_driverVars /\ WF_driverVars(\E c \in Conns : Run(c))

------------------------------------------------------------------------------
(***************************************************************************)
(* Properties.                                                             *)
(***************************************************************************)

(***************************************************************************)
(* One connection in use at a time: the steps of each method come to one   *)
(* action of MemoryBackend, with its result, errors and partial failures.  *)
(***************************************************************************)
CallsBackend == Spec

Quiet == Alive /\ \A c \in Conns : conns[c].pc \in {"idle", "rows"}

(***************************************************************************)
(* Whenever no statement is being executed, a table holds exactly the rows *)
(* whose INSERT returned no error.  (Insert, and its "Drop the row on      *)
(* failure", memory.go:699)                                                *)
(***************************************************************************)
RowsAccounted ==
  Quiet => \A p \in DOMAIN heap : ToBag(heap[p].rows) = ToBag(accepted[p])

(***************************************************************************)
(* Whenever no statement is being executed, no two rows of a table have    *)
(* the same key in its primary key.  (error.go:9, README.md:28-29)         *)
(***************************************************************************)
KeysDistinct ==
  Quiet => \A p \in DOMAIN heap :
    LET t == heap[p]
    IN  \A k \in DOMAIN t.indexes : t.indexes[k].primaryKey =>
          \A i, j \in DOMAIN t.rows : i # j =>
            ~SameKey(IndexKey(t, t.rows[i], t.indexes[k].exp).value,
                     IndexKey(t, t.rows[j], t.indexes[k].exp).value)

(***************************************************************************)
(* The value handed over stands for the cell: the number or the text that  *)
(* is written with its bytes, the truth value it is, or a nil pointer for  *)
(* a cell without a value of the type.  (memory.go:12-14: a datatype "can  *)
(* be mapped to and from this byte array")                                 *)
(***************************************************************************)
StandsFor(given, cell, type) ==
  LET v == given.value
  IN  CASE type = "int" ->
             IF cell # nil /\ Len(cell) >= IntBytes
             THEN ~given.pointer /\ IntCell(v) = SubSeq(cell, 1, IntBytes)
                  /\ 2 * v \in -(Base ^ IntBytes) .. Base ^ IntBytes - 1
             ELSE given.pointer /\ v = nil
        [] type = "text" ->
             IF given.pointer THEN v = nil /\ cell \in {nil, <<>>} ELSE v = cell /\ v # nil
        [] type = "boolean" ->
             given.pointer /\ IF cell \in {nil, <<>>} THEN v = nil ELSE v = (Head(cell) = 1)

(***************************************************************************)
(* An answer read to its end is the whole answer SELECT gave, every cell   *)
(* with its value, while other connections insert into, drop and create    *)
(* anew the table it came from.  (Rows)                                    *)
(***************************************************************************)
AnswerWhole ==
  \A c \in Conns :
    LET r == conns[c]
    IN  r.pc = "rows" /\ AtEnd(r) /\ ~r.closed =>
          /\ Len(r.got) = Len(r.rows)
          /\ \A i \in DOMAIN r.rows :
               /\ DOMAIN r.got[i] = DOMAIN r.rows[i]
               /\ \A k \in DOMAIN r.rows[i] :
                    StandsFor(r.got[i][k], r.rows[i][k], r.columns[k])

\* A query ends: with its result, or with the process.
QueriesEnd ==
  \A c \in Conns : conns[c].pc # "idle" ~> (conns[c].pc \in {"idle", "rows"} \/ ~Alive)

\* The stages of the methods, in the order they come to them; the steps of a
\* turn of a loop share the stage of the loop.
Stage(pc) ==
  CASE pc = "execute"                           -> 0
    [] pc \in {"enter", "remove", "values", "narrow"} -> 1
    [] pc \in {"columns", "type", "append", "scan"}   -> 2
    [] pc \in {"names", "store"}                -> 3
    [] pc \in {"install", "indexes"}            -> 4
    [] pc = "join"                              -> 5
    [] pc = "fill"                              -> 6
    [] pc \in {"add", "key", "look", "entry"}   -> 7
    [] pc \in {"undo", "drop"}                  -> 8
    [] pc = "reslice"                           -> 9

\* How many steps of its loop a connection has still to take at most
StepsLeft(r) ==
  CASE r.pc = "columns" -> 2 * Len(r.todo)
    [] r.pc = "type"    -> 2 * Len(r.todo) - 1
    [] r.pc = "add"     -> 4 * Len(r.todo)
    [] r.pc = "key"     -> 4 * Len(r.todo) - 1
    [] r.pc = "look"    -> 4 * Len(r.todo) - 2
    [] r.pc = "entry"   -> 4 * Len(r.todo) - 3
    [] r.pc = "scan"    -> Len(r.rows) - r.index
    [] OTHER            -> 0

(***************************************************************************)
(* Whatever the others do to the tables it goes through, a step of a       *)
(* method ends the statement, comes to a later stage, or leaves fewer      *)
(* steps of its loop: no loop of the methods can be kept going by others.  *)
(* (memory.go: the ranges over rows, indexes and columns)                  *)
(***************************************************************************)
Advances(r, q) ==
  \/ q.pc \in {"idle", "rows"}
  \/ Stage(r.pc) < Stage(q.pc)
  \/ Stage(r.pc) = Stage(q.pc) /\ StepsLeft(q) \in Nat /\ StepsLeft(q) < StepsLeft(r)

MethodsAdvance ==
  [][\A c \in Conns :
       conns[c].pc \notin {"idle", "rows"} /\ conns'[c] # conns[c] =>
         Advances(conns[c], conns'[c])]_driverVars

(***************************************************************************)
(* The row that a refused INSERT drops is the one it stored.  (memory.go:  *)
(* 699, "Drop the row on failure")                                         *)
(***************************************************************************)
DropsOwnRow ==
  [][\A c \in Conns : conns[c].pc = "reslice" /\ conns'[c].pc = "idle" =>
       LET p == conns[c].table
       IN  heap[p].rows = Append(heap'[p].rows, conns[c].row)]_driverVars
==============================================================================
