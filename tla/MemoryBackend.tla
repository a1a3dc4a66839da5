---------------------------- MODULE MemoryBackend ----------------------------
(***************************************************************************)
(* The in-memory backend of memory.go, called by one client at a time: the *)
(* catalogue of tables, their rows and their indexes, and the six methods  *)
(* of the Backend interface.  Statements arrive parsed, from the sets the  *)
(* constants give.                                                         *)
(*                                                                         *)
(* A panic ends the process, and everything in memory with it: the reply   *)
(* says Panic, and no further statement is accepted.                       *)
(***************************************************************************)
EXTENDS Expressions

CONSTANTS
  TableNames, ColumnNames, IndexNames,
  pkeyName,          \* t.name + "_pkey", for each table name
  CreateTables, DropTables, CreateIndexes, Inserts, Selects, \* statements
  none,              \* no table of that name in the catalogue
  InfComparable,     \* TRUE if llrb finds its least key Inf(-1) without
                     \* calling treeItem.Less on it, which would panic
  MaxRows,           \* bound: rows of a table
  MaxEntries         \* bound: entries of an index

Datatypes == {"int", "text", "boolean"}

ColumnDefinition == [name: ColumnNames, datatype: STRING, primaryKey: BOOLEAN]

ASSUME StatementsAssumption ==
  /\ pkeyName \in [TableNames -> IndexNames]
  /\ \A c \in ColumnNames : Identifier(c) \in Exprs
  /\ \A s \in CreateTables :
       s.table \in TableNames /\ s.cols \in Seq(ColumnDefinition)
  /\ \A s \in DropTables : s.table \in TableNames
  /\ \A s \in CreateIndexes :
       /\ s.table \in TableNames /\ s.name \in IndexNames
       /\ s.exp \in Exprs /\ s.unique \in BOOLEAN
  /\ \A s \in Inserts : s.table \in TableNames /\ s.values \in Seq(Exprs)
  /\ \A s \in Selects : s.table \in TableNames \cup {nil} /\ s.where \in Exprs \cup {nil}
  /\ MaxRows \in Nat /\ MaxEntries \in Nat

\* Statements of any kind, as Repl and Driver hand them over
Statements ==
  [kind: {"create table"}, stmt: CreateTables] \cup
  [kind: {"drop table"}, stmt: DropTables] \cup
  [kind: {"create index"}, stmt: CreateIndexes] \cup
  [kind: {"insert"}, stmt: Inserts] \cup
  [kind: {"select"}, stmt: Selects]

(***************************************************************************)
(* The row Insert makes of the values of a statement: a value that is not  *)
(* a literal is skipped, and the row is one cell shorter for it.           *)
(***************************************************************************)
Kept(value) == IsLiteral(value)

RowOf(values) ==
  LET row[i \in 0 .. Len(values)] ==
        IF i = 0 THEN <<>>
        ELSE IF Kept(values[i]) THEN Append(row[i - 1], EvaluateConstant(values[i]).value)
        ELSE row[i - 1]
  IN  row[Len(values)]

Row == {RowOf(s.values) : s \in Inserts}

\* What is stored are cells.  No proof needs it; TLC evaluates it on each run.
ASSUME RowAssumption == Row \subseteq Seq(Cell)

VARIABLES
  tables,   \* mb.tables; an index holds a pointer to its tree
  trees,    \* the trees: the entries of each index of each table
  granted,  \* history: <<table, index>> whose creation returned no error
  reply     \* the last statement and what its method returned

vars == <<tables, trees, granted, reply>>

Index == [name: IndexNames, exp: Exprs, unique: BOOLEAN, primaryKey: BOOLEAN]
Table == [columns: Seq(ColumnNames), columnTypes: Seq(Datatypes),
          rows: Seq(Row), indexes: Seq(Index)]

ASSUME NoneAssumption == none \notin Table

(***************************************************************************)
(* A tree item, and nth, the number of items inserted before it: the tree  *)
(* keeps equal keys in the order InsertNoReplace brought them.             *)
(***************************************************************************)
TreeItem(value, index, nth) == [value |-> value, index |-> index, nth |-> nth]

Exists(n) == tables[n] # none

Reply(s, err) == [stmt |-> s, err |-> err, rows |-> <<>>, columns |-> <<>>]

\* The method returns an error and has changed nothing
Refuse(s, err) == reply' = Reply(s, err) /\ UNCHANGED <<tables, trees, granted>>

Running == reply.err # Panic

IndexKey(t, row, exp) == EvaluateCell(t.columns, t.columnTypes, row, exp)

(***************************************************************************)
(* CreateTable.  The columns are taken one by one; the first unknown data  *)
(* type, or the second primary key, ends the loop, and the table that was  *)
(* entered in the catalogue is deleted again.  CreateIndex is then called  *)
(* for the primary key, on a table with no index and no row: it succeeds.  *)
(***************************************************************************)
ColumnError(cols, i) ==
  IF cols[i].datatype \notin Datatypes THEN "ErrInvalidDatatype"
  ELSE IF cols[i].primaryKey /\ \E j \in 1 .. (i - 1) : cols[j].primaryKey
  THEN "ErrPrimaryKeyAlreadyExists"
  ELSE NoError

BadColumns(cols) == {i \in DOMAIN cols : ColumnError(cols, i) # NoError}

PrimaryKeyIndexes(n, cols) ==
  IF \E i \in DOMAIN cols : cols[i].primaryKey
  THEN LET i == CHOOSE i \in DOMAIN cols : cols[i].primaryKey
       IN  <<[name |-> pkeyName[n], exp |-> Identifier(cols[i].name),
              unique |-> TRUE, primaryKey |-> TRUE]>>
  ELSE <<>>

NewTable(n, cols) ==
  [columns     |-> [i \in DOMAIN cols |-> cols[i].name],
   columnTypes |-> [i \in DOMAIN cols |-> cols[i].datatype],
   rows        |-> <<>>,
   indexes     |-> PrimaryKeyIndexes(n, cols)]

CreateTable(s) ==
  LET n == s.table
  IN  /\ Running
      /\ \/ /\ Exists(n)
            /\ Refuse(s, "ErrTableAlreadyExists")
         \/ /\ ~Exists(n)
            /\ BadColumns(s.cols) # {}
            /\ Refuse(s, ColumnError(s.cols, Min(BadColumns(s.cols))))
         \/ /\ ~Exists(n)
            /\ BadColumns(s.cols) = {}
            /\ tables' = [tables EXCEPT ![n] = NewTable(n, s.cols)]
            /\ trees' = [trees EXCEPT ![n] = [x \in IndexNames |-> {}]]
            /\ granted' = granted \cup
                 {<<n, x.name>> : x \in ToSet(PrimaryKeyIndexes(n, s.cols))}
            /\ reply' = Reply(s, NoError)

\* DropTable.  The table's trees become garbage, which is not told from {}.
DropTable(s) ==
  LET n == s.table
  IN  /\ Running
      /\ \/ /\ ~Exists(n)
            /\ Refuse(s, "ErrTableDoesNotExist")
         \/ /\ Exists(n)
            /\ tables' = [tables EXCEPT ![n] = none]
            /\ trees' = [trees EXCEPT ![n] = [x \in IndexNames |-> {}]]
            /\ granted' = {g \in granted : g[1] # n}
            /\ reply' = Reply(s, NoError)

(***************************************************************************)
(* index.addRow: what is refused, given the keys already in the tree.      *)
(***************************************************************************)
\* Faulty: no check for nil; a key refused for any key not less than it
AddRowErrorNullable(key, unique, keys) ==
  IF key.err # NoError THEN key.err
  ELSE IF unique /\ \E k \in keys : SameKey(k, key.value)
  THEN "ErrViolatesUniqueConstraint"
  ELSE NoError

AddRowErrorAbove(key, unique, keys) ==
  IF key.err # NoError THEN key.err
  ELSE IF key.value = nil THEN "ErrViolatesNotNullConstraint"
  ELSE IF unique /\ \E k \in keys : ~Less(k, key.value)
  THEN "ErrViolatesUniqueConstraint"
  ELSE NoError

AddRowError(key, unique, keys) ==
  IF key.err # NoError THEN key.err
  ELSE IF key.value = nil THEN "ErrViolatesNotNullConstraint"
  ELSE IF unique /\ \E k \in keys : SameKey(k, key.value)
  THEN "ErrViolatesUniqueConstraint"
  ELSE NoError

(***************************************************************************)
(* CreateIndex.  The index joins the table before its tree is filled, and  *)
(* stays there, as far as it was filled, when a row is refused.            *)
(***************************************************************************)
HasIndex(t, name) == \E k \in DOMAIN t.indexes : t.indexes[k].name = name

NewIndex(s) ==
  [name |-> s.name, exp |-> s.exp, unique |-> s.unique, primaryKey |-> FALSE]

\* Faulty: the rows already there are not compared with each other
FillErrorAlone(t, s, i) == AddRowError(IndexKey(t, t.rows[i], s.exp), s.unique, {})

FillError(t, s, i) ==
  AddRowError(IndexKey(t, t.rows[i], s.exp), s.unique,
              {IndexKey(t, t.rows[j], s.exp).value : j \in 1 .. (i - 1)})

\* The rows that would be refused; the loop ends at the first of them
BadRows(t, s) == {i \in DOMAIN t.rows : FillError(t, s, i) # NoError}

\* Faulty: the last row is forgotten
FilledShort(t, exp, n) ==
  {TreeItem(IndexKey(t, t.rows[i], exp).value, i - 1, i - 1) : i \in 1 .. (n - 1)}

Filled(t, exp, n) ==
  {TreeItem(IndexKey(t, t.rows[i], exp).value, i - 1, i - 1) : i \in 1 .. n}

CreateIndex(s) ==
  LET n   == s.table
      t   == tables[n]
      bad == BadRows(t, s)
      Install(m) ==
        /\ tables' = [tables EXCEPT ![n].indexes = Append(@, NewIndex(s))]
        /\ trees' = [trees EXCEPT ![n][s.name] = Filled(t, s.exp, m)]
  IN  /\ Running
      /\ \/ /\ ~Exists(n)
            /\ Refuse(s, "ErrTableDoesNotExist")
         \/ /\ Exists(n) /\ HasIndex(t, s.name)
            /\ Refuse(s, "ErrIndexAlreadyExists")
         \/ /\ Exists(n) /\ ~HasIndex(t, s.name) /\ bad # {}
            /\ FillError(t, s, Min(bad)) # Panic
            /\ Install(Min(bad) - 1)
            /\ reply' = Reply(s, FillError(t, s, Min(bad)))
            /\ UNCHANGED granted
         \/ /\ Exists(n) /\ ~HasIndex(t, s.name) /\ bad # {}
            /\ FillError(t, s, Min(bad)) = Panic
            /\ Refuse(s, Panic)
         \/ /\ Exists(n) /\ ~HasIndex(t, s.name) /\ bad = {}
            /\ Install(Len(t.rows))
            /\ granted' = granted \cup {<<n, s.name>>}
            /\ reply' = Reply(s, NoError)

(***************************************************************************)
(* Insert.  The row is appended, then offered to each index in turn; the   *)
(* first refusal drops the row, but takes nothing back from the trees of   *)
(* the indexes before.  (The parser never leaves inst.Values nil: the      *)
(* return for that, memory.go:670-672, is left out, as is that for         *)
(* crt.Cols in CreateTable.)                                               *)
(***************************************************************************)
BadValues(values) ==
  {i \in DOMAIN values :
     IsLiteral(values[i]) /\ EvaluateConstant(values[i]).err # NoError}

InsertError(n, row, k) ==
  LET t == tables[n]
      x == t.indexes[k]
  IN  AddRowError(IndexKey(t, row, x.exp), x.unique,
                  {ti.value : ti \in trees[n][x.name]})

Refusals(n, row) ==
  {k \in DOMAIN tables[n].indexes : InsertError(n, row, k) # NoError}

\* Faulty: the index that refuses the row has added it before it looked
AddedFirst(n, row, rowIndex, m) ==
  LET t == tables[n]
  IN  [x \in IndexNames |->
         trees[n][x] \cup
           {TreeItem(IndexKey(t, row, t.indexes[k].exp).value, rowIndex,
                     Cardinality(trees[n][x]))
              : k \in {k \in DOMAIN t.indexes : k <= m + 1 /\ t.indexes[k].name = x}}]

\* The trees once the first m indexes have added the row at rowIndex
Added(n, row, rowIndex, m) ==
  LET t == tables[n]
  IN  [x \in IndexNames |->
         trees[n][x] \cup
           {TreeItem(IndexKey(t, row, t.indexes[k].exp).value, rowIndex,
                     Cardinality(trees[n][x]))
              : k \in {k \in 1 .. m : t.indexes[k].name = x}}]

\* Faulty: t.rows[1:]; nothing dropped
DropRowFirst(rows) == Tail(rows)
DropRowNever(rows) == rows

\* t.rows = t.rows[:len(t.rows)-1]
DropRow(rows) == SubSeq(rows, 1, Len(rows) - 1)

WithinBounds(n) ==
  /\ Len(tables[n].rows) < MaxRows
  /\ \A x \in IndexNames : Cardinality(trees[n][x]) < MaxEntries

Insert(s) ==
  LET n   == s.table
      t   == tables[n]
      row == RowOf(s.values)
      bad == Refusals(n, row)
  IN  /\ Running
      /\ \/ /\ ~Exists(n)
            /\ Refuse(s, "ErrTableDoesNotExist")
         \/ /\ Exists(n) /\ Len(s.values) # Len(t.columns)
            /\ Refuse(s, "ErrMissingValues")
         \/ /\ Exists(n) /\ Len(s.values) = Len(t.columns)
            /\ BadValues(s.values) # {}
            /\ Refuse(s, EvaluateConstant(s.values[Min(BadValues(s.values))]).err)
         \/ /\ Exists(n) /\ Len(s.values) = Len(t.columns) /\ WithinBounds(n)
            /\ BadValues(s.values) = {} /\ bad # {}
            /\ InsertError(n, row, Min(bad)) # Panic
            /\ trees' = [trees EXCEPT ![n] = Added(n, row, Len(t.rows), Min(bad) - 1)]
            /\ tables' = [tables EXCEPT ![n].rows = DropRow(Append(@, row))]
            /\ reply' = Reply(s, InsertError(n, row, Min(bad)))
            /\ UNCHANGED granted
         \/ /\ Exists(n) /\ Len(s.values) = Len(t.columns) /\ WithinBounds(n)
            /\ BadValues(s.values) = {} /\ bad # {}
            /\ InsertError(n, row, Min(bad)) = Panic
            /\ Refuse(s, Panic)
         \/ /\ Exists(n) /\ Len(s.values) = Len(t.columns) /\ WithinBounds(n)
            /\ BadValues(s.values) = {} /\ bad = {}
            /\ tables' = [tables EXCEPT ![n].rows = Append(@, row)]
            /\ trees' = [trees EXCEPT ![n] = Added(n, row, Len(t.rows), Len(t.indexes))]
            /\ reply' = Reply(s, NoError)
            /\ UNCHANGED granted

(***************************************************************************)
(* index.newTableFromSubset: the table t with only the rows that the index *)
(* finds for a conjunct of the WHERE clause.  The rows are fetched by the  *)
(* positions the tree holds; a position beyond the rows panics, and so     *)
(* does the walk from Inf(-1) when llrb hands it to treeItem.Less.         *)
(***************************************************************************)
InOrder(a, b) ==
  \/ Less(a.value, b.value)
  \/ SameKey(a.value, b.value) /\ a.nth < b.nth

\* A finite set as a sequence in an order: an element's place is the number
\* of those that come before it
Ranked(S, Before(_, _)) ==
  [i \in 1 .. Cardinality(S) |->
     CHOOSE x \in S : Cardinality({y \in S : Before(y, x)}) = i - 1]

\* Faulty: <= and >= leave out the value itself
CollectsStrict(op, key, value) ==
  CASE op \in {"=", "<>"} -> SameKey(key, value)
    [] op \in {"<", "<="} -> Less(key, value)
    [] op \in {">", ">="} -> Less(value, key)

Collects(op, key, value) ==
  CASE op \in {"=", "<>"} -> SameKey(key, value)
    [] op = "<"  -> Less(key, value)
    [] op = "<=" -> ~Less(value, key)
    [] op = ">"  -> Less(value, key)
    [] op = ">=" -> ~Less(key, value)

\* The row positions a walk of the tree collects, in the order of the walk
Positions(tree, op, value) ==
  LET Comes(a, b) == IF op \in {"<", "<="} THEN InOrder(b, a) ELSE InOrder(a, b)
      walk == Ranked({ti \in tree : Collects(op, ti.value, value)}, Comes)
  IN  [i \in DOMAIN walk |-> walk[i].index]

\* The rows of a table being narrowed, and whether narrowing has panicked
Subset(rows, panicked) == [rows |-> rows, panicked |-> panicked]

NewTableFromSubset(rows, index, tree, exp) ==
  LET constant  == EvaluateConstant(ApplicableValue(index.exp, exp))
      positions == Positions(tree, exp.op, constant.value)
      panics    == \/ exp.op = "<>" /\ tree # {} /\ ~InfComparable
                   \/ \E i \in DOMAIN positions : positions[i] + 1 \notin DOMAIN rows
  IN  IF constant.err # NoError THEN Subset(rows, FALSE)
      ELSE IF panics THEN Subset(<<>>, TRUE)
      ELSE Subset([i \in DOMAIN positions |-> rows[positions[i] + 1]], FALSE)

\* table.getApplicableIndexes: each conjunct with each index it applies to
GetApplicableIndexes(indexes, where) ==
  LET conjuncts == LinearizeExpressions(where)
      Earlier(p, q) == p[1] < q[1] \/ (p[1] = q[1] /\ p[2] < q[2])
      pairs == Ranked({p \in (DOMAIN conjuncts) \X (DOMAIN indexes) :
                         ApplicableValue(indexes[p[2]].exp, conjuncts[p[1]]) # nil}, Earlier)
  IN  [i \in DOMAIN pairs |->
         [index |-> indexes[pairs[i][2]], exp |-> conjuncts[pairs[i][1]]]]

\* The loop over the applicable indexes
Narrowed(t, tree, where) ==
  LET applicable == GetApplicableIndexes(t.indexes, where)
      sub[i \in 0 .. Len(applicable)] ==
        IF i = 0 THEN Subset(t.rows, FALSE)
        ELSE IF sub[i - 1].panicked THEN sub[i - 1]
        ELSE LET p == applicable[i]
             IN  NewTableFromSubset(sub[i - 1].rows, p.index, tree[p.index.name], p.exp)
  IN  sub[Len(applicable)]

(***************************************************************************)
(* LIMIT and OFFSET are evaluated against the first row left by narrowing. *)
(***************************************************************************)
RowAt(rows, i) == IF i \in DOMAIN rows THEN rows[i] ELSE noRow

Count(t, rows, exp, default) ==
  IF exp = nil THEN [n |-> default, err |-> NoError]
  ELSE LET v == EvaluateCell(t.columns, t.columnTypes, RowAt(rows, 1), exp)
           i == AsInt(v.value)
       IN  IF v.err # NoError THEN [n |-> 0, err |-> v.err]
           ELSE IF i = nil THEN [n |-> 0, err |-> Panic]
           ELSE [n |-> i, err |-> IF i < 0 THEN "Invalid, negative limit" ELSE NoError]

\* Faulty: rowIndex > offset+limit ends the loop
WindowWide(t, rows, s) ==
  LET limit  == Count(t, rows, s.limit, Len(rows))
      offset == Count(t, rows, s.offset, 0)
  IN  [limit |-> limit.n + 1, offset |-> offset.n,
       err |-> IF limit.err # NoError THEN limit.err ELSE offset.err]

\* The limit is looked at first
Window(t, rows, s) ==
  LET limit  == Count(t, rows, s.limit, Len(rows))
      offset == Count(t, rows, s.offset, 0)
  IN  [limit |-> limit.n, offset |-> offset.n,
       err |-> IF limit.err # NoError THEN limit.err ELSE offset.err]

\* SELECT * stands for all columns of the table
FinalItems(t, items) ==
  FlattenSeq([k \in DOMAIN items |->
    IF items[k].kind = "asterisk"
    THEN [j \in DOMAIN t.columns |-> Identifier(t.columns[j])]
    ELSE <<items[k]>>])

\* Faulty: a row the condition is null for is taken
TestLax(t, row, where) ==
  LET v == EvaluateCell(t.columns, t.columnTypes, row, where)
  IN  IF where = nil \/ Empty(v.value) THEN Value(trueMemoryCell, "boolean") ELSE v

\* What the WHERE clause says of a row
Test(t, row, where) ==
  IF where = nil THEN Value(trueMemoryCell, "boolean")
  ELSE EvaluateCell(t.columns, t.columnTypes, row, where)

\* The loop over the rows ends here, with this error if it is one
Ended(acc, err) == [acc EXCEPT !.done = TRUE, !.err = err]

(***************************************************************************)
(* One turn of Select's loop over the rows.  The WHERE clause comes first, *)
(* and its null is followed as a pointer.  A row that passes is counted,   *)
(* skipped before the offset, ends the loop beyond the limit, and is       *)
(* projected otherwise; the first row projected also gives the columns.    *)
(***************************************************************************)
ScanRow(t, where, items, window, acc, row) ==
  LET Eval(e) == EvaluateCell(t.columns, t.columnTypes, row, e)
      test     == Test(t, row, where)
      passed   == AsBool(test.value)
      rowIndex == acc.rowIndex + 1
      counted  == [acc EXCEPT !.rowIndex = rowIndex]
      cells    == [k \in DOMAIN items |-> Eval(items[k])]
      bad      == {k \in DOMAIN items : cells[k].err # NoError}
  IN  IF acc.done THEN acc
      ELSE IF test.err # NoError THEN Ended(acc, test.err)
      ELSE IF passed = nil THEN Ended(acc, Panic)
      ELSE IF ~passed THEN acc
      ELSE IF rowIndex < window.offset THEN counted
      ELSE IF rowIndex > window.offset + window.limit - 1 THEN Ended(counted, NoError)
      ELSE IF bad # {} THEN Ended(counted, cells[Min(bad)].err)
      ELSE [counted EXCEPT
              !.rows = Append(@, [k \in DOMAIN cells |-> cells[k].value]),
              !.columns = IF acc.rows # <<>> THEN @
                          ELSE @ \o [k \in DOMAIN cells |-> cells[k].type]]

\* The loop over the rows; it is not entered after an error
ScanRows(t, s, rows, window) ==
  LET items == FinalItems(t, s.items)
      acc[i \in 0 .. Len(rows)] ==
        IF i = 0
        THEN [done |-> window.err # NoError, err |-> window.err, rowIndex |-> -1,
              rows |-> <<>>, columns |-> <<>>]
        ELSE ScanRow(t, s.where, items, window, acc[i - 1], rows[i])
  IN  acc[Len(rows)]

\* The table a SELECT without FROM reads: one row of no columns
NoTable == [columns |-> <<>>, columnTypes |-> <<>>, rows |-> << <<>> >>,
            indexes |-> <<>>]

\* Only a call that returns no error returns rows
Results(s, scan) ==
  IF scan.err # NoError THEN Reply(s, scan.err)
  ELSE [stmt |-> s, err |-> NoError, rows |-> scan.rows, columns |-> scan.columns]

\* Select of a table that is there, and of the trees of its indexes
SelectFrom(t, tree, s) ==
  LET sub == Narrowed(t, tree, s.where)
  IN  IF s.items = <<>> THEN Reply(s, NoError)
      ELSE IF sub.panicked THEN Reply(s, Panic)
      ELSE Results(s, ScanRows(t, s, sub.rows, Window(t, sub.rows, s)))

Select(s) ==
  /\ Running
  /\ IF s.table = nil \/ Exists(s.table)
     THEN reply' = SelectFrom(IF s.table = nil THEN NoTable ELSE tables[s.table],
                              IF s.table = nil THEN <<>> ELSE trees[s.table], s)
     ELSE reply' = Reply(s, "ErrTableDoesNotExist")
  /\ UNCHANGED <<tables, trees, granted>>

Init ==
  /\ tables = [n \in TableNames |-> none]
  /\ trees = [n \in TableNames |-> [x \in IndexNames |-> {}]]
  /\ granted = {}
  /\ reply = Reply(nil, NoError)

Next ==
  \/ \E s \in CreateTables  : CreateTable(s)
  \/ \E s \in DropTables    : DropTable(s)
  \/ \E s \in CreateIndexes : CreateIndex(s)
  \/ \E s \in Inserts       : Insert(s)
  \/ \E s \in Selects       : Select(s)

Spec == Init /\ [][Next]_vars

(***************************************************************************)
(* GetTables: the columns it reports as NOT NULL are those with the name   *)
(* of the primary key's column.                                            *)
(***************************************************************************)
NotNullColumns(t) ==
  {c \in DOMAIN t.columns :
     \E k \in DOMAIN t.indexes :
       /\ t.indexes[k].primaryKey
       /\ t.indexes[k].exp = Identifier(t.columns[c])}

------------------------------------------------------------------------------
(***************************************************************************)
(* Properties.                                                             *)
(***************************************************************************)

\* The shape of the state.  A tree item never holds nil: addRow refuses it.
TypeOK ==
  /\ tables \in [TableNames -> Table \cup {none}]
  /\ DOMAIN trees = TableNames
  /\ \A n \in TableNames :
       /\ DOMAIN trees[n] = IndexNames
       /\ \A x \in IndexNames : \A ti \in trees[n][x] :
            ti.index \in Nat /\ ti.value # nil
  /\ granted \subseteq TableNames \X IndexNames

GrantedIndexes(n) ==
  {k \in DOMAIN tables[n].indexes : <<n, tables[n].indexes[k].name>> \in granted}

Key(n, k, i) == IndexKey(tables[n], tables[n].rows[i], tables[n].indexes[k].exp)

(***************************************************************************)
(* A unique index or primary key whose creation succeeded is respected by  *)
(* the rows, whatever failed, and in whatever order, since: no two rows    *)
(* have the same key in its expression.  (addRow, Insert, CreateIndex)     *)
(***************************************************************************)
UniqueEnforced ==
  \A n \in TableNames : Exists(n) =>
    \A k \in GrantedIndexes(n) : tables[n].indexes[k].unique =>
      \A i, j \in DOMAIN tables[n].rows :
        i # j => ~SameKey(Key(n, k, i).value, Key(n, k, j).value)

(***************************************************************************)
(* An index whose creation succeeded finds every row: each row has, in its *)
(* tree, an entry with the row's position and the row's key, which is not  *)
(* nil.  Entries of dropped rows may be there as well.  (addRow, Insert)   *)
(***************************************************************************)
IndexCoversRows ==
  \A n \in TableNames : Exists(n) =>
    \A k \in GrantedIndexes(n) : \A i \in DOMAIN tables[n].rows :
      /\ Key(n, k, i).value # nil
      /\ \E ti \in trees[n][tables[n].indexes[k].name] :
           ti.index = i - 1 /\ ti.value = Key(n, k, i).value

(***************************************************************************)
(* The tree of a unique index never holds two entries with the same key,   *)
(* those of dropped rows and of half-filled indexes included: that is why  *)
(* looking the key up in the tree is enough for addRow.                    *)
(***************************************************************************)
TreeUnique ==
  \A n \in TableNames : Exists(n) =>
    \A k \in DOMAIN tables[n].indexes : tables[n].indexes[k].unique =>
      \A a, b \in trees[n][tables[n].indexes[k].name] :
        SameKey(a.value, b.value) => a = b

\* No two indexes of a table have the same name, and so the same tree.
NamesDistinct ==
  \A n \in TableNames : Exists(n) =>
    \A k, l \in DOMAIN tables[n].indexes :
      tables[n].indexes[k].name = tables[n].indexes[l].name => k = l

\* What was granted is there.
GrantedPresent ==
  \A n \in TableNames, x \in IndexNames :
    <<n, x>> \in granted => Exists(n) /\ HasIndex(tables[n], x)

(***************************************************************************)
(* The invariant the operations preserve, each relying on all of it: rows  *)
(* are unique because their entries are in the tree and the tree has no    *)
(* two of a key, and that is so as no two indexes share a tree.            *)
(***************************************************************************)
IndexInv ==
  TypeOK /\ NamesDistinct /\ GrantedPresent /\ TreeUnique /\ IndexCoversRows

(***************************************************************************)
(* Stored rows are never altered, reordered or lost: a statement that      *)
(* leaves the table in place can only add one row after the others.        *)
(***************************************************************************)
RowsAppendOnly ==
  [][\A n \in TableNames : Exists(n) /\ Exists(n)' =>
       /\ IsPrefix(tables[n].rows, tables'[n].rows)
       /\ Len(tables'[n].rows) <= Len(tables[n].rows) + 1]_vars

(***************************************************************************)
(* A statement that returns an error changes no table's existence, columns *)
(* or rows: CreateTable takes its table back, Insert its row.  What it may *)
(* leave behind, an index or entries in one, is not said here.             *)
(***************************************************************************)
ErrorsKeepData ==
  [][reply'.err # NoError =>
       \A n \in TableNames :
         /\ Exists(n) <=> Exists(n)'
         /\ Exists(n) => /\ tables'[n].rows = tables[n].rows
                         /\ tables'[n].columns = tables[n].columns]_vars

(***************************************************************************)
(* What a SELECT from a table is to be compared with, worked out from the  *)
(* rows alone: the projection of each row that satisfies the WHERE clause. *)
(***************************************************************************)
Satisfies(t, row, where) ==
  \/ where = nil
  \/ AsBool(EvaluateCell(t.columns, t.columnTypes, row, where).value) = TRUE

Projection(t, row, items) ==
  LET final == FinalItems(t, items)
  IN  [k \in DOMAIN final |-> EvaluateCell(t.columns, t.columnTypes, row, final[k]).value]

Selected == reply.stmt \in Selects /\ reply.stmt.table # nil
            /\ Exists(reply.stmt.table) /\ reply.stmt.items # <<>>

Matching(t, s) == {i \in DOMAIN t.rows : Satisfies(t, t.rows[i], s.where)}

(***************************************************************************)
(* No SELECT makes up a row: whatever an index led to, stale entries and   *)
(* misread positions included, each row of the answer is the projection of *)
(* a stored row that satisfies the WHERE clause.  (Select)                 *)
(***************************************************************************)
SelectSound ==
  Selected /\ reply.err = NoError =>
    LET t == tables[reply.stmt.table]
    IN  \A r \in ToSet(reply.rows) : \E i \in Matching(t, reply.stmt) :
          r = Projection(t, t.rows[i], reply.stmt.items)

(***************************************************************************)
(* An index changes no answer: when reading every row succeeds, so does    *)
(* the SELECT that goes through the indexes, with the same rows as often.  *)
(* (newTableFromSubset; the order of the rows is not promised.)            *)
(***************************************************************************)
IndexTransparent ==
  Selected /\ reply.stmt.limit = nil /\ reply.stmt.offset = nil =>
    LET t    == tables[reply.stmt.table]
        scan == SelectFrom([t EXCEPT !.indexes = <<>>], <<>>, reply.stmt)
    IN  scan.err = NoError =>
          reply.err = NoError /\ ToBag(reply.rows) = ToBag(scan.rows)

(***************************************************************************)
(* LIMIT and OFFSET cut a window out of the matching rows: as many rows as *)
(* are left after the offset, up to the limit.  (the loop of Select)       *)
(***************************************************************************)
WindowExact ==
  Selected /\ reply.err = NoError /\ reply.stmt.limit # nil /\ reply.stmt.offset # nil =>
    LET n     == Cardinality(Matching(tables[reply.stmt.table], reply.stmt))
        limit == reply.stmt.limit.num
        rest  == Max({0, n - reply.stmt.offset.num})
    IN  Len(reply.rows) = Min({limit, rest})

(***************************************************************************)
(* A column GetTables reports as NOT NULL holds no nil.                    *)
(***************************************************************************)
NotNullReportTrue ==
  \A n \in TableNames : Exists(n) =>
    \A c \in NotNullColumns(tables[n]) : \A row \in ToSet(tables[n].rows) :
      c \in DOMAIN row => row[c] # nil

(***************************************************************************)
(* An INSERT that is refused as a duplicate meets a row with its key.      *)
(***************************************************************************)
DuplicateIsStored ==
  [][reply'.stmt \in Inserts /\ reply'.err = "ErrViolatesUniqueConstraint" =>
       LET n   == reply'.stmt.table
           row == RowOf(reply'.stmt.values)
       IN  \E k \in DOMAIN tables[n].indexes : \E i \in DOMAIN tables[n].rows :
             /\ tables[n].indexes[k].unique
             /\ SameKey(Key(n, k, i).value,
                        IndexKey(tables[n], row, tables[n].indexes[k].exp).value)]_vars
==============================================================================
