------------------------ MODULE MemoryBackend_proofs ------------------------
(***************************************************************************)
(* What the in-memory backend promises whatever its tables, statements and *)
(* bounds.  Evaluation stays opaque: nothing is used of the key of a row   *)
(* but that it depends on the columns, the row and the expression.         *)
(***************************************************************************)
EXTENDS MemoryBackend, Iteration

------------------------------------------------------------------------------
(***************************************************************************)
(* The state, taken apart.                                                 *)
(***************************************************************************)
LEMMA TableShape ==
  ASSUME TypeOK, NEW n \in TableNames, Exists(n)
  PROVE  /\ tables[n] \in Table
         /\ tables[n].columns \in Seq(ColumnNames)
         /\ tables[n].columnTypes \in Seq(Datatypes)
         /\ tables[n].rows \in Seq(Row)
         /\ tables[n].indexes \in Seq(Index)
         /\ \A k \in DOMAIN tables[n].indexes : tables[n].indexes[k].name \in IndexNames
<1>1. tables[n] \in Table
  BY DEF TypeOK, Exists
<1>2. tables[n].indexes \in Seq(Index)
  BY <1>1 DEF Table
<1>3. \A k \in DOMAIN tables[n].indexes : tables[n].indexes[k] \in Index
  BY <1>2
<1> QED
  BY <1>1, <1>3 DEF Table, Index

\* The sets of statements of the backend hold one kind of statement each.
LEMMA OneKind ==
  ASSUME NEW k, NEW S, NEW st \in [kind: {k}, stmt: S]
  PROVE  st.kind = k /\ st.stmt \in S /\ st = [kind |-> st.kind, stmt |-> st.stmt]
OBVIOUS

\* A statement is in the set of its kind.
LEMMA StatementShape ==
  ASSUME NEW st \in Statements
  PROVE  /\ st = [kind |-> st.kind, stmt |-> st.stmt]
         /\ st.kind = "create table" => st.stmt \in CreateTables
         /\ st.kind = "drop table" => st.stmt \in DropTables
         /\ st.kind = "create index" => st.stmt \in CreateIndexes
         /\ st.kind = "insert" => st.stmt \in Inserts
         /\ st.kind = "select" => st.stmt \in Selects
<1>1. CASE st \in [kind: {"create table"}, stmt: CreateTables]
  BY <1>1, OneKind
<1>2. CASE st \in [kind: {"drop table"}, stmt: DropTables]
  BY <1>2, OneKind
<1>3. CASE st \in [kind: {"create index"}, stmt: CreateIndexes]
  BY <1>3, OneKind
<1>4. CASE st \in [kind: {"insert"}, stmt: Inserts]
  BY <1>4, OneKind
<1>5. CASE st \in [kind: {"select"}, stmt: Selects]
  BY <1>5, OneKind
<1> QED
  BY <1>1, <1>2, <1>3, <1>4, <1>5 DEF Statements

\* It makes no difference in which order two keys are compared.
LEMMA KeysSymmetric == \A a, b : SameKey(a, b) <=> SameKey(b, a)
  BY DEF SameKey

\* A key that addRow accepts
LEMMA Accepted ==
  ASSUME NEW key, NEW unique, NEW keys, AddRowError(key, unique, keys) = NoError
  PROVE  /\ key.value # nil
         /\ unique => \A k \in keys : ~SameKey(k, key.value)
BY DEF AddRowError, NoError

\* What a statement that changes nothing, and a stuttering step, preserve
LEMMA UnchangedInv ==
  ASSUME IndexInv, UNCHANGED <<tables, trees, granted>>
  PROVE  IndexInv'
<1>1. TypeOK'
  BY DEF IndexInv, TypeOK
<1>2. NamesDistinct'
  BY DEF IndexInv, NamesDistinct, Exists
<1>3. GrantedPresent'
  BY DEF IndexInv, GrantedPresent, Exists, HasIndex
<1>4. TreeUnique'
  BY DEF IndexInv, TreeUnique, Exists
<1>5. IndexCoversRows'
  BY DEF IndexInv, IndexCoversRows, Exists, GrantedIndexes, Key, IndexKey
<1> QED
  BY <1>1, <1>2, <1>3, <1>4, <1>5 DEF IndexInv

LEMMA InitInv == Init => IndexInv
<1> SUFFICES ASSUME Init PROVE IndexInv
  OBVIOUS
<1>1. \A n \in TableNames : ~Exists(n)
  BY DEF Init, Exists
<1>2. TypeOK
  BY DEF Init, TypeOK
<1> QED
  BY <1>1, <1>2
     DEF Init, IndexInv, NamesDistinct, GrantedPresent, TreeUnique, IndexCoversRows

------------------------------------------------------------------------------
\* A table with other rows, or with one more index
LEMMA WithRows ==
  ASSUME NEW t \in Table, NEW rows \in Seq(Row)
  PROVE  LET u == [t EXCEPT !.rows = rows]
         IN  /\ u \in Table /\ u.rows = rows
             /\ u.indexes = t.indexes
             /\ u.columns = t.columns /\ u.columnTypes = t.columnTypes
BY DEF Table

LEMMA WithIndex ==
  ASSUME NEW t \in Table, NEW x \in Index
  PROVE  LET u == [t EXCEPT !.indexes = Append(@, x)]
         IN  /\ u \in Table /\ u.rows = t.rows
             /\ u.indexes = Append(t.indexes, x)
             /\ u.columns = t.columns /\ u.columnTypes = t.columnTypes
<1>1. Append(t.indexes, x) \in Seq(Index)
  BY DEF Table
<1> QED
  BY <1>1 DEF Table

------------------------------------------------------------------------------
(***************************************************************************)
(* Insert.  Whether the row stays or is dropped, the first m indexes have  *)
(* accepted its key and hold an entry for it.  It stays only when all of   *)
(* them have.                                                              *)
(***************************************************************************)
LEMMA AddedInv ==
  ASSUME IndexInv,
         NEW n \in TableNames, Exists(n),
         NEW row \in Row,
         NEW m \in 0 .. Len(tables[n].indexes),
         \A k \in 1 .. m : InsertError(n, row, k) = NoError,
         NEW u \in Table,
         \/ u.rows = tables[n].rows
         \/ u.rows = Append(tables[n].rows, row) /\ m = Len(tables[n].indexes),
         u.indexes = tables[n].indexes,
         u.columns = tables[n].columns, u.columnTypes = tables[n].columnTypes,
         tables' = [tables EXCEPT ![n] = u],
         trees' = [trees EXCEPT ![n] = Added(n, row, Len(tables[n].rows), m)],
         granted' = granted
  PROVE  IndexInv'
<1> DEFINE t == tables[n]
           name(k) == t.indexes[k].name
           key(k) == IndexKey(t, row, t.indexes[k].exp).value
           entry(k) == TreeItem(key(k), Len(t.rows), Cardinality(trees[n][name(k)]))
<1>1. /\ t \in Table /\ t.rows \in Seq(Row) /\ t.indexes \in Seq(Index)
      /\ \A k \in DOMAIN t.indexes : name(k) \in IndexNames
  BY TableShape DEF IndexInv
<1>2. /\ DOMAIN tables = TableNames /\ DOMAIN trees = TableNames
      /\ DOMAIN trees[n] = IndexNames
      /\ tables \in [TableNames -> Table \cup {none}]
  BY DEF IndexInv, TypeOK
<1>4. /\ tables'[n] = u
      /\ \A q \in TableNames \ {n} : tables'[q] = tables[q] /\ trees'[q] = trees[q]
  BY <1>2
<1>6. \A q \in TableNames : Exists(q)' <=> Exists(q)
  BY <1>4, NoneAssumption DEF Exists
<1>7. \A k \in DOMAIN t.indexes :
        trees'[n][name(k)] = trees[n][name(k)] \cup (IF k <= m THEN {entry(k)} ELSE {})
  <2>1. \A k, l \in DOMAIN t.indexes : name(k) = name(l) => k = l
    BY DEF IndexInv, NamesDistinct
  <2>2. trees'[n] = Added(n, row, Len(t.rows), m)
    BY <1>2
  <2> TAKE k \in DOMAIN t.indexes
  <2>3. {l \in 1 .. m : name(l) = name(k)} = IF k <= m THEN {k} ELSE {}
    BY <1>1, <2>1
  <2>4. trees'[n][name(k)] = trees[n][name(k)] \cup
          {TreeItem(key(l), Len(t.rows), Cardinality(trees[n][name(k)]))
             : l \in {l \in 1 .. m : name(l) = name(k)}}
    BY <1>1, <2>2 DEF Added
  <2> HIDE DEF t, name, key
  <2> QED
    BY <2>3, <2>4
<1>8. \A k \in 1 .. m :
        /\ key(k) # nil
        /\ t.indexes[k].unique => \A ti \in trees[n][name(k)] : ~SameKey(ti.value, key(k))
  <2> SUFFICES ASSUME NEW k \in 1 .. m
               PROVE  /\ key(k) # nil
                      /\ t.indexes[k].unique =>
                           \A ti \in trees[n][name(k)] : ~SameKey(ti.value, key(k))
    OBVIOUS
  <2>1. AddRowError(IndexKey(t, row, t.indexes[k].exp), t.indexes[k].unique,
                    {ti.value : ti \in trees[n][name(k)]}) = NoError
    BY DEF InsertError
  <2>2. /\ key(k) # nil
        /\ t.indexes[k].unique =>
             \A x \in {ti.value : ti \in trees[n][name(k)]} : ~SameKey(x, key(k))
    BY <2>1, Accepted
  <2> HIDE DEF t, name, key
  <2> QED
    BY <2>2
<1>9. TypeOK'
  <2>1. tables' \in [TableNames -> Table \cup {none}]
    BY <1>2
  <2>2. trees'[n] = Added(n, row, Len(t.rows), m)
    BY <1>2
  <2>3. DOMAIN trees'[n] = IndexNames
    BY <2>2 DEF Added
  <2>4. \A x \in IndexNames : \A ti \in trees'[n][x] :
          \/ ti \in trees[n][x]
          \/ \E k \in 1 .. m :
               ti = TreeItem(key(k), Len(t.rows), Cardinality(trees[n][x]))
    <3> TAKE x \in IndexNames
    <3>1. trees'[n][x] = trees[n][x] \cup
            {TreeItem(key(k), Len(t.rows), Cardinality(trees[n][x]))
               : k \in {k \in 1 .. m : name(k) = x}}
      BY <2>2 DEF Added
    <3> HIDE DEF t, name, key
    <3> QED
      BY <3>1
  <2>5. \A x \in IndexNames : \A ti \in trees'[n][x] :
          ti.index \in Nat /\ ti.value # nil
    <3>1. Len(t.rows) \in Nat
      BY <1>1
    <3>2. \A x \in IndexNames : \A ti \in trees[n][x] : ti.index \in Nat /\ ti.value # nil
      BY DEF IndexInv, TypeOK
    <3>3. \A k \in 1 .. m : \A x : /\ TreeItem(key(k), Len(t.rows), x).index \in Nat
                                  /\ TreeItem(key(k), Len(t.rows), x).value # nil
      BY <3>1, <1>8 DEF TreeItem
    <3> HIDE DEF t, name, key, entry
    <3> QED
      BY <2>4, <3>2, <3>3
  <2>6. \A q \in TableNames \ {n} :
          /\ DOMAIN trees'[q] = IndexNames
          /\ \A x \in IndexNames : \A ti \in trees'[q][x] :
               ti.index \in Nat /\ ti.value # nil
    BY <1>4 DEF IndexInv, TypeOK
  <2>7. DOMAIN trees' = TableNames /\ granted' \subseteq TableNames \X IndexNames
    BY <1>2 DEF IndexInv, TypeOK
  <2> QED
    BY <2>1, <2>3, <2>5, <2>6, <2>7 DEF TypeOK
<1>10. NamesDistinct'
  BY <1>4, <1>6 DEF IndexInv, NamesDistinct
<1>11. GrantedPresent'
  BY <1>4, <1>6 DEF IndexInv, GrantedPresent, HasIndex
<1>12. TreeUnique'
  <2> SUFFICES ASSUME NEW q \in TableNames, Exists(q)',
                      NEW k \in DOMAIN tables'[q].indexes,
                      tables'[q].indexes[k].unique,
                      NEW a \in trees'[q][tables'[q].indexes[k].name],
                      NEW b \in trees'[q][tables'[q].indexes[k].name],
                      SameKey(a.value, b.value)
               PROVE  a = b
    BY DEF TreeUnique
  <2>1. CASE q # n
    BY <2>1, <1>4, <1>6 DEF IndexInv, TreeUnique
  <2>2. CASE q = n
    <3>1. k \in DOMAIN t.indexes /\ t.indexes[k].unique
      BY <2>2, <1>4
    <3>2. \A c, d \in trees[n][name(k)] : SameKey(c.value, d.value) => c = d
      BY <3>1 DEF IndexInv, TreeUnique
    <3>3. \A c \in {a, b} :
            c \in trees[n][name(k)] \/ (k <= m /\ c = entry(k))
      <4>1. tables'[q].indexes[k].name = name(k)
        BY <2>2, <1>4
      <4>2. trees'[n][name(k)] = trees[n][name(k)] \cup (IF k <= m THEN {entry(k)} ELSE {})
        BY <3>1, <1>7
      <4> HIDE DEF t, name, key, entry
      <4> QED
        BY <2>2, <4>1, <4>2
    <3>4. k <= m => \A c \in trees[n][name(k)] :
                      ~SameKey(c.value, key(k)) /\ ~SameKey(key(k), c.value)
      <4>1. k <= m => k \in 1 .. m
        BY <3>1, <1>1
      <4>2. k <= m => \A c \in trees[n][name(k)] : ~SameKey(c.value, key(k))
        BY <4>1, <3>1, <1>8
      <4> HIDE DEF t, name, key, entry
      <4> QED
        BY <4>2, KeysSymmetric
    <3>5. entry(k).value = key(k)
      BY DEF TreeItem
    <3> HIDE DEF t, name, key, entry
    <3> QED
      BY <3>2, <3>3, <3>4, <3>5
  <2> QED
    BY <2>1, <2>2
<1>13. IndexCoversRows'
  <2> SUFFICES ASSUME NEW q \in TableNames, Exists(q)',
                      NEW k \in GrantedIndexes(q)',
                      NEW i \in DOMAIN tables'[q].rows
               PROVE  /\ Key(q, k, i)'.value # nil
                      /\ \E ti \in trees'[q][tables'[q].indexes[k].name] :
                           ti.index = i - 1 /\ ti.value = Key(q, k, i)'.value
    BY DEF IndexCoversRows
  <2>1. k \in GrantedIndexes(q) /\ k \in DOMAIN tables[q].indexes
    <3>1. tables'[q].indexes = tables[q].indexes
      BY <1>4
    <3> HIDE DEF t, name, key, entry
    <3> QED
      BY <3>1 DEF GrantedIndexes
  <2>2. CASE q # n
    <3>1. tables'[q] = tables[q] /\ trees'[q] = trees[q]
      BY <2>2, <1>4
    <3>2. Key(q, k, i)' = Key(q, k, i)
      BY <3>1 DEF Key, IndexKey
    <3>3. /\ q \in TableNames /\ Exists(q) /\ k \in GrantedIndexes(q)
          /\ i \in DOMAIN tables[q].rows
      BY <2>1, <3>1, <1>6
    <3>4. /\ Key(q, k, i).value # nil
          /\ \E ti \in trees[q][tables[q].indexes[k].name] :
               ti.index = i - 1 /\ ti.value = Key(q, k, i).value
      BY ONLY IndexInv, <3>3 DEF IndexInv, IndexCoversRows
    <3> QED
      BY ONLY <3>1, <3>2, <3>4, Zenon
  <2>3. CASE q = n /\ i \in DOMAIN t.rows
    <3>1. u.rows[i] = t.rows[i]
      BY <2>3, <1>1
    <3>2. Key(q, k, i)' = Key(n, k, i)
      BY <2>3, <3>1, <1>4 DEF Key, IndexKey
    <3>3. trees[n][name(k)] \subseteq trees'[n][name(k)]
      BY <2>1, <2>3, <1>7
    <3>4. /\ Key(n, k, i).value # nil
          /\ \E ti \in trees[n][name(k)] :
               ti.index = i - 1 /\ ti.value = Key(n, k, i).value
      BY <2>1, <2>3 DEF IndexInv, IndexCoversRows
    <3>5. trees'[q][tables'[q].indexes[k].name] = trees'[n][name(k)]
      BY <2>3, <1>4
    <3> HIDE DEF t, name, key, entry
    <3> QED
      BY <3>2, <3>3, <3>4, <3>5
  <2>4. CASE q = n /\ i \notin DOMAIN t.rows
    <3>1. /\ u.rows = Append(t.rows, row) /\ m = Len(t.indexes)
          /\ i = Len(t.rows) + 1
      BY <2>4, <1>1, <1>4
    <3>2. u.rows[i] = row
      BY <3>1, <1>1
    <3>3. Key(q, k, i)'.value = key(k)
      BY <2>4, <3>2, <1>4 DEF Key, IndexKey
    <3>4. k \in 1 .. m
      BY <2>1, <2>4, <3>1, <1>1
    <3>5. entry(k) \in trees'[n][name(k)]
      <4>1. trees'[n][name(k)] = trees[n][name(k)] \cup (IF k <= m THEN {entry(k)} ELSE {})
        BY <2>1, <2>4, <1>7
      <4>2. k <= m
        BY <3>4
      <4> HIDE DEF name, entry
      <4> QED
        BY <4>1, <4>2
    <3>6. entry(k).index = i - 1 /\ entry(k).value = key(k)
      BY <3>1, <1>1 DEF TreeItem
    <3>7. trees'[q][tables'[q].indexes[k].name] = trees'[n][name(k)]
      BY <2>4, <1>4
    <3>8. key(k) # nil
      BY <3>4, <1>8
    <3> HIDE DEF t, name, key, entry
    <3> QED
      BY <3>3, <3>5, <3>6, <3>7, <3>8
  <2> QED
    BY <2>2, <2>3, <2>4
<1> QED
  BY <1>9, <1>10, <1>11, <1>12, <1>13 DEF IndexInv

\* An element is appended to a sequence.
LEMMA AppendedItem ==
  ASSUME NEW S, NEW s \in Seq(S), NEW e \in S
  PROVE  LET r == Append(s, e)
         IN  /\ r \in Seq(S) /\ Len(r) = Len(s) + 1
             /\ DOMAIN r = DOMAIN s \cup {Len(s) + 1} /\ Len(s) + 1 \notin DOMAIN s
             /\ r[Len(s) + 1] = e /\ \A q \in DOMAIN s : r[q] = s[q]
OBVIOUS

------------------------------------------------------------------------------
(***************************************************************************)
(* CreateIndex.  The new index holds the first m rows, which it accepted.  *)
(* It is granted only when these are all the rows.                         *)
(***************************************************************************)
LEMMA FilledInv ==
  ASSUME IndexInv,
         NEW n \in TableNames, Exists(n),
         NEW s \in CreateIndexes, ~HasIndex(tables[n], s.name),
         NEW m \in 0 .. Len(tables[n].rows),
         \A i \in 1 .. m : FillError(tables[n], s, i) = NoError,
         NEW u \in Table,
         u.indexes = Append(tables[n].indexes, NewIndex(s)),
         u.rows = tables[n].rows,
         u.columns = tables[n].columns, u.columnTypes = tables[n].columnTypes,
         NEW v, DOMAIN v = IndexNames,
         v[s.name] = Filled(tables[n], s.exp, m),
         \A x \in IndexNames \ {s.name} : v[x] = trees[n][x],
         tables' = [tables EXCEPT ![n] = u],
         trees' = [trees EXCEPT ![n] = v],
         \/ granted' = granted
         \/ granted' = granted \cup {<<n, s.name>>} /\ m = Len(tables[n].rows)
  PROVE  IndexInv'
<1> DEFINE t == tables[n]
           name(k) == t.indexes[k].name
           last == Len(t.indexes) + 1
           key(i) == IndexKey(t, t.rows[i], s.exp).value
<1>1. /\ t \in Table /\ t.rows \in Seq(Row) /\ t.indexes \in Seq(Index)
      /\ \A k \in DOMAIN t.indexes : name(k) \in IndexNames
  BY TableShape DEF IndexInv
<1>2. /\ DOMAIN tables = TableNames /\ DOMAIN trees = TableNames
      /\ tables \in [TableNames -> Table \cup {none}]
  BY DEF IndexInv, TypeOK
<1>3. s.name \in IndexNames
  BY StatementsAssumption
<1>4. /\ tables'[n] = u /\ trees'[n] = v
      /\ \A q \in TableNames \ {n} : tables'[q] = tables[q] /\ trees'[q] = trees[q]
  BY <1>2
<1>5. \A q \in TableNames : Exists(q)' <=> Exists(q)
  BY <1>4, NoneAssumption DEF Exists
<1>6. /\ DOMAIN u.indexes = DOMAIN t.indexes \cup {last}
      /\ last \notin DOMAIN t.indexes
      /\ \A k \in DOMAIN t.indexes : u.indexes[k] = t.indexes[k]
      /\ u.indexes[last] = NewIndex(s)
  <2>0. PICK xs, x, ys : xs = t.indexes /\ x = NewIndex(s) /\ ys = u.indexes
    OBVIOUS
  <2>1. xs \in Seq(Index) /\ x \in Index /\ ys = Append(xs, x)
    <3>1. NewIndex(s) \in Index
      BY StatementsAssumption DEF NewIndex, Index
    <3>2. u.indexes = Append(t.indexes, NewIndex(s))
      OBVIOUS
    <3> HIDE DEF t
    <3> QED
      BY ONLY <1>1, <2>0, <3>1, <3>2
  <2>2. /\ DOMAIN ys = DOMAIN xs \cup {Len(xs) + 1} /\ Len(xs) + 1 \notin DOMAIN xs
        /\ ys[Len(xs) + 1] = x /\ \A k \in DOMAIN xs : ys[k] = xs[k]
    BY ONLY <2>1, AppendedItem
  <2> QED
    BY ONLY <2>0, <2>2
<1>7. \A k \in DOMAIN t.indexes : name(k) # s.name
  BY DEF HasIndex
<1>8. /\ NewIndex(s).name = s.name /\ NewIndex(s).exp = s.exp
      /\ NewIndex(s).unique = s.unique
  BY DEF NewIndex
<1>9. \A i \in 1 .. m :
        /\ key(i) # nil
        /\ s.unique => \A j \in 1 .. (i - 1) : ~SameKey(key(j), key(i))
  <2> SUFFICES ASSUME NEW i \in 1 .. m
               PROVE  /\ key(i) # nil
                      /\ s.unique => \A j \in 1 .. (i - 1) : ~SameKey(key(j), key(i))
    OBVIOUS
  <2>1. AddRowError(IndexKey(t, t.rows[i], s.exp), s.unique,
                    {key(j) : j \in 1 .. (i - 1)}) = NoError
    BY DEF FillError
  <2>2. /\ key(i) # nil
        /\ s.unique => \A k \in {key(j) : j \in 1 .. (i - 1)} : ~SameKey(k, key(i))
    BY <2>1, Accepted
  <2> HIDE DEF key
  <2> QED
    BY <2>2
<1>10. \A ti \in v[s.name] : \E i \in 1 .. m :
         ti = TreeItem(key(i), i - 1, i - 1)
  BY DEF Filled
<1>11. TypeOK'
  <2>1. tables' \in [TableNames -> Table \cup {none}]
    BY <1>2
  <2>2. \A ti \in v[s.name] : ti.index \in Nat /\ ti.value # nil
    BY <1>9, <1>10, <1>1 DEF TreeItem
  <2>3. \A x \in IndexNames : \A ti \in v[x] : ti.index \in Nat /\ ti.value # nil
    BY <2>2 DEF IndexInv, TypeOK
  <2>4. \A q \in TableNames \ {n} :
          /\ DOMAIN trees'[q] = IndexNames
          /\ \A x \in IndexNames : \A ti \in trees'[q][x] :
               ti.index \in Nat /\ ti.value # nil
    BY <1>4 DEF IndexInv, TypeOK
  <2>5. DOMAIN trees' = TableNames /\ granted' \subseteq TableNames \X IndexNames
    BY <1>2, <1>3 DEF IndexInv, TypeOK
  <2> QED
    BY <2>1, <2>3, <2>4, <2>5, <1>4 DEF TypeOK
<1>12. NamesDistinct'
  <2> SUFFICES ASSUME NEW q \in TableNames, Exists(q)',
                      NEW k \in DOMAIN tables'[q].indexes,
                      NEW l \in DOMAIN tables'[q].indexes,
                      tables'[q].indexes[k].name = tables'[q].indexes[l].name
               PROVE  k = l
    BY DEF NamesDistinct
  <2>1. CASE q # n
    BY <2>1, <1>4, <1>5 DEF IndexInv, NamesDistinct
  <2>2. CASE q = n
    <3>1. \A i, j \in DOMAIN t.indexes : name(i) = name(j) => i = j
      BY DEF IndexInv, NamesDistinct
    <3>2. \A i \in DOMAIN t.indexes : u.indexes[i].name = name(i)
      BY <1>6
    <3>3. u.indexes[last].name = s.name
      BY <1>6, <1>8
    <3>4. {k, l} \subseteq DOMAIN t.indexes \cup {last}
      BY <2>2, <1>4, <1>6
    <3>5. u.indexes[k].name = u.indexes[l].name
      BY <2>2, <1>4
    <3>6. \A i \in DOMAIN t.indexes : u.indexes[i].name # u.indexes[last].name
      BY <3>2, <3>3, <1>7
    <3>7. \A i, j \in DOMAIN t.indexes : u.indexes[i].name = u.indexes[j].name => i = j
      BY <3>1, <3>2
    <3> HIDE DEF t, name, last
    <3> QED
      BY <3>4, <3>5, <3>6, <3>7
  <2> QED
    BY <2>1, <2>2
<1>13. GrantedPresent'
  <2>1. \A x : HasIndex(t, x) \/ x = s.name => HasIndex(tables'[n], x)
    <3>1. \A k \in DOMAIN t.indexes : k \in DOMAIN u.indexes /\ u.indexes[k].name = name(k)
      BY <1>6
    <3>2. last \in DOMAIN u.indexes /\ u.indexes[last].name = s.name
      BY <1>6, <1>8
    <3>3. \A x : HasIndex(t, x) => \E k \in DOMAIN t.indexes : name(k) = x
      BY DEF HasIndex
    <3>4. \A x : (\E k \in DOMAIN u.indexes : u.indexes[k].name = x) => HasIndex(tables'[n], x)
      BY <1>4 DEF HasIndex
    <3> HIDE DEF t, name, last, key
    <3> QED
      BY <3>1, <3>2, <3>3, <3>4
  <2>2. \A x \in IndexNames : <<n, x>> \in granted' => HasIndex(tables'[n], x)
    BY <2>1 DEF IndexInv, GrantedPresent
  <2>3. \A q \in TableNames \ {n} : \A x \in IndexNames :
          <<q, x>> \in granted' => Exists(q)' /\ HasIndex(tables'[q], x)
    BY <1>4, <1>5 DEF IndexInv, GrantedPresent
  <2> HIDE DEF t, name, last, key
  <2> QED
    BY <2>2, <2>3, <1>5 DEF GrantedPresent
<1>14. TreeUnique'
  <2> SUFFICES ASSUME NEW q \in TableNames, Exists(q)',
                      NEW k \in DOMAIN tables'[q].indexes,
                      tables'[q].indexes[k].unique,
                      NEW a \in trees'[q][tables'[q].indexes[k].name],
                      NEW b \in trees'[q][tables'[q].indexes[k].name],
                      SameKey(a.value, b.value)
               PROVE  a = b
    BY DEF TreeUnique
  <2>1. CASE q # n
    BY <2>1, <1>4, <1>5 DEF IndexInv, TreeUnique
  <2>2. CASE q = n /\ k # last
    <3>1. k \in DOMAIN t.indexes /\ t.indexes[k].unique
      BY <2>2, <1>4, <1>6
    <3>2. trees'[q][tables'[q].indexes[k].name] = trees[n][name(k)]
      BY <2>2, <3>1, <1>1, <1>4, <1>6, <1>7
    <3> QED
      BY <3>1, <3>2 DEF IndexInv, TreeUnique
  <2>3. CASE q = n /\ k = last
    <3>1. s.unique /\ a \in v[s.name] /\ b \in v[s.name]
      BY <2>3, <1>4, <1>6, <1>8
    <3>2. PICK i \in 1 .. m : a = TreeItem(key(i), i - 1, i - 1)
      BY <3>1, <1>10
    <3>3. PICK j \in 1 .. m : b = TreeItem(key(j), j - 1, j - 1)
      BY <3>1, <1>10
    <3>4. SameKey(key(i), key(j)) /\ SameKey(key(j), key(i))
      BY <3>2, <3>3, KeysSymmetric DEF TreeItem
    <3>5. ~ (i < j)
      <4> SUFFICES ASSUME i < j PROVE FALSE
        OBVIOUS
      <4>1. i \in 1 .. (j - 1)
        OBVIOUS
      <4> HIDE DEF key
      <4> QED
        BY <4>1, <3>1, <3>4, <1>9
    <3>6. ~ (j < i)
      <4> SUFFICES ASSUME j < i PROVE FALSE
        OBVIOUS
      <4>1. j \in 1 .. (i - 1)
        OBVIOUS
      <4> HIDE DEF key
      <4> QED
        BY <4>1, <3>1, <3>4, <1>9
    <3>7. i = j
      BY <3>5, <3>6
    <3> QED
      BY <3>2, <3>3, <3>7
  <2> QED
    BY <2>1, <2>2, <2>3
<1>15. IndexCoversRows'
  <2> SUFFICES ASSUME NEW q \in TableNames, Exists(q)',
                      NEW k \in GrantedIndexes(q)',
                      NEW i \in DOMAIN tables'[q].rows
               PROVE  /\ Key(q, k, i)'.value # nil
                      /\ \E ti \in trees'[q][tables'[q].indexes[k].name] :
                           ti.index = i - 1 /\ ti.value = Key(q, k, i)'.value
    BY DEF IndexCoversRows
  <2>1. CASE q # n
    <3>1. k \in GrantedIndexes(q)
      BY <2>1, <1>4 DEF GrantedIndexes
    <3>2. tables'[q] = tables[q] /\ trees'[q] = trees[q]
      BY <2>1, <1>4
    <3>3. Key(q, k, i)' = Key(q, k, i) /\ i \in DOMAIN tables[q].rows
      BY <3>2 DEF Key, IndexKey
    <3>4. /\ Key(q, k, i).value # nil
          /\ \E ti \in trees[q][tables[q].indexes[k].name] :
               ti.index = i - 1 /\ ti.value = Key(q, k, i).value
      BY <3>1, <3>3, <1>5 DEF IndexInv, IndexCoversRows
    <3> HIDE DEF t, name, last, key
    <3> QED
      BY <3>2, <3>3, <3>4
  <2>2. CASE q = n /\ k # last
    <3>1. k \in GrantedIndexes(n) /\ k \in DOMAIN t.indexes
      <4>1. k \in DOMAIN u.indexes /\ <<n, u.indexes[k].name>> \in granted'
        BY <2>2, <1>4 DEF GrantedIndexes
      <4>2. k \in DOMAIN t.indexes /\ u.indexes[k] = t.indexes[k]
        BY <2>2, <4>1, <1>6
      <4>3. <<n, name(k)>> \in granted
        BY <4>1, <4>2, <1>7
      <4> QED
        BY <4>2, <4>3 DEF GrantedIndexes
    <3>2. Key(q, k, i)' = Key(n, k, i)
      BY <2>2, <3>1, <1>4, <1>6 DEF Key, IndexKey
    <3>3. trees'[n][name(k)] = trees[n][name(k)]
      BY <3>1, <1>1, <1>4, <1>7
    <3>4. i \in DOMAIN tables[n].rows
      BY <2>2, <1>4
    <3>5. /\ Key(n, k, i).value # nil
          /\ \E ti \in trees[n][name(k)] :
               ti.index = i - 1 /\ ti.value = Key(n, k, i).value
      BY <3>1, <3>4 DEF IndexInv, IndexCoversRows
    <3>6. trees'[q][tables'[q].indexes[k].name] = trees[n][name(k)]
      <4>1. tables'[q].indexes[k].name = name(k)
        BY <2>2, <3>1, <1>4, <1>6
      <4> HIDE DEF t, name, last, key
      <4> QED
        BY <2>2, <3>3, <4>1
    <3> HIDE DEF t, name, last, key
    <3> QED
      BY <3>2, <3>5, <3>6
  <2>3. CASE q = n /\ k = last
    <3>1. <<n, s.name>> \in granted'
      <4>1. <<q, tables'[q].indexes[k].name>> \in granted'
        BY DEF GrantedIndexes
      <4>2. tables'[q].indexes[k].name = s.name
        BY <2>3, <1>4, <1>6, <1>8
      <4> QED
        BY <4>1, <4>2, <2>3
    <3>2. <<n, s.name>> \notin granted
      BY <1>3 DEF IndexInv, GrantedPresent
    <3>3. i \in 1 .. m
      BY <2>3, <3>1, <3>2, <1>1, <1>4
    <3>4. Key(q, k, i)'.value = key(i)
      BY <2>3, <1>4, <1>6, <1>8 DEF Key, IndexKey
    <3>5. TreeItem(key(i), i - 1, i - 1) \in v[s.name]
      BY <3>3 DEF Filled
    <3>6. trees'[q][tables'[q].indexes[k].name] = v[s.name]
      BY <2>3, <1>4, <1>6, <1>8
    <3>7. key(i) # nil
      BY <3>3, <1>9
    <3>8. /\ TreeItem(key(i), i - 1, i - 1).index = i - 1
          /\ TreeItem(key(i), i - 1, i - 1).value = key(i)
      BY DEF TreeItem
    <3> HIDE DEF t, name, last, key
    <3> QED
      BY <3>4, <3>5, <3>6, <3>7, <3>8
  <2> QED
    BY <2>1, <2>2, <2>3
<1> QED
  BY <1>11, <1>12, <1>13, <1>14, <1>15 DEF IndexInv

------------------------------------------------------------------------------
(***************************************************************************)
(* CreateTable and DropTable: the table's trees are emptied, and its       *)
(* grants are at most that of the primary key's index, of no row.          *)
(***************************************************************************)
LEMMA PrimaryKeyShape ==
  ASSUME NEW s \in CreateTables
  PROVE  /\ PrimaryKeyIndexes(s.table, s.cols) \in Seq(Index)
         /\ Len(PrimaryKeyIndexes(s.table, s.cols)) \in {0, 1}
<1> DEFINE keys == {i \in DOMAIN s.cols : s.cols[i].primaryKey}
           k == CHOOSE i \in DOMAIN s.cols : s.cols[i].primaryKey
           x == [name |-> pkeyName[s.table], exp |-> Identifier(s.cols[k].name),
                 unique |-> TRUE, primaryKey |-> TRUE]
<1>1. CASE keys = {}
  BY <1>1 DEF PrimaryKeyIndexes
<1>2. CASE keys # {}
  <2>1. k \in DOMAIN s.cols
    BY <1>2
  <2>2. s.cols[k].name \in ColumnNames /\ s.table \in TableNames
    <3>1. s.cols \in Seq(ColumnDefinition) /\ s.table \in TableNames
      BY StatementsAssumption
    <3>2. \A i \in DOMAIN s.cols : s.cols[i] \in ColumnDefinition
      BY <3>1
    <3> QED
      BY <2>1, <3>1, <3>2 DEF ColumnDefinition
  <2>3. x.name \in IndexNames /\ x.exp \in Exprs
    BY <2>2, StatementsAssumption
  <2>4. x \in Index
    BY <2>3 DEF Index
  <2>5. PrimaryKeyIndexes(s.table, s.cols) = <<x>>
    BY <1>2 DEF PrimaryKeyIndexes
  <2> HIDE DEF x
  <2> QED
    BY <2>4, <2>5
<1> QED
  BY <1>1, <1>2

LEMMA NewTableShape ==
  ASSUME NEW s \in CreateTables, BadColumns(s.cols) = {}
  PROVE  NewTable(s.table, s.cols) \in Table
<1>1. s.cols \in Seq(ColumnDefinition)
  BY StatementsAssumption
<1>2. \A i \in DOMAIN s.cols : s.cols[i].datatype \in Datatypes
  BY DEF BadColumns, ColumnError, NoError
<1>3. \A i \in DOMAIN s.cols : s.cols[i].name \in ColumnNames
  <2>1. \A i \in DOMAIN s.cols : s.cols[i] \in ColumnDefinition
    BY <1>1
  <2> QED
    BY <2>1 DEF ColumnDefinition
<1>4. DOMAIN s.cols = 1 .. Len(s.cols) /\ Len(s.cols) \in Nat
  BY <1>1
<1>5. [i \in DOMAIN s.cols |-> s.cols[i].name] \in Seq(ColumnNames)
  BY <1>3, <1>4
<1>6. [i \in DOMAIN s.cols |-> s.cols[i].datatype] \in Seq(Datatypes)
  BY <1>2, <1>4
<1> QED
  BY <1>5, <1>6, PrimaryKeyShape DEF NewTable, Table

\* A name whose table is replaced by an empty one, or by none
LEMMA EmptiedInv ==
  ASSUME IndexInv, NEW n \in TableNames,
         NEW u \in Table \cup {none},
         u # none => u.rows = <<>> /\ Len(u.indexes) \in {0, 1},
         tables' = [tables EXCEPT ![n] = u],
         trees' = [trees EXCEPT ![n] = [x \in IndexNames |-> {}]],
         granted' \subseteq TableNames \X IndexNames,
         \A g \in granted' : g \in granted \/ g[1] = n,
         \A x \in IndexNames : <<n, x>> \in granted' => u # none /\ HasIndex(u, x)
  PROVE  IndexInv'
<1>1. /\ DOMAIN tables = TableNames /\ DOMAIN trees = TableNames
      /\ tables \in [TableNames -> Table \cup {none}]
  BY DEF IndexInv, TypeOK
<1>2. /\ tables'[n] = u /\ trees'[n] = [x \in IndexNames |-> {}]
      /\ \A q \in TableNames \ {n} : tables'[q] = tables[q] /\ trees'[q] = trees[q]
  BY <1>1
<1>3. \A q \in TableNames \ {n} : Exists(q)' <=> Exists(q)
  BY <1>2 DEF Exists
<1>4. Exists(n)' <=> u # none
  BY <1>2 DEF Exists
<1>5. u # none => DOMAIN u.indexes \subseteq {1} /\ u.indexes \in Seq(Index)
  BY DEF Table
<1>6. TypeOK'
  BY <1>1, <1>2 DEF IndexInv, TypeOK
<1>7. NamesDistinct'
  BY <1>2, <1>3, <1>4, <1>5 DEF IndexInv, NamesDistinct
<1>8. GrantedPresent'
  BY <1>2, <1>3, <1>4 DEF IndexInv, GrantedPresent
<1>9. TreeUnique'
  <2>1. u # none => \A k \in DOMAIN u.indexes : trees'[n][u.indexes[k].name] = {}
    <3>1. u # none => \A k \in DOMAIN u.indexes : u.indexes[k] \in Index
      BY <1>5
    <3>2. u # none => \A k \in DOMAIN u.indexes : u.indexes[k].name \in IndexNames
      BY <3>1 DEF Index
    <3> QED
      BY <3>2, <1>2
  <2>2. Exists(n)' => \A k \in DOMAIN tables'[n].indexes :
          trees'[n][tables'[n].indexes[k].name] = {}
    BY <2>1, <1>2, <1>4
  <2>3. \A q \in TableNames \ {n} : Exists(q)' =>
          \A k \in DOMAIN tables'[q].indexes : tables'[q].indexes[k].unique =>
            \A a, b \in trees'[q][tables'[q].indexes[k].name] :
              SameKey(a.value, b.value) => a = b
    BY <1>2, <1>3 DEF IndexInv, TreeUnique
  <2> QED
    BY <2>2, <2>3 DEF TreeUnique
<1>10. IndexCoversRows'
  <2> SUFFICES ASSUME NEW q \in TableNames, Exists(q)',
                      NEW k \in GrantedIndexes(q)',
                      NEW i \in DOMAIN tables'[q].rows
               PROVE  /\ Key(q, k, i)'.value # nil
                      /\ \E ti \in trees'[q][tables'[q].indexes[k].name] :
                           ti.index = i - 1 /\ ti.value = Key(q, k, i)'.value
    BY DEF IndexCoversRows
  <2>1. q # n
    BY <1>2, <1>4
  <2>2. k \in GrantedIndexes(q)
    BY <2>1, <1>2 DEF GrantedIndexes
  <2> QED
    BY <2>1, <2>2, <1>2, <1>3 DEF IndexInv, IndexCoversRows, Key
<1> QED
  BY <1>6, <1>7, <1>8, <1>9, <1>10 DEF IndexInv

------------------------------------------------------------------------------
(***************************************************************************)
(* Every step preserves the invariant.                                     *)
(***************************************************************************)
LEMMA RefuseInv ==
  ASSUME IndexInv, NEW s, NEW err, Refuse(s, err)
  PROVE  IndexInv'
BY UnchangedInv DEF Refuse

LEMMA CreateTableInv ==
  ASSUME IndexInv, NEW s \in CreateTables, CreateTable(s)
  PROVE  IndexInv'
<1> DEFINE n == s.table
           u == NewTable(n, s.cols)
           keys == PrimaryKeyIndexes(n, s.cols)
<1>1. CASE \E err : Refuse(s, err)
  BY <1>1, RefuseInv
<1>2. CASE /\ BadColumns(s.cols) = {}
           /\ tables' = [tables EXCEPT ![n] = u]
           /\ trees' = [trees EXCEPT ![n] = [x \in IndexNames |-> {}]]
           /\ granted' = granted \cup {<<n, x.name>> : x \in ToSet(keys)}
           /\ ~Exists(n)
  <2>1. n \in TableNames
    BY StatementsAssumption
  <2>2. u \in Table /\ u # none
    BY <1>2, NewTableShape, NoneAssumption
  <2>3. u.rows = <<>> /\ u.indexes = keys
    BY DEF NewTable
  <2>4. keys \in Seq(Index) /\ Len(keys) \in {0, 1}
    BY PrimaryKeyShape
  <2>5. \A x \in ToSet(keys) :
          x.name \in IndexNames /\ \E k \in DOMAIN keys : keys[k].name = x.name
    <3>1. \A x \in ToSet(keys) : x \in Index /\ \E k \in DOMAIN keys : keys[k] = x
      BY <2>4 DEF ToSet
    <3> QED
      BY <3>1 DEF Index
  <2>6. \A x \in IndexNames : <<n, x>> \notin granted
    BY <1>2, <2>1 DEF IndexInv, GrantedPresent
  <2>7. \A x \in IndexNames : <<n, x>> \in granted' => HasIndex(u, x)
    BY <1>2, <2>3, <2>5, <2>6 DEF HasIndex
  <2>8. granted' \subseteq TableNames \X IndexNames
    BY <1>2, <2>1, <2>5 DEF IndexInv, TypeOK
  <2>9. \A g \in granted' : g \in granted \/ g[1] = n
    BY <1>2
  <2> HIDE DEF u, keys, n
  <2> QED
    BY <1>2, <2>1, <2>2, <2>3, <2>4, <2>7, <2>8, <2>9, EmptiedInv
<1> QED
  BY <1>1, <1>2 DEF CreateTable

LEMMA DropTableInv ==
  ASSUME IndexInv, NEW s \in DropTables, DropTable(s)
  PROVE  IndexInv'
<1>1. CASE \E err : Refuse(s, err)
  BY <1>1, RefuseInv
<1>2. CASE /\ tables' = [tables EXCEPT ![s.table] = none]
           /\ trees' = [trees EXCEPT ![s.table] = [x \in IndexNames |-> {}]]
           /\ granted' = {g \in granted : g[1] # s.table}
  <2>1. s.table \in TableNames
    BY StatementsAssumption
  <2>2. granted' \subseteq granted /\ granted' \subseteq TableNames \X IndexNames
    BY <1>2 DEF IndexInv, TypeOK
  <2>3. \A x \in IndexNames : <<s.table, x>> \notin granted'
    BY <1>2
  <2> QED
    BY <1>2, <2>1, <2>2, <2>3, EmptiedInv
<1> QED
  BY <1>1, <1>2 DEF DropTable

LEMMA CreateIndexInv ==
  ASSUME IndexInv, NEW s \in CreateIndexes, CreateIndex(s)
  PROVE  IndexInv'
<1> DEFINE n == s.table
           t == tables[n]
           bad == BadRows(t, s)
           Install(m) ==
             /\ tables' = [tables EXCEPT ![n].indexes = Append(@, NewIndex(s))]
             /\ trees' = [trees EXCEPT ![n][s.name] = Filled(t, s.exp, m)]
<1>1. CASE \E err : Refuse(s, err)
  BY <1>1, RefuseInv
<1>2. ASSUME Exists(n), ~HasIndex(t, s.name),
             NEW m \in 0 .. Len(t.rows),
             \A i \in 1 .. m : FillError(t, s, i) = NoError,
             Install(m),
             \/ granted' = granted
             \/ granted' = granted \cup {<<n, s.name>>} /\ m = Len(t.rows)
      PROVE  IndexInv'
  <2> DEFINE u == [t EXCEPT !.indexes = Append(@, NewIndex(s))]
             v == [trees[n] EXCEPT ![s.name] = Filled(t, s.exp, m)]
  <2>1. n \in TableNames /\ s.name \in IndexNames /\ NewIndex(s) \in Index
    BY StatementsAssumption DEF NewIndex, Index
  <2>2. t \in Table
    BY <1>2, <2>1, TableShape DEF IndexInv
  <2>3. /\ u \in Table /\ u.rows = t.rows
        /\ u.indexes = Append(t.indexes, NewIndex(s))
        /\ u.columns = t.columns /\ u.columnTypes = t.columnTypes
    BY <2>1, <2>2, WithIndex
  <2>4. /\ tables' = [tables EXCEPT ![n] = u]
        /\ trees' = [trees EXCEPT ![n] = v]
    BY <1>2
  <2>5. /\ DOMAIN v = IndexNames
        /\ v[s.name] = Filled(t, s.exp, m)
        /\ \A x \in IndexNames \ {s.name} : v[x] = trees[n][x]
    BY <2>1 DEF IndexInv, TypeOK
  <2>6. /\ Exists(n) /\ ~HasIndex(t, s.name) /\ m \in 0 .. Len(t.rows)
        /\ \A i \in 1 .. m : FillError(t, s, i) = NoError
        /\ \/ granted' = granted
           \/ granted' = granted \cup {<<n, s.name>>} /\ m = Len(t.rows)
    BY <1>2
  <2> HIDE DEF n, u, v, bad, Install
  <2> QED
    BY <2>1, <2>3, <2>4, <2>5, <2>6, FilledInv
<1>3. CASE /\ Exists(n) /\ ~HasIndex(t, s.name) /\ bad # {}
           /\ Install(Min(bad) - 1)
           /\ granted' = granted
  <2>1. t.rows \in Seq(Row)
    BY <1>3, StatementsAssumption, TableShape DEF IndexInv
  <2>2. bad \subseteq 1 .. Len(t.rows)
    BY <2>1 DEF BadRows
  <2>3. Min(bad) \in bad /\ \A i \in bad : Min(bad) <= i
    BY <1>3, <2>2, LeastNatural
  <2>4. Min(bad) - 1 \in 0 .. Len(t.rows)
    BY <2>1, <2>2, <2>3
  <2>5. \A i \in 1 .. (Min(bad) - 1) : i \in DOMAIN t.rows /\ i \notin bad
    BY <2>1, <2>2, <2>3
  <2>6. \A i \in 1 .. (Min(bad) - 1) : FillError(t, s, i) = NoError
    BY <2>5 DEF BadRows
  <2> HIDE DEF n, t, bad, Install
  <2> QED
    BY <1>2, <1>3, <2>4, <2>6
<1>4. CASE /\ Exists(n) /\ ~HasIndex(t, s.name) /\ bad = {}
           /\ Install(Len(t.rows))
           /\ granted' = granted \cup {<<n, s.name>>}
  <2>1. t.rows \in Seq(Row)
    BY <1>4, StatementsAssumption, TableShape DEF IndexInv
  <2>2. \A i \in 1 .. Len(t.rows) : FillError(t, s, i) = NoError
    BY <1>4, <2>1 DEF BadRows
  <2>3. Len(t.rows) \in 0 .. Len(t.rows)
    BY <2>1
  <2> HIDE DEF n, t, bad, Install
  <2> QED
    BY <1>2, <1>4, <2>2, <2>3
<1> QED
  BY <1>1, <1>3, <1>4 DEF CreateIndex

LEMMA InsertInv ==
  ASSUME IndexInv, NEW s \in Inserts, Insert(s)
  PROVE  IndexInv'
<1> DEFINE n == s.table
           t == tables[n]
           row == RowOf(s.values)
           bad == Refusals(n, row)
           Change(rows, m) ==
             /\ tables' = [tables EXCEPT ![n].rows = rows]
             /\ trees' = [trees EXCEPT ![n] = Added(n, row, Len(t.rows), m)]
             /\ granted' = granted
<1>1. CASE \E err : Refuse(s, err)
  BY <1>1, RefuseInv
<1>2. n \in TableNames /\ row \in Row
  BY StatementsAssumption DEF Row
<1>3. ASSUME Exists(n),
             NEW rows, NEW m \in 0 .. Len(t.indexes),
             \/ rows = t.rows
             \/ rows = Append(t.rows, row) /\ m = Len(t.indexes),
             \A k \in 1 .. m : InsertError(n, row, k) = NoError,
             Change(rows, m)
      PROVE  IndexInv'
  <2> DEFINE u == [t EXCEPT !.rows = rows]
  <2>1. t \in Table /\ t.rows \in Seq(Row)
    BY <1>2, <1>3, TableShape DEF IndexInv
  <2>2. rows \in Seq(Row)
    <3> HIDE DEF t, row, Change
    <3> QED
      BY <1>2, <1>3, <2>1
  <2>3. /\ u \in Table /\ u.rows = rows /\ u.indexes = t.indexes
        /\ u.columns = t.columns /\ u.columnTypes = t.columnTypes
    BY <2>1, <2>2, WithRows
  <2>4. /\ tables' = [tables EXCEPT ![n] = u]
        /\ trees' = [trees EXCEPT ![n] = Added(n, row, Len(t.rows), m)]
        /\ granted' = granted
    BY <1>3
  <2>5. /\ Exists(n) /\ m \in 0 .. Len(t.indexes)
        /\ \/ rows = t.rows
           \/ rows = Append(t.rows, row) /\ m = Len(t.indexes)
        /\ \A k \in 1 .. m : InsertError(n, row, k) = NoError
    BY <1>3
  <2> HIDE DEF n, u, bad, Change, row
  <2> QED
    BY <1>2, <2>3, <2>4, <2>5, AddedInv
<1>4. Exists(n) => t.rows \in Seq(Row) /\ t.indexes \in Seq(Index)
  BY <1>2, TableShape DEF IndexInv
<1>5. CASE /\ Exists(n) /\ bad # {}
           /\ Change(DropRow(Append(t.rows, row)), Min(bad) - 1)
  <2>1. DropRow(Append(t.rows, row)) = t.rows
    <3> HIDE DEF t, row, bad, Change
    <3> QED
      BY <1>2, <1>4, <1>5 DEF DropRow
  <2>2. bad \subseteq 1 .. Len(t.indexes)
    BY <1>4, <1>5 DEF Refusals
  <2>3. Min(bad) \in bad /\ \A k \in bad : Min(bad) <= k
    BY <1>5, <2>2, LeastNatural
  <2>4. Min(bad) - 1 \in 0 .. Len(t.indexes)
    BY <1>4, <1>5, <2>2, <2>3
  <2>5. \A k \in 1 .. (Min(bad) - 1) : k \in DOMAIN t.indexes /\ k \notin bad
    BY <1>4, <1>5, <2>2, <2>3
  <2>6. \A k \in 1 .. (Min(bad) - 1) : InsertError(n, row, k) = NoError
    BY <2>5 DEF Refusals
  <2> HIDE DEF n, t, row, bad, Change
  <2> QED
    BY <1>3, <1>5, <2>1, <2>4, <2>6
<1>6. CASE /\ Exists(n) /\ bad = {}
           /\ Change(Append(t.rows, row), Len(t.indexes))
  <2>1. \A k \in 1 .. Len(t.indexes) : InsertError(n, row, k) = NoError
    BY <1>4, <1>6 DEF Refusals
  <2>2. Len(t.indexes) \in 0 .. Len(t.indexes)
    BY <1>4, <1>6
  <2> HIDE DEF n, t, row, bad, Change
  <2> QED
    BY <1>3, <1>6, <2>1, <2>2
<1> QED
  BY <1>1, <1>5, <1>6 DEF Insert

LEMMA NextInv == IndexInv /\ [Next]_vars => IndexInv'
<1> SUFFICES ASSUME IndexInv, [Next]_vars PROVE IndexInv'
  OBVIOUS
<1>1. ASSUME NEW s \in CreateTables, CreateTable(s) PROVE IndexInv'
  BY <1>1, CreateTableInv
<1>2. ASSUME NEW s \in DropTables, DropTable(s) PROVE IndexInv'
  BY <1>2, DropTableInv
<1>3. ASSUME NEW s \in CreateIndexes, CreateIndex(s) PROVE IndexInv'
  BY <1>3, CreateIndexInv
<1>4. ASSUME NEW s \in Inserts, Insert(s) PROVE IndexInv'
  BY <1>4, InsertInv
<1>5. ASSUME NEW s \in Selects, Select(s) PROVE IndexInv'
  BY <1>5, UnchangedInv DEF Select
<1>6. CASE UNCHANGED vars
  BY <1>6, UnchangedInv DEF vars
<1> QED
  BY <1>1, <1>2, <1>3, <1>4, <1>5, <1>6 DEF Next

------------------------------------------------------------------------------
(***************************************************************************)
(* What a step may do to a table that is there before and after it, and to *)
(* which tables there are when the step returns an error.                  *)
(***************************************************************************)
RowsKept(q) ==
  \/ tables'[q].rows = tables[q].rows
  \/ /\ reply'.err = NoError
     /\ \E row \in Row : tables'[q].rows = Append(tables[q].rows, row)

Effect ==
  \A q \in TableNames :
    /\ Exists(q) /\ Exists(q)' => RowsKept(q) /\ tables'[q].columns = tables[q].columns
    /\ reply'.err # NoError => (Exists(q) <=> Exists(q)')

LEMMA UnchangedEffect ==
  ASSUME UNCHANGED tables
  PROVE  Effect
BY DEF Effect, RowsKept, Exists

\* A step that replaces one table by another with the same columns
LEMMA ReplacedEffect ==
  ASSUME TypeOK, NEW n \in TableNames, Exists(n), NEW u \in Table,
         tables' = [tables EXCEPT ![n] = u],
         u.columns = tables[n].columns,
         \/ u.rows = tables[n].rows
         \/ reply'.err = NoError /\ \E row \in Row : u.rows = Append(tables[n].rows, row)
  PROVE  Effect
<1>1. /\ tables'[n] = u
      /\ \A q \in TableNames \ {n} : tables'[q] = tables[q]
  BY DEF TypeOK
<1>2. \A q \in TableNames : Exists(q)' <=> Exists(q)
  BY <1>1, NoneAssumption DEF Exists
<1> QED
  BY <1>1, <1>2 DEF Effect, RowsKept

LEMMA ReplyError == \A s, err : Reply(s, err).err = err
  BY DEF Reply

LEMMA CreateTableEffect ==
  ASSUME IndexInv, NEW s \in CreateTables, CreateTable(s)
  PROVE  Effect
<1>1. CASE \E err : Refuse(s, err)
  BY <1>1, UnchangedEffect DEF Refuse
<1>2. CASE /\ ~Exists(s.table)
           /\ tables' = [tables EXCEPT ![s.table] = NewTable(s.table, s.cols)]
           /\ reply' = Reply(s, NoError)
  <2>1. reply'.err = NoError
    BY <1>2, ReplyError
  <2>2. \A q \in TableNames \ {s.table} : tables'[q] = tables[q]
    BY <1>2 DEF IndexInv, TypeOK
  <2> QED
    BY <1>2, <2>1, <2>2 DEF Effect, RowsKept, Exists
<1> QED
  BY <1>1, <1>2 DEF CreateTable

LEMMA DropTableEffect ==
  ASSUME IndexInv, NEW s \in DropTables, DropTable(s)
  PROVE  Effect
<1>1. CASE \E err : Refuse(s, err)
  BY <1>1, UnchangedEffect DEF Refuse
<1>2. CASE /\ tables' = [tables EXCEPT ![s.table] = none]
           /\ reply' = Reply(s, NoError)
  <2>1. reply'.err = NoError
    BY <1>2, ReplyError
  <2>2. s.table \in TableNames /\ tables'[s.table] = none
    BY <1>2, StatementsAssumption DEF IndexInv, TypeOK
  <2>3. \A q \in TableNames \ {s.table} : tables'[q] = tables[q]
    BY <1>2 DEF IndexInv, TypeOK
  <2> QED
    BY <2>1, <2>2, <2>3 DEF Effect, RowsKept, Exists
<1> QED
  BY <1>1, <1>2 DEF DropTable

LEMMA CreateIndexEffect ==
  ASSUME IndexInv, NEW s \in CreateIndexes, CreateIndex(s)
  PROVE  Effect
<1> DEFINE n == s.table
           t == tables[n]
           u == [t EXCEPT !.indexes = Append(@, NewIndex(s))]
<1>1. CASE \E err : Refuse(s, err)
  BY <1>1, UnchangedEffect DEF Refuse
<1>2. CASE /\ Exists(n)
           /\ tables' = [tables EXCEPT ![n].indexes = Append(@, NewIndex(s))]
  <2>1. n \in TableNames /\ NewIndex(s) \in Index
    BY StatementsAssumption DEF NewIndex, Index
  <2>2. t \in Table
    BY <1>2, <2>1, TableShape DEF IndexInv
  <2>3. u \in Table /\ u.rows = t.rows /\ u.columns = t.columns
    BY <2>1, <2>2, WithIndex
  <2>4. tables' = [tables EXCEPT ![n] = u]
    BY <1>2
  <2> HIDE DEF u
  <2> QED
    BY <1>2, <2>1, <2>3, <2>4, ReplacedEffect DEF IndexInv
<1> QED
  BY <1>1, <1>2 DEF CreateIndex

LEMMA InsertEffect ==
  ASSUME IndexInv, NEW s \in Inserts, Insert(s)
  PROVE  Effect
<1> DEFINE n == s.table
           t == tables[n]
           row == RowOf(s.values)
<1>1. CASE \E err : Refuse(s, err)
  BY <1>1, UnchangedEffect DEF Refuse
<1>2. n \in TableNames /\ row \in Row
  BY StatementsAssumption DEF Row
<1>3. ASSUME Exists(n), NEW rows,
             \/ rows = t.rows
             \/ rows = Append(t.rows, row) /\ reply' = Reply(s, NoError),
             tables' = [tables EXCEPT ![n].rows = rows]
      PROVE  Effect
  <2> DEFINE u == [t EXCEPT !.rows = rows]
  <2>1. t \in Table /\ t.rows \in Seq(Row)
    BY <1>2, <1>3, TableShape DEF IndexInv
  <2>2. tables' = [tables EXCEPT ![n] = u]
    BY <1>3
  <2>3. \/ rows = t.rows
        \/ rows = Append(t.rows, row) /\ reply'.err = NoError
    BY <1>3, ReplyError
  <2> HIDE DEF row
  <2>4. rows \in Seq(Row)
    <3>1. PICK old : old = t.rows
      OBVIOUS
    <3>2. old \in Seq(Row) /\ row \in Row /\ (rows = old \/ rows = Append(old, row))
      BY <1>2, <2>1, <2>3, <3>1
    <3> QED
      BY ONLY <3>2
  <2>5. u \in Table /\ u.rows = rows /\ u.columns = t.columns
    BY <2>1, <2>4, WithRows
  <2> HIDE DEF u
  <2> QED
    BY <1>2, <1>3, <2>2, <2>3, <2>5, ReplacedEffect DEF IndexInv
<1>4. CASE /\ Exists(n)
           /\ tables' = [tables EXCEPT ![n].rows = DropRow(Append(@, row))]
  <2>1. t.rows \in Seq(Row)
    BY <1>2, <1>4, TableShape DEF IndexInv
  <2>2. DropRow(Append(t.rows, row)) = t.rows
    <3> HIDE DEF t, row
    <3> QED
      BY <1>2, <2>1 DEF DropRow
  <2> HIDE DEF row
  <2> QED
    BY <1>3, <1>4, <2>2
<1>5. CASE /\ Exists(n)
           /\ tables' = [tables EXCEPT ![n].rows = Append(@, row)]
           /\ reply' = Reply(s, NoError)
  <2> HIDE DEF row
  <2> QED
    BY <1>3, <1>5
<1> QED
  BY <1>1, <1>4, <1>5 DEF Insert

LEMMA StepEffect == IndexInv /\ [Next]_vars => [Effect]_vars
<1> SUFFICES ASSUME IndexInv, Next PROVE Effect
  OBVIOUS
<1>1. ASSUME NEW s \in CreateTables, CreateTable(s) PROVE Effect
  BY <1>1, CreateTableEffect
<1>2. ASSUME NEW s \in DropTables, DropTable(s) PROVE Effect
  BY <1>2, DropTableEffect
<1>3. ASSUME NEW s \in CreateIndexes, CreateIndex(s) PROVE Effect
  BY <1>3, CreateIndexEffect
<1>4. ASSUME NEW s \in Inserts, Insert(s) PROVE Effect
  BY <1>4, InsertEffect
<1>5. ASSUME NEW s \in Selects, Select(s) PROVE Effect
  BY <1>5, UnchangedEffect DEF Select
<1> QED
  BY <1>1, <1>2, <1>3, <1>4, <1>5 DEF Next

------------------------------------------------------------------------------
(***************************************************************************)
(* Two rows of one key would have two entries of one key in its tree.      *)
(***************************************************************************)
LEMMA TreesMakeUnique == IndexInv => UniqueEnforced
<1> SUFFICES ASSUME IndexInv, NEW n \in TableNames, Exists(n),
                    NEW k \in GrantedIndexes(n), tables[n].indexes[k].unique,
                    NEW i \in DOMAIN tables[n].rows,
                    NEW j \in DOMAIN tables[n].rows,
                    SameKey(Key(n, k, i).value, Key(n, k, j).value)
             PROVE  i = j
  BY DEF UniqueEnforced
<1> DEFINE tree == trees[n][tables[n].indexes[k].name]
<1>1. PICK a \in tree : a.index = i - 1 /\ a.value = Key(n, k, i).value
  BY DEF IndexInv, IndexCoversRows
<1>2. PICK b \in tree : b.index = j - 1 /\ b.value = Key(n, k, j).value
  BY DEF IndexInv, IndexCoversRows
<1>3. k \in DOMAIN tables[n].indexes
  BY DEF GrantedIndexes
<1>4. a = b
  BY <1>1, <1>2, <1>3 DEF IndexInv, TreeUnique
<1>5. i \in Nat /\ j \in Nat
  BY TableShape DEF IndexInv
<1> QED
  BY <1>1, <1>2, <1>4, <1>5

------------------------------------------------------------------------------
(***************************************************************************)
(* The theorems about every behaviour.                                     *)
(***************************************************************************)

\* The inductive invariant holds, whatever statements are executed in
\* whatever order and wherever they fail.
THEOREM IndexesSound == Spec => []IndexInv
<1>1. IndexInv /\ [Next]_vars => IndexInv'
  BY NextInv
<1> QED
  BY InitInv, <1>1, PTL DEF Spec

\* The catalogue, the rows, the indexes and the tree items are of their types.
THEOREM TypeCorrect == Spec => []TypeOK
<1>1. IndexInv => TypeOK
  BY DEF IndexInv
<1> QED
  BY IndexesSound, <1>1, PTL

\* Every row has its entry in every index whose creation succeeded.
THEOREM RowsIndexed == Spec => []IndexCoversRows
<1>1. IndexInv => IndexCoversRows
  BY DEF IndexInv
<1> QED
  BY IndexesSound, <1>1, PTL

\* No two rows share a key of a unique index whose creation succeeded: their
\* entries would be two of one key in its tree.
THEOREM KeysUnique == Spec => []UniqueEnforced
<1> QED
  BY IndexesSound, TreesMakeUnique, PTL

\* A table that stays keeps its rows, in their order, and gets at most one more.
THEOREM RowsOnlyAppended == Spec => RowsAppendOnly
<1> DEFINE A == \A n \in TableNames : Exists(n) /\ Exists(n)' =>
                  /\ IsPrefix(tables[n].rows, tables'[n].rows)
                  /\ Len(tables'[n].rows) <= Len(tables[n].rows) + 1
<1>1. IndexInv /\ [Next]_vars => [A]_vars
  <2> SUFFICES ASSUME IndexInv, Effect, NEW n \in TableNames, Exists(n), Exists(n)'
               PROVE  /\ IsPrefix(tables[n].rows, tables'[n].rows)
                      /\ Len(tables'[n].rows) <= Len(tables[n].rows) + 1
    BY StepEffect
  <2> DEFINE before == tables[n].rows
             after == tables'[n].rows
  <2>1. before \in Seq(Row)
    BY TableShape DEF IndexInv
  <2>2. after = before \/ \E row \in Row : after = Append(before, row)
    BY DEF Effect, RowsKept
  <2> HIDE DEF before, after
  <2>3. IsPrefix(before, after) /\ Len(after) <= Len(before) + 1
    BY <2>1, <2>2 DEF IsPrefix
  <2> QED
    BY <2>3 DEF before, after
<1> QED
  BY IndexesSound, <1>1, PTL DEF Spec, RowsAppendOnly

\* A statement that returns an error leaves every table's data as it was.
THEOREM ErrorsChangeNoData == Spec => ErrorsKeepData
<1> DEFINE A == reply'.err # NoError =>
                  \A n \in TableNames :
                    /\ Exists(n) <=> Exists(n)'
                    /\ Exists(n) => /\ tables'[n].rows = tables[n].rows
                                    /\ tables'[n].columns = tables[n].columns
<1>1. IndexInv /\ [Next]_vars => [A]_vars
  BY StepEffect DEF Effect, RowsKept
<1> QED
  BY IndexesSound, <1>1, PTL DEF Spec, ErrorsKeepData
=============================================================================
