---------------------- MODULE BackendRefinement_proofs ----------------------
(***************************************************************************)
(* Every behaviour of the in-memory backend is one of a store that has no  *)
(* index: initial states map to its initial state, each statement to one   *)
(* of its steps.                                                           *)
(***************************************************************************)
EXTENDS BackendRefinement, MemoryBackend_proofs

(***************************************************************************)
(* The rows of a table conform to its keys, in any state of the invariant. *)
(***************************************************************************)
Conforming == \A n \in TableNames : Exists(n) => Store!Conforms(AbstractTable(n))

LEMMA RowsConform == IndexInv => Conforming
<1> SUFFICES ASSUME IndexInv, NEW n \in TableNames, Exists(n),
                    NEW key \in AbstractKeys(n), NEW i \in DOMAIN tables[n].rows
             PROVE  LET value(j) == KeyOf(tables[n].columns, tables[n].columnTypes,
                                          tables[n].rows[j], key.exp)
                    IN  /\ value(i) # nil
                        /\ key.unique =>
                             \A j \in 1 .. (i - 1) : ~SameKey(value(j), value(i))
  BY DEF Conforming, AbstractTable, Store!Conforms, Store!KeyIn
<1>1. PICK k \in GrantedIndexes(n) :
        /\ key.exp = tables[n].indexes[k].exp
        /\ key.unique = tables[n].indexes[k].unique
  BY DEF AbstractKeys
<1>2. \A j : KeyOf(tables[n].columns, tables[n].columnTypes, tables[n].rows[j], key.exp)
             = Key(n, k, j).value
  BY <1>1 DEF KeyOf, Key, IndexKey
<1>3. Key(n, k, i).value # nil
  BY DEF IndexInv, IndexCoversRows
<1>4. ASSUME key.unique, NEW j \in 1 .. (i - 1)
      PROVE  ~SameKey(Key(n, k, j).value, Key(n, k, i).value)
  <2>1. tables[n].rows \in Seq(Row)
    BY TableShape DEF IndexInv
  <2>2. j \in DOMAIN tables[n].rows /\ i # j
    BY <2>1
  <2> QED
    BY <1>1, <1>4, <2>2, TreesMakeUnique DEF UniqueEnforced
<1> QED
  BY <1>2, <1>3, <1>4

------------------------------------------------------------------------------
(***************************************************************************)
(* What a step does to the catalogue.                                      *)
(***************************************************************************)
LEMMA CatalogueKept ==
  ASSUME UNCHANGED <<tables, granted>>
  PROVE  UNCHANGED Catalogue
BY DEF Catalogue, AbstractTable, AbstractKeys, GrantedIndexes, Exists

\* A step that leaves all tables but n alone, and leaves n there
LEMMA CatalogueBecomes ==
  ASSUME NEW n \in TableNames, Exists(n)', NEW t, AbstractTable(n)' = t,
         \A q \in TableNames \ {n} : tables'[q] = tables[q],
         \A q \in TableNames \ {n} : \A x : <<q, x>> \in granted' <=> <<q, x>> \in granted
  PROVE  Store!Becomes(n, t)
<1>1. \A q \in TableNames \ {n} : Exists(q)' <=> Exists(q)
  BY DEF Exists
<1>2. ASSUME NEW q \in TableNames \ {n} PROVE AbstractTable(q)' = AbstractTable(q)
  <2>1. GrantedIndexes(q)' = GrantedIndexes(q)
    BY DEF GrantedIndexes
  <2>2. AbstractKeys(q)' = AbstractKeys(q)
    BY <2>1 DEF AbstractKeys
  <2> QED
    BY <2>2 DEF AbstractTable
<1>3. {q \in TableNames : Exists(q)}' = DOMAIN Catalogue \cup {n}
  BY <1>1 DEF Catalogue
<1>4. Catalogue' = [q \in {q \in TableNames : Exists(q)}' |-> AbstractTable(q)']
  BY DEF Catalogue
<1>5. \A q \in DOMAIN Catalogue : q \in TableNames /\ Catalogue[q] = AbstractTable(q)
  BY DEF Catalogue
<1> QED
  BY <1>2, <1>3, <1>4, <1>5 DEF Store!Becomes

LEMMA OutcomeOf ==
  ASSUME NEW s, NEW err, reply' = Reply(s, err)
  PROVE  Outcome' = [stmt |-> s, ok |-> err = NoError]
BY DEF Outcome, Reply

LEMMA Refused ==
  ASSUME NEW s \in Store!Statements, NEW err, err # NoError, reply' = Reply(s, err),
         UNCHANGED <<tables, granted>>
  PROVE  Store!Next
BY OutcomeOf, CatalogueKept DEF Store!Next, Store!Refuse

LEMMA Acknowledged ==
  ASSUME NEW s, reply' = Reply(s, NoError)
  PROVE  Store!Acknowledge(s)
BY OutcomeOf DEF Store!Acknowledge

------------------------------------------------------------------------------
(***************************************************************************)
(* Each statement is a step of the store.                                  *)
(***************************************************************************)
LEMMA PrimaryKeysAsIndexes ==
  ASSUME NEW s \in CreateTables, BadColumns(s.cols) = {}
  PROVE  LET keys == PrimaryKeyIndexes(s.table, s.cols)
         IN  Store!PrimaryKeys(s) =
               {[name |-> keys[k].name, exp |-> keys[k].exp, unique |-> keys[k].unique]
                  : k \in DOMAIN keys}
<1> DEFINE keys == PrimaryKeyIndexes(s.table, s.cols)
           columns == {i \in DOMAIN s.cols : s.cols[i].primaryKey}
           c == CHOOSE i \in DOMAIN s.cols : s.cols[i].primaryKey
           key(i) == [name |-> pkeyName[s.table], exp |-> Identifier(s.cols[i].name),
                      unique |-> TRUE]
<1>1. Store!PrimaryKeys(s) = {key(i) : i \in columns}
  BY DEF Store!PrimaryKeys
<1>2. CASE columns = {}
  <2>1. keys = <<>>
    BY <1>2 DEF PrimaryKeyIndexes
  <2> QED
    BY <1>1, <1>2, <2>1
<1>3. CASE columns # {}
  <2>1. c \in columns
    BY <1>3
  <2>2. ASSUME NEW i \in columns, NEW j \in columns, j \in 1 .. (i - 1) PROVE FALSE
    <3>1. i \in BadColumns(s.cols)
      BY <2>2 DEF BadColumns, ColumnError, NoError
    <3> QED
      BY <3>1
  <2>3. s.cols \in Seq(ColumnDefinition)
    BY StatementsAssumption
  <2>4. columns \subseteq 1 .. Len(s.cols) /\ Len(s.cols) \in Nat
    BY <2>3
  <2>5. \A i \in columns : i = c
    <3> TAKE i \in columns
    <3> HIDE DEF columns, c
    <3>1. ~(i < c) /\ ~(c < i)
      BY <2>1, <2>2, <2>4
    <3> QED
      BY <2>1, <2>4, <3>1
  <2>6. keys = <<[name |-> pkeyName[s.table], exp |-> Identifier(s.cols[c].name),
                  unique |-> TRUE, primaryKey |-> TRUE]>>
    BY <1>3 DEF PrimaryKeyIndexes
  <2>7. {[name |-> keys[k].name, exp |-> keys[k].exp, unique |-> keys[k].unique]
           : k \in DOMAIN keys} = {key(c)}
    <3>1. /\ DOMAIN keys = {1} /\ keys[1].name = pkeyName[s.table]
          /\ keys[1].exp = Identifier(s.cols[c].name) /\ keys[1].unique = TRUE
      BY <2>6
    <3> HIDE DEF keys, c
    <3> QED
      BY <3>1
  <2>8. {key(i) : i \in columns} = {key(c)}
    <3> HIDE DEF columns, c, key
    <3> QED
      BY <2>1, <2>5
  <2> QED
    BY <1>1, <2>7, <2>8
<1> QED
  BY <1>2, <1>3

LEMMA CreateTableStep ==
  ASSUME IndexInv, NEW s \in CreateTables, CreateTable(s)
  PROVE  Store!Next
<1> DEFINE n == s.table
           keys == PrimaryKeyIndexes(n, s.cols)
<1>1. s \in Store!Statements /\ n \in TableNames
  BY StatementsAssumption DEF Store!Statements
<1>2. CASE Refuse(s, "ErrTableAlreadyExists")
  BY <1>1, <1>2, Refused DEF Refuse, NoError
<1>3. CASE /\ BadColumns(s.cols) # {}
           /\ Refuse(s, ColumnError(s.cols, Min(BadColumns(s.cols))))
  <2>1. BadColumns(s.cols) \subseteq Nat
    <3>1. s.cols \in Seq(ColumnDefinition)
      BY StatementsAssumption
    <3> QED
      BY <3>1 DEF BadColumns
  <2>2. Min(BadColumns(s.cols)) \in BadColumns(s.cols)
    BY <1>3, <2>1, LeastNatural
  <2>3. ColumnError(s.cols, Min(BadColumns(s.cols))) # NoError
    BY <2>2 DEF BadColumns
  <2> QED
    BY <1>1, <1>3, <2>3, Refused DEF Refuse
<1>4. CASE /\ ~Exists(n) /\ BadColumns(s.cols) = {}
           /\ tables' = [tables EXCEPT ![n] = NewTable(n, s.cols)]
           /\ granted' = granted \cup {<<n, x.name>> : x \in ToSet(keys)}
           /\ reply' = Reply(s, NoError)
  <2>1. /\ tables'[n] = NewTable(n, s.cols)
        /\ \A q \in TableNames \ {n} : tables'[q] = tables[q]
    BY <1>1, <1>4 DEF IndexInv, TypeOK
  <2>2. Exists(n)'
    BY <1>4, <2>1, NewTableShape, NoneAssumption DEF Exists
  <2>3. \A q \in TableNames \ {n} : \A x : <<q, x>> \in granted' <=> <<q, x>> \in granted
    BY <1>4
  <2>4. \A t : AbstractTable(n)' = t => Store!Becomes(n, t)
    BY <1>1, <2>1, <2>2, <2>3, CatalogueBecomes
  <2>5. GrantedIndexes(n)' = DOMAIN keys
    <3>1. tables'[n].indexes = keys
      BY <2>1 DEF NewTable
    <3>2. \A k \in DOMAIN keys : <<n, keys[k].name>> \in granted'
      BY <1>4 DEF ToSet
    <3> HIDE DEF keys
    <3> QED
      BY <3>1, <3>2 DEF GrantedIndexes
  <2>6. AbstractKeys(n)' = Store!PrimaryKeys(s)
    <3>1. tables'[n].indexes = keys
      BY <2>1 DEF NewTable
    <3>2. AbstractKeys(n)' =
            {[name |-> keys[k].name, exp |-> keys[k].exp, unique |-> keys[k].unique]
               : k \in DOMAIN keys}
      BY <2>5, <3>1 DEF AbstractKeys
    <3> QED
      BY <1>4, <3>2, PrimaryKeysAsIndexes
  <2>7. AbstractTable(n)' =
          [columns     |-> [i \in DOMAIN s.cols |-> s.cols[i].name],
           columnTypes |-> [i \in DOMAIN s.cols |-> s.cols[i].datatype],
           rows        |-> <<>>,
           keys        |-> Store!PrimaryKeys(s)]
    BY <2>1, <2>6 DEF AbstractTable, NewTable
  <2>8. n \notin DOMAIN Catalogue
    BY <1>4 DEF Catalogue
  <2>9. Store!Create(s)
    BY <1>4, <2>4, <2>7, <2>8, Acknowledged DEF Store!Create
  <2> QED
    BY <2>9 DEF Store!Next
<1> QED
  BY <1>2, <1>3, <1>4 DEF CreateTable

LEMMA DropTableStep ==
  ASSUME IndexInv, NEW s \in DropTables, DropTable(s)
  PROVE  Store!Next
<1> DEFINE n == s.table
<1>1. s \in Store!Statements /\ n \in TableNames
  BY StatementsAssumption DEF Store!Statements
<1>2. CASE Refuse(s, "ErrTableDoesNotExist")
  BY <1>1, <1>2, Refused DEF Refuse, NoError
<1>3. CASE /\ Exists(n)
           /\ tables' = [tables EXCEPT ![n] = none]
           /\ granted' = {g \in granted : g[1] # n}
           /\ reply' = Reply(s, NoError)
  <2>1. /\ tables'[n] = none
        /\ \A q \in TableNames \ {n} : tables'[q] = tables[q]
    BY <1>1, <1>3 DEF IndexInv, TypeOK
  <2>2. {q \in TableNames : Exists(q)}' = DOMAIN Catalogue \ {n}
    BY <2>1 DEF Catalogue, Exists
  <2>3. ASSUME NEW q \in TableNames \ {n} PROVE AbstractTable(q)' = AbstractTable(q)
    <3>1. \A x : <<q, x>> \in granted' <=> <<q, x>> \in granted
      BY <1>3
    <3>2. GrantedIndexes(q)' = GrantedIndexes(q)
      BY <2>1, <3>1 DEF GrantedIndexes
    <3>3. AbstractKeys(q)' = AbstractKeys(q)
      BY <2>1, <3>2 DEF AbstractKeys
    <3> QED
      BY <2>1, <3>3 DEF AbstractTable
  <2>4. Catalogue' = [q \in {q \in TableNames : Exists(q)}' |-> AbstractTable(q)']
    BY DEF Catalogue
  <2>5. \A q \in DOMAIN Catalogue : q \in TableNames /\ Catalogue[q] = AbstractTable(q)
    BY DEF Catalogue
  <2>6. Catalogue' = [q \in DOMAIN Catalogue \ {n} |-> Catalogue[q]]
    BY <2>2, <2>3, <2>4, <2>5
  <2>7. n \in DOMAIN Catalogue
    BY <1>1, <1>3 DEF Catalogue
  <2>8. Store!Drop(s)
    BY <1>3, <2>6, <2>7, Acknowledged DEF Store!Drop
  <2> QED
    BY <2>8 DEF Store!Next
<1> QED
  BY <1>2, <1>3 DEF DropTable

LEMMA CreateIndexStep ==
  ASSUME IndexInv, Conforming', NEW s \in CreateIndexes, CreateIndex(s)
  PROVE  Store!Next
<1> DEFINE n == s.table
           t == tables[n]
           bad == BadRows(t, s)
           u == [t EXCEPT !.indexes = Append(@, NewIndex(s))]
<1>1. /\ s \in Store!Statements
      /\ n \in TableNames /\ s.name \in IndexNames /\ NewIndex(s) \in Index
  BY StatementsAssumption DEF Store!Statements, NewIndex, Index
<1>2. CASE \E err : err # NoError /\ Refuse(s, err)
  BY <1>1, <1>2, Refused DEF Refuse
<1>3. ASSUME Exists(n), tables' = [tables EXCEPT ![n].indexes = Append(@, NewIndex(s))]
      PROVE  /\ tables'[n] = u /\ u.rows = t.rows
             /\ u.indexes = Append(t.indexes, NewIndex(s)) /\ t.indexes \in Seq(Index)
             /\ u.columns = t.columns /\ u.columnTypes = t.columnTypes
             /\ Exists(n)'
             /\ \A q \in TableNames \ {n} : tables'[q] = tables[q]
  <2>1. t \in Table /\ t.indexes \in Seq(Index)
    BY <1>1, <1>3, TableShape DEF IndexInv
  <2>2. /\ u \in Table /\ u.rows = t.rows
        /\ u.indexes = Append(t.indexes, NewIndex(s))
        /\ u.columns = t.columns /\ u.columnTypes = t.columnTypes
    BY <1>1, <2>1, WithIndex
  <2>3. tables' = [tables EXCEPT ![n] = u]
    BY <1>3
  <2> HIDE DEF u
  <2>4. tables'[n] = u /\ \A q \in TableNames \ {n} : tables'[q] = tables[q]
    BY <1>1, <2>3 DEF IndexInv, TypeOK
  <2>5. Exists(n)'
    BY <2>2, <2>4, NoneAssumption DEF Exists
  <2> QED
    BY <2>1, <2>2, <2>4, <2>5
<1>4. ASSUME Exists(n), ~HasIndex(t, s.name),
             tables' = [tables EXCEPT ![n].indexes = Append(@, NewIndex(s))]
      PROVE  /\ \A k \in DOMAIN t.indexes :
                  k \in DOMAIN u.indexes /\ u.indexes[k] = t.indexes[k]
             /\ Len(t.indexes) + 1 \in DOMAIN u.indexes
             /\ u.indexes[Len(t.indexes) + 1] = NewIndex(s)
             /\ \A k \in DOMAIN u.indexes :
                  k \in DOMAIN t.indexes \/ k = Len(t.indexes) + 1
  <2>1. u.indexes = Append(t.indexes, NewIndex(s)) /\ t.indexes \in Seq(Index)
    BY <1>3, <1>4
  <2> HIDE DEF u, t
  <2> QED
    BY <1>1, <2>1
<1>5. ASSUME Exists(n) PROVE <<n, s.name>> \in granted => HasIndex(t, s.name)
  BY <1>1 DEF IndexInv, GrantedPresent
<1>6. CASE /\ Exists(n) /\ ~HasIndex(t, s.name) /\ bad # {}
           /\ tables' = [tables EXCEPT ![n].indexes = Append(@, NewIndex(s))]
           /\ granted' = granted
           /\ reply' = Reply(s, FillError(t, s, Min(bad)))
  <2>1. FillError(t, s, Min(bad)) # NoError
    <3>1. t.rows \in Seq(Row)
      BY <1>1, <1>6, TableShape DEF IndexInv
    <3>2. bad \subseteq Nat
      BY <3>1 DEF BadRows
    <3>3. Min(bad) \in bad
      BY <1>6, <3>2, LeastNatural
    <3> QED
      BY <3>3 DEF BadRows
  <2>2. <<n, NewIndex(s).name>> \notin granted
    BY <1>5, <1>6 DEF NewIndex
  <2>3. GrantedIndexes(n)' = GrantedIndexes(n)
    <3>1. tables'[n] = u
      BY <1>3, <1>6
    <3>2. GrantedIndexes(n)' = {k \in DOMAIN u.indexes : <<n, u.indexes[k].name>> \in granted}
      <4> HIDE DEF u, n
      <4>1. tables'[n].indexes = u.indexes
        BY <3>1
      <4>2. granted' = granted
        BY <1>6
      <4> QED
        BY <4>1, <4>2 DEF GrantedIndexes
    <3>3. /\ \A k \in DOMAIN t.indexes :
               k \in DOMAIN u.indexes /\ u.indexes[k] = t.indexes[k]
          /\ \A k \in DOMAIN u.indexes :
               k \in DOMAIN t.indexes \/ u.indexes[k] = NewIndex(s)
      BY <1>4, <1>6
    <3>4. GrantedIndexes(n) = {k \in DOMAIN t.indexes : <<n, t.indexes[k].name>> \in granted}
      BY DEF GrantedIndexes
    <3> HIDE DEF u, t, n
    <3> QED
      BY <2>2, <3>2, <3>3, <3>4
  <2>4. \A k \in GrantedIndexes(n) : tables'[n].indexes[k] = tables[n].indexes[k]
    <3>1. tables'[n] = u
      BY <1>3, <1>6
    <3> HIDE DEF u
    <3> QED
      BY <1>4, <1>6, <3>1 DEF GrantedIndexes
  <2>5. AbstractKeys(n)' = AbstractKeys(n)
    BY <2>3, <2>4 DEF AbstractKeys
  <2>6. AbstractTable(n)' = AbstractTable(n)
    <3>1. /\ tables'[n].columns = t.columns /\ tables'[n].columnTypes = t.columnTypes
          /\ tables'[n].rows = t.rows
      <4>1. /\ tables'[n] = u /\ u.rows = t.rows
            /\ u.columns = t.columns /\ u.columnTypes = t.columnTypes
        BY <1>3, <1>6
      <4> HIDE DEF u
      <4> QED
        BY <4>1
    <3> QED
      BY <2>5, <3>1 DEF AbstractTable
  <2>7. Exists(n)' /\ \A q \in TableNames \ {n} : tables'[q] = tables[q]
    BY <1>3, <1>6
  <2>8. Store!Becomes(n, AbstractTable(n))
    BY <1>1, <1>6, <2>6, <2>7, CatalogueBecomes
  <2>9. UNCHANGED Catalogue
    <3>1. n \in DOMAIN Catalogue /\ Catalogue[n] = AbstractTable(n)
      BY <1>1, <1>6 DEF Catalogue
    <3>2. Catalogue = [m \in DOMAIN Catalogue |-> Catalogue[m]]
      BY DEF Catalogue
    <3> QED
      BY <2>8, <3>1, <3>2 DEF Store!Becomes
  <2>10. Store!Refuse(s)
    BY <1>6, <2>1, <2>9, OutcomeOf DEF Store!Refuse
  <2> QED
    BY <1>1, <2>10 DEF Store!Next
<1>7. CASE /\ Exists(n) /\ ~HasIndex(t, s.name)
           /\ tables' = [tables EXCEPT ![n].indexes = Append(@, NewIndex(s))]
           /\ granted' = granted \cup {<<n, s.name>>}
           /\ reply' = Reply(s, NoError)
  <2> DEFINE last == Len(t.indexes) + 1
             key == [name |-> s.name, exp |-> s.exp, unique |-> s.unique]
  <2>1. tables'[n] = u
    BY <1>3, <1>7
  <2>2. GrantedIndexes(n)' = GrantedIndexes(n) \cup {last}
    <3>1. NewIndex(s).name = s.name
      BY DEF NewIndex
    <3>2. \A k \in DOMAIN t.indexes : t.indexes[k].name # s.name
      BY <1>7 DEF HasIndex
    <3>3. GrantedIndexes(n)' =
            {k \in DOMAIN u.indexes :
               <<n, u.indexes[k].name>> \in granted \/ u.indexes[k].name = s.name}
      <4> HIDE DEF u
      <4>1. tables'[n].indexes = u.indexes
        BY <2>1
      <4>2. \A x : <<n, x>> \in granted' <=> <<n, x>> \in granted \/ x = s.name
        BY <1>7
      <4> HIDE DEF n
      <4> QED
        BY <4>1, <4>2 DEF GrantedIndexes
    <3>4. /\ \A k \in DOMAIN t.indexes :
               k \in DOMAIN u.indexes /\ u.indexes[k] = t.indexes[k]
          /\ last \in DOMAIN u.indexes /\ u.indexes[last] = NewIndex(s)
          /\ \A k \in DOMAIN u.indexes : k \in DOMAIN t.indexes \/ k = last
      BY <1>4, <1>7
    <3>5. GrantedIndexes(n) = {k \in DOMAIN t.indexes : <<n, t.indexes[k].name>> \in granted}
      BY DEF GrantedIndexes
    <3> HIDE DEF u, t, n, last
    <3> QED
      BY <3>1, <3>2, <3>3, <3>4, <3>5
  <2>3. \A k \in GrantedIndexes(n) : tables'[n].indexes[k] = tables[n].indexes[k]
    <3> HIDE DEF u
    <3> QED
      BY <1>4, <1>7, <2>1 DEF GrantedIndexes
  <2>4. /\ tables'[n].indexes[last].name = s.name
        /\ tables'[n].indexes[last].exp = s.exp
        /\ tables'[n].indexes[last].unique = s.unique
    <3>1. tables'[n].indexes[last] = NewIndex(s)
      <4> HIDE DEF u
      <4> QED
        BY <1>4, <1>7, <2>1
    <3> QED
      BY <3>1 DEF NewIndex
  <2>5. AbstractKeys(n)' = AbstractKeys(n) \cup {key}
    <3> HIDE DEF last
    <3>1. AbstractKeys(n)' =
            {[name |-> tables'[n].indexes[k].name, exp |-> tables'[n].indexes[k].exp,
              unique |-> tables'[n].indexes[k].unique] : k \in GrantedIndexes(n) \cup {last}}
      BY <2>2 DEF AbstractKeys
    <3> HIDE DEF u, t, n
    <3> QED
      BY <2>3, <2>4, <3>1 DEF AbstractKeys
  <2>6. AbstractTable(n)' =
          [columns |-> t.columns, columnTypes |-> t.columnTypes, rows |-> t.rows,
           keys |-> AbstractKeys(n) \cup {key}]
    <3>1. /\ u.rows = t.rows
          /\ u.columns = t.columns /\ u.columnTypes = t.columnTypes
      BY <1>3, <1>7
    <3> HIDE DEF u, key
    <3> QED
      BY <2>1, <2>5, <3>1 DEF AbstractTable
  <2>7. Exists(n)' /\ \A q \in TableNames \ {n} : tables'[q] = tables[q]
    BY <1>3, <1>7
  <2>8. \A x : AbstractTable(n)' = x => Store!Change(n, x)
    <3>1. \A x : AbstractTable(n)' = x => Store!Becomes(n, x)
      BY <1>1, <1>7, <2>7, CatalogueBecomes
    <3>2. \A x : AbstractTable(n)' = x => Store!Conforms(x)
      BY <1>1, <2>7 DEF Conforming
    <3> QED
      BY <3>1, <3>2 DEF Store!Change
  <2>9. n \in DOMAIN Catalogue /\ Catalogue[n] = AbstractTable(n)
    BY <1>1, <1>7 DEF Catalogue
  <2>10. /\ Catalogue[n].columns = t.columns /\ Catalogue[n].columnTypes = t.columnTypes
         /\ Catalogue[n].rows = t.rows /\ Catalogue[n].keys = AbstractKeys(n)
    BY <2>9 DEF AbstractTable
  <2>11. \A x \in AbstractKeys(n) : x.name # s.name
    <3>1. \A k \in DOMAIN t.indexes : t.indexes[k].name # s.name
      BY <1>7 DEF HasIndex
    <3> HIDE DEF u
    <3>2. \A k \in GrantedIndexes(n) : tables[n].indexes[k].name # s.name
      BY <3>1 DEF GrantedIndexes
    <3>3. \A x \in AbstractKeys(n) : \E k \in GrantedIndexes(n) :
            x.name = tables[n].indexes[k].name
      BY DEF AbstractKeys
    <3> QED
      BY <3>2, <3>3
  <2>12. Store!AddKey(s)
    <3> HIDE DEF u, t, last
    <3> QED
      BY <1>7, <2>6, <2>8, <2>9, <2>10, <2>11, Acknowledged DEF Store!AddKey
  <2> QED
    BY <2>12 DEF Store!Next
<1> QED
  <2>1. CASE Refuse(s, "ErrTableDoesNotExist") \/ Refuse(s, "ErrIndexAlreadyExists")
             \/ Refuse(s, Panic)
    BY <1>2, <2>1 DEF NoError, Panic
  <2> QED
    BY <1>6, <1>7, <2>1 DEF CreateIndex

LEMMA InsertStep ==
  ASSUME IndexInv, Conforming', NEW s \in Inserts, Insert(s)
  PROVE  Store!Next
<1> DEFINE n == s.table
           t == tables[n]
           row == RowOf(s.values)
           bad == Refusals(n, row)
<1>1. s \in Store!Statements /\ n \in TableNames /\ row \in Row /\ s.values \in Seq(Exprs)
  BY StatementsAssumption DEF Store!Statements, Row
<1>2. CASE \E err : err # NoError /\ Refuse(s, err)
  BY <1>1, <1>2, Refused DEF Refuse
<1>3. Exists(n) => t \in Table /\ t.rows \in Seq(Row) /\ t.indexes \in Seq(Index)
  BY <1>1, TableShape DEF IndexInv
<1>4. CASE /\ BadValues(s.values) # {}
           /\ Refuse(s, EvaluateConstant(s.values[Min(BadValues(s.values))]).err)
  <2>1. BadValues(s.values) \subseteq Nat
    BY <1>1 DEF BadValues
  <2>2. Min(BadValues(s.values)) \in BadValues(s.values)
    BY <1>4, <2>1, LeastNatural
  <2>3. EvaluateConstant(s.values[Min(BadValues(s.values))]).err # NoError
    BY <2>2 DEF BadValues
  <2> QED
    BY <1>2, <1>4, <2>3
<1>5. CASE /\ Exists(n) /\ bad # {}
           /\ tables' = [tables EXCEPT ![n].rows = DropRow(Append(@, row))]
           /\ reply' = Reply(s, InsertError(n, row, Min(bad)))
           /\ UNCHANGED granted
  <2>1. DropRow(Append(t.rows, row)) = t.rows
    <3> HIDE DEF t, row, bad
    <3> QED
      BY <1>1, <1>3, <1>5 DEF DropRow
  <2>2. tables' = tables
    <3> DEFINE u == [t EXCEPT !.rows = t.rows]
    <3>1. u = t
      BY <1>3, <1>5 DEF Table
    <3>2. tables' = [tables EXCEPT ![n] = u]
      BY <1>5, <2>1
    <3> HIDE DEF u
    <3> QED
      BY <1>1, <3>1, <3>2 DEF IndexInv, TypeOK
  <2>3. InsertError(n, row, Min(bad)) # NoError
    <3>1. bad \subseteq Nat
      BY <1>3, <1>5 DEF Refusals
    <3>2. Min(bad) \in bad
      BY <1>5, <3>1, LeastNatural
    <3> QED
      BY <3>2 DEF Refusals
  <2> HIDE DEF bad, row
  <2> QED
    BY <1>1, <1>5, <2>2, <2>3, Refused
<1>6. CASE /\ Exists(n) /\ Len(s.values) = Len(t.columns)
           /\ tables' = [tables EXCEPT ![n].rows = Append(@, row)]
           /\ reply' = Reply(s, NoError)
           /\ UNCHANGED granted
  <2> DEFINE rows == Append(t.rows, row)
             u == [t EXCEPT !.rows = rows]
  <2>1. rows \in Seq(Row)
    <3> HIDE DEF t, row
    <3> QED
      BY <1>1, <1>3, <1>6
  <2>2. /\ u \in Table /\ u.rows = rows /\ u.indexes = t.indexes
        /\ u.columns = t.columns /\ u.columnTypes = t.columnTypes
    <3> HIDE DEF rows
    <3> QED
      BY <1>3, <1>6, <2>1, WithRows
  <2>3. tables' = [tables EXCEPT ![n] = u]
    BY <1>6
  <2>4. tables'[n] = u /\ \A q \in TableNames \ {n} : tables'[q] = tables[q]
    <3> HIDE DEF u
    <3> QED
      BY <1>1, <2>3 DEF IndexInv, TypeOK
  <2>5. Exists(n)'
    <3> HIDE DEF u
    <3> QED
      BY <2>2, <2>4, NoneAssumption DEF Exists
  <2>6. AbstractKeys(n)' = AbstractKeys(n)
    <3>1. tables'[n].indexes = tables[n].indexes
      <4> HIDE DEF u
      <4> QED
        BY <2>2, <2>4
    <3>2. GrantedIndexes(n)' = GrantedIndexes(n)
      BY <1>6, <3>1 DEF GrantedIndexes
    <3> QED
      BY <3>1, <3>2 DEF AbstractKeys
  <2>7. AbstractTable(n)' =
          [columns |-> t.columns, columnTypes |-> t.columnTypes, rows |-> rows,
           keys |-> AbstractKeys(n)]
    <3> HIDE DEF u, rows
    <3> QED
      BY <2>2, <2>4, <2>6 DEF AbstractTable
  <2>8. \A x : AbstractTable(n)' = x => Store!Change(n, x)
    <3>1. \A x : AbstractTable(n)' = x => Store!Becomes(n, x)
      BY <1>1, <1>6, <2>4, <2>5, CatalogueBecomes
    <3>2. \A x : AbstractTable(n)' = x => Store!Conforms(x)
      BY <1>1, <2>5 DEF Conforming
    <3> QED
      BY <3>1, <3>2 DEF Store!Change
  <2>9. n \in DOMAIN Catalogue /\ Catalogue[n] = AbstractTable(n)
    BY <1>1, <1>6 DEF Catalogue
  <2>10. /\ Catalogue[n].columns = t.columns /\ Catalogue[n].columnTypes = t.columnTypes
         /\ Catalogue[n].rows = t.rows /\ Catalogue[n].keys = AbstractKeys(n)
    BY <2>9 DEF AbstractTable
  <2>11. Store!AddRow(s)
    <3> HIDE DEF t
    <3> QED
      BY <1>6, <2>7, <2>8, <2>9, <2>10, Acknowledged DEF Store!AddRow
  <2> QED
    BY <2>11 DEF Store!Next
<1> QED
  <2>1. CASE \/ Refuse(s, "ErrTableDoesNotExist") \/ Refuse(s, "ErrMissingValues")
             \/ Refuse(s, Panic)
    BY <1>2, <2>1 DEF NoError, Panic
  <2> QED
    BY <1>4, <1>5, <1>6, <2>1 DEF Insert

LEMMA SelectStep ==
  ASSUME NEW s \in Selects, Select(s)
  PROVE  Store!Next
<1>1. s \in Store!Statements
  BY DEF Store!Statements
<1>2. UNCHANGED Catalogue
  BY CatalogueKept DEF Select
<1>3. reply'.stmt = s
  BY DEF Select, SelectFrom, Results, Reply
<1>4. Outcome' = [stmt |-> s, ok |-> reply'.err = NoError]
  BY <1>3 DEF Outcome
<1>5. CASE reply'.err = NoError
  <2>1. Store!Read(s)
    BY <1>2, <1>4, <1>5 DEF Store!Read, Store!Acknowledge
  <2> QED
    BY <2>1 DEF Store!Next
<1>6. CASE reply'.err # NoError
  <2>1. Store!Refuse(s)
    BY <1>2, <1>4, <1>6 DEF Store!Refuse
  <2> QED
    BY <1>1, <2>1 DEF Store!Next
<1> QED
  BY <1>5, <1>6

------------------------------------------------------------------------------
(***************************************************************************)
(* Whatever statements it is given, wherever they fail, the backend is a   *)
(* store without indexes that acknowledges a statement exactly when it has *)
(* carried it out, and whose rows conform to every key it has granted.     *)
(***************************************************************************)
THEOREM BackendImplementsStore == Spec => ImplementsStore
<1>1. Init => Store!Init
  <2> SUFFICES ASSUME Init PROVE Store!Init
    OBVIOUS
  <2>1. {n \in TableNames : Exists(n)} = {}
    BY DEF Init, Exists
  <2>2. Catalogue = [m \in {} |-> nil]
    BY <2>1 DEF Catalogue
  <2>3. Outcome = [stmt |-> nil, ok |-> TRUE]
    BY DEF Init, Outcome, Reply
  <2> QED
    BY <2>2, <2>3 DEF Store!Init
<1>2. IndexInv /\ Conforming' /\ [Next]_vars => [Store!Next]_(Store!vars)
  <2> SUFFICES ASSUME IndexInv, Conforming', [Next]_vars
               PROVE  Store!Next \/ UNCHANGED Store!vars
    OBVIOUS
  <2>1. ASSUME NEW s \in CreateTables, CreateTable(s) PROVE Store!Next
    BY <2>1, CreateTableStep
  <2>2. ASSUME NEW s \in DropTables, DropTable(s) PROVE Store!Next
    BY <2>2, DropTableStep
  <2>3. ASSUME NEW s \in CreateIndexes, CreateIndex(s) PROVE Store!Next
    BY <2>3, CreateIndexStep
  <2>4. ASSUME NEW s \in Inserts, Insert(s) PROVE Store!Next
    BY <2>4, InsertStep
  <2>5. ASSUME NEW s \in Selects, Select(s) PROVE Store!Next
    BY <2>5, SelectStep
  <2>6. CASE UNCHANGED vars
    <3>1. UNCHANGED Catalogue /\ UNCHANGED Outcome
      BY <2>6, CatalogueKept DEF vars, Outcome
    <3> QED
      BY <3>1 DEF Store!vars
  <2> QED
    BY <2>1, <2>2, <2>3, <2>4, <2>5, <2>6 DEF Next
<1> QED
  BY IndexesSound, RowsConform, <1>1, <1>2, PTL DEF Spec, ImplementsStore, Store!Spec
==============================================================================
