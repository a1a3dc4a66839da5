--------------------------- MODULE RelationalStore ---------------------------
(***************************************************************************)
(* What the Backend interface promises its callers, with no index in it:   *)
(* tables of rows, each with a set of keys that its rows keep to.  A       *)
(* statement is either carried out and acknowledged, or refused, and then  *)
(* it has changed nothing.  Refusing is always allowed.                    *)
(*                                                                         *)
(* There are tables for the elements of the catalogue's domain.  A key has *)
(* a name, an expression, and is unique or not; no row has a null in one.  *)
(***************************************************************************)
EXTENDS Naturals, Sequences

CONSTANTS
  TableNames, CreateTables, DropTables, CreateIndexes, Inserts, Selects,
  pkeyName,           \* the name of a table's primary key
  nil,                \* null
  Identifier(_),      \* the expression that reads a column
  RowOf(_),           \* the row of a list of values
  KeyOf(_, _, _, _),  \* columns, their types, a row, an expression: its value
  SameKey(_, _)

VARIABLES
  catalogue,  \* the tables by name
  outcome     \* the last statement, and whether it was acknowledged

vars == <<catalogue, outcome>>

KeyIn(t, row, key) == KeyOf(t.columns, t.columnTypes, row, key.exp)

Conforms(t) ==
  \A key \in t.keys : \A i \in DOMAIN t.rows :
    /\ KeyIn(t, t.rows[i], key) # nil
    /\ key.unique => \A j \in 1 .. (i - 1) :
         ~SameKey(KeyIn(t, t.rows[j], key), KeyIn(t, t.rows[i], key))

Acknowledge(s) == outcome' = [stmt |-> s, ok |-> TRUE]

\* The catalogue becomes what it was, but for the table n, which becomes t
Becomes(n, t) ==
  catalogue' = [m \in DOMAIN catalogue \cup {n} |-> IF m = n THEN t ELSE catalogue[m]]

PrimaryKeys(s) ==
  {[name |-> pkeyName[s.table], exp |-> Identifier(s.cols[i].name), unique |-> TRUE]
     : i \in {i \in DOMAIN s.cols : s.cols[i].primaryKey}}

Create(s) ==
  /\ Acknowledge(s)
  /\ s.table \notin DOMAIN catalogue
  /\ Becomes(s.table, [columns     |-> [i \in DOMAIN s.cols |-> s.cols[i].name],
                       columnTypes |-> [i \in DOMAIN s.cols |-> s.cols[i].datatype],
                       rows        |-> <<>>,
                       keys        |-> PrimaryKeys(s)])

Drop(s) ==
  /\ Acknowledge(s)
  /\ s.table \in DOMAIN catalogue
  /\ catalogue' = [m \in DOMAIN catalogue \ {s.table} |-> catalogue[m]]

\* The table n becomes t, to which its rows must conform
Change(n, t) == Conforms(t) /\ Becomes(n, t)

AddKey(s) ==
  /\ Acknowledge(s)
  /\ s.table \in DOMAIN catalogue
  /\ LET t == catalogue[s.table]
     IN  /\ \A key \in t.keys : key.name # s.name
         /\ Change(s.table,
              [columns |-> t.columns, columnTypes |-> t.columnTypes, rows |-> t.rows,
               keys |-> t.keys \cup
                          {[name |-> s.name, exp |-> s.exp, unique |-> s.unique]}])

AddRow(s) ==
  /\ Acknowledge(s)
  /\ s.table \in DOMAIN catalogue
  /\ LET t == catalogue[s.table]
     IN  /\ Len(s.values) = Len(t.columns)
         /\ Change(s.table,
              [columns |-> t.columns, columnTypes |-> t.columnTypes,
               rows |-> Append(t.rows, RowOf(s.values)), keys |-> t.keys])

Read(s) == Acknowledge(s) /\ UNCHANGED catalogue

Refuse(s) == outcome' = [stmt |-> s, ok |-> FALSE] /\ UNCHANGED catalogue

Statements == CreateTables \cup DropTables \cup CreateIndexes \cup Inserts \cup Selects

Init ==
  /\ catalogue = [m \in {} |-> nil]
  /\ outcome = [stmt |-> nil, ok |-> TRUE]

Next ==
  \/ \E s \in CreateTables  : Create(s)
  \/ \E s \in DropTables    : Drop(s)
  \/ \E s \in CreateIndexes : AddKey(s)
  \/ \E s \in Inserts       : AddRow(s)
  \/ \E s \in Selects       : Read(s)
  \/ \E s \in Statements    : Refuse(s)

Spec == Init /\ [][Next]_vars
==============================================================================
