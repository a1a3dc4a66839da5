------------------------------ MODULE MCDriver ------------------------------
(***************************************************************************)
(* Instances of Driver for TLC: one table, two goroutines.                 *)
(***************************************************************************)
EXTENDS Driver

CONSTANTS c1, c2

Num(i) == [kind |-> "numeric", num |-> i]
Bool(b) == [kind |-> "bool", truth |-> b]
Null   == [kind |-> "null"]
Text(b) == [kind |-> "string", text |-> b]
X      == Identifier("x")
Y      == Identifier("y")
Star   == [kind |-> "asterisk"]
Equal(e, i) == [kind |-> "binary", op |-> "=", a |-> e, b |-> Num(i)]

Col(c, type, pkey) == [name |-> c, datatype |-> type, primaryKey |-> pkey]

CREATE_TABLE(cols) == [kind |-> "create table", stmt |-> [table |-> "t", cols |-> cols]]
DROP_TABLE         == [kind |-> "drop table", stmt |-> [table |-> "t"]]
CREATE_INDEX(x, exp, unique) ==
  [kind |-> "create index", stmt |-> [table |-> "t", name |-> x, exp |-> exp, unique |-> unique]]
INSERT(values)     == [kind |-> "insert", stmt |-> [table |-> "t", values |-> values]]
SELECT(items, where, limit) ==
  [kind |-> "select", stmt |-> [table |-> "t", items |-> items, where |-> where,
                                limit |-> limit, offset |-> nil]]

MCTableNames  == {"t"}
MCColumnNames == {"x", "y"}
MCIndexNames  == {"t_pkey", "iy"}
MCpkeyName    == [n \in {"t"} |-> "t_pkey"]
MCExprs ==
  {X, Y, Identifier("z"), Null, Num(1), Num(2), Equal(X, 1), Bool(TRUE), Bool(FALSE),
   Text(<<>>), Text(<<1>>)}
MCConns       == {c1, c2}

KeyTable   == CREATE_TABLE(<<Col("y", "boolean", TRUE)>>)
IntTable   == CREATE_TABLE(<<Col("x", "int", TRUE), Col("y", "int", FALSE)>>)
PlainTable == CREATE_TABLE(<<Col("y", "int", FALSE)>>)

\* Every method, with every error it can return
AllStatements ==
  {IntTable, PlainTable, KeyTable, CREATE_TABLE(<<Col("x", "int", TRUE), Col("y", "int", TRUE)>>),
   CREATE_TABLE(<<Col("x", "select", FALSE)>>), DROP_TABLE, CREATE_INDEX("iy", Y, TRUE),
   INSERT(<<Num(1), Num(1)>>), INSERT(<<Num(1), Num(2)>>), INSERT(<<Num(2), Num(1)>>),
   INSERT(<<Null, Num(1)>>), INSERT(<<Bool(TRUE)>>), INSERT(<<Bool(FALSE)>>),
   INSERT(<<X, Num(1)>>),
   SELECT(<<Star>>, nil, nil), SELECT(<<Y>>, Equal(X, 1), nil), SELECT(<<Star>>, Y, nil),
   SELECT(<<X>>, nil, Null),
   SELECT(<<>>, nil, nil), SELECT(<<X>>, nil, Num(1)), SELECT(<<Identifier("z")>>, nil, nil),
   [SELECT(<<Num(1)>>, nil, nil) EXCEPT !.stmt.table = nil]}

\* Answers of each type, with a cell too short for its type and the empty text
TypedTable == CREATE_TABLE(<<Col("x", "int", FALSE), Col("y", "text", TRUE)>>)

TypedStatements ==
  {TypedTable, DROP_TABLE, INSERT(<<Bool(TRUE), Text(<<>>)>>),
   SELECT(<<X, Y, Num(1), Text(<<1>>), Equal(X, 1)>>, nil, nil),
   SELECT(<<Y>>, Equal(X, 1), nil)}

Of(kind) ==
  {call.stmt : call \in {call \in AllStatements \cup TypedStatements : call.kind = kind}}

AllCreateTables  == Of("create table")
AllDropTables    == Of("drop table")
AllCreateIndexes == Of("create index")
AllInserts       == Of("insert")
AllSelects       == Of("select")

Single(statements) == {<<call>> : call \in statements}

\* A second statement is not executed.
SerialQueries ==
  Single(AllStatements) \cup {<<>>, <<IntTable, DROP_TABLE>>, parseError, unsupported}

\* Answers read while others write
CursorQueries == Single(TypedStatements)

\* Two goroutines insert the same key.
KeysQueries == Single({IntTable, INSERT(<<Num(1), Num(1)>>)})

\* One is refused while the other inserts.
RowsQueries == Single({IntTable, INSERT(<<Num(1), Num(1)>>), INSERT(<<Num(2), Num(1)>>)})
=============================================================================
