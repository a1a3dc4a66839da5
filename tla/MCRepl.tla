------------------------------- MODULE MCRepl -------------------------------
(***************************************************************************)
(* Instances of Repl for TLC: two tables of different columns, and lines   *)
(* of one to three statements.                                             *)
(***************************************************************************)
EXTENDS Repl

Num(i) == [kind |-> "numeric", num |-> i]
X      == Identifier("x")
Star   == [kind |-> "asterisk"]

Col(c, pkey) == [name |-> c, datatype |-> "int", primaryKey |-> pkey]

CreateT == [table |-> "t", cols |-> <<Col("x", TRUE)>>]
CreateU == [table |-> "u", cols |-> <<Col("x", FALSE), Col("y", FALSE)>>]
DropT   == [table |-> "t"]
DropU   == [table |-> "u"]
IndexT  == [table |-> "t", name |-> "ix", exp |-> X, unique |-> FALSE]
IndexU  == [table |-> "u", name |-> "ix", exp |-> X, unique |-> FALSE]
InsertT == [table |-> "t", values |-> <<Num(1)>>]
SelectT == [table |-> "t", items |-> <<Star>>, where |-> nil, limit |-> nil, offset |-> nil]
OffsetT == [SelectT EXCEPT !.offset = Num(1)]
PanicT  == [SelectT EXCEPT !.limit = [kind |-> "null"]]

MCTableNames    == {"t", "u"}
MCColumnNames   == {"x", "y"}
MCIndexNames    == {"t_pkey", "u_pkey", "ix"}
MCpkeyName      == [n \in {"t", "u"} |-> IF n = "t" THEN "t_pkey" ELSE "u_pkey"]
MCExprs         == {X, Identifier("y"), Num(1), [kind |-> "null"]}
MCCreateTables  == {CreateT, CreateU}
MCDropTables    == {DropT, DropU}
MCCreateIndexes == {IndexT, IndexU}
MCInserts       == {InsertT}
MCSelects       == {SelectT, OffsetT, PanicT}

Statement(kind, s) == [kind |-> kind, stmt |-> s]
CT == Statement("create table", CreateT)
CU == Statement("create table", CreateU)
DT == Statement("drop table", DropT)
DU == Statement("drop table", DropU)
IT == Statement("create index", IndexT)
IU == Statement("create index", IndexU)
INS == Statement("insert", InsertT)
ST == Statement("select", SelectT)
OT == Statement("select", OffsetT)
PT == Statement("select", PanicT)

Run(stmts)   == [kind |-> "statements", parseOnly |-> FALSE, stmts |-> stmts]
Show(stmts)  == [kind |-> "statements", parseOnly |-> TRUE, stmts |-> stmts]

OtherLines ==
  {[kind |-> "describe", name |-> n] : n \in {"t", "u"}}
    \cup {[kind |-> k] : k \in {"list", "error", "quit"}}

MCLines ==
  {Run(<<>>), Run(<<CT>>), Run(<<CU>>), Run(<<DT>>), Run(<<INS, ST>>), Run(<<PT>>),
   Run(<<CT, CU>>), Run(<<CU, INS, CT>>), Run(<<DU, ST, DT>>), Run(<<IT, IU>>),
   Run(<<CT, DT>>), Run(<<CT, INS, ST>>), Show(<<CT, OT>>), Show(<<DT, DU, ST>>)}
    \cup OtherLines

DescribeLines == {Run(<<CT>>), Run(<<CU>>), [kind |-> "describe", name |-> "t"]}
==============================================================================
