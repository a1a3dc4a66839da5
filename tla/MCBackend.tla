------------------------------ MODULE MCBackend ------------------------------
(***************************************************************************)
(* Instances of MemoryBackend for TLC: one table, two columns, the         *)
(* statements of each run.                                                 *)
(***************************************************************************)
EXTENDS BackendRefinement

Num(i)  == [kind |-> "numeric", num |-> i]
Null    == [kind |-> "null"]
True    == [kind |-> "bool", truth |-> TRUE]
Text(b) == [kind |-> "string", text |-> b]
Bin(a, op, b) == [kind |-> "binary", op |-> op, a |-> a, b |-> b]
Star    == [kind |-> "asterisk"]

X == Identifier("x")
Y == Identifier("y")

Col(c, type, pkey) == [name |-> c, datatype |-> type, primaryKey |-> pkey]

CREATE_TABLE(cols) == [table |-> "t", cols |-> cols]
CREATE_INDEX(x, exp, unique) ==
  [table |-> "t", name |-> x, exp |-> exp, unique |-> unique]
INSERT(values) == [table |-> "t", values |-> values]
SELECT(items, where) ==
  [table |-> "t", items |-> items, where |-> where, limit |-> nil, offset |-> nil]
WINDOW(where, limit, offset) ==
  [table |-> "t", items |-> <<Star>>, where |-> where,
   limit |-> Num(limit), offset |-> Num(offset)]

MCTableNames  == {"t"}
MCColumnNames == {"x", "y"}
MCIndexNames  == {"t_pkey", "iy", "ixy"}
MCpkeyName    == [n \in {"t"} |-> "t_pkey"]
MCDropTables  == {[table |-> "t"]}

SubExprs(e) == IF e.kind = "binary" THEN {e, e.a, e.b} ELSE {e}

\* The conditions of the WHERE clauses, two levels deep at most
Conditions ==
  {Bin(X, op, Num(1)) : op \in SupportedChecks}
    \cup {Bin(Num(1), op, X) : op \in {"=", "<"}}
    \cup {Bin(Y, "=", Num(1)), Bin(X, "=", Null), Bin(X, "=", Y),
          Bin(Bin(X, "+", Y), ">", Num(2))}

Conjunctions ==
  {Bin(a, op, b) : a \in {Bin(X, ">", Num(0)), Bin(X, "=", Num(1))},
                   b \in {Bin(X, "<", Num(2)), Bin(Y, "=", Num(1))},
                   op \in {"and", "or"}}

MCExprs ==
  UNION {SubExprs(e) : e \in UNION {SubExprs(c) : c \in Conditions \cup Conjunctions}}
    \cup {Num(i) : i \in (0 .. 3) \cup {15}} \cup {Num(nil), Null, True, X, Y,
          Text(<<>>), Text(<<1>>), Identifier("z"), Bin(Num(1), "+", Num(1))}

------------------------------------------------------------------------------
(* The general run: every operation, with every way to fail.               *)

GeneralCreateTables ==
  {CREATE_TABLE(<<Col("x", "int", TRUE), Col("y", "int", FALSE)>>),
   CREATE_TABLE(<<Col("x", "int", FALSE), Col("y", "int", FALSE)>>),
   CREATE_TABLE(<<Col("x", "int", TRUE), Col("y", "int", TRUE)>>),
   CREATE_TABLE(<<Col("x", "int", FALSE), Col("y", "select", FALSE)>>)}

\* There is no column z: its index refuses every row, if it meets one.
GeneralCreateIndexes ==
  {CREATE_INDEX("iy", Y, TRUE), CREATE_INDEX("ixy", Bin(X, "+", Y), FALSE),
   CREATE_INDEX("iy", Identifier("z"), FALSE)}

GeneralInserts ==
  {INSERT(<<Num(a), Num(b)>>) : a \in {1, 2}, b \in {1, 2}}
    \cup {INSERT(<<Num(2), Null>>), INSERT(<<Num(1)>>), INSERT(<<X, Num(1)>>),
          INSERT(<<Bin(Num(1), "+", Num(1)), Num(1)>>), INSERT(<<Num(1), Text(<<1>>)>>)}

\* 15 is written as the cell of -1: a negative literal cannot be lexed
GeneralSelects ==
  {SELECT(<<Star>>, w) : w \in {nil, Bin(X, "=", Null), Bin(X, "<>", Num(1)),
     Bin(Bin(X, ">", Num(0)), "and", Bin(Y, "=", Num(1))),
     Bin(Bin(X, "=", Num(1)), "or", Bin(Y, "=", Num(1)))}}
    \cup {SELECT(<<>>, nil), SELECT(<<Y, Identifier("z")>>, nil),
          SELECT(<<Star, Bin(Num(1), "+", Num(1))>>, Bin(Y, "=", Num(1))),
          WINDOW(nil, 1, 1), WINDOW(nil, 15, 0), WINDOW(nil, 1, 15),
          [SELECT(<<Star>>, nil) EXCEPT !.limit = Null],
          [SELECT(<<Num(1)>>, nil) EXCEPT !.table = nil]}

------------------------------------------------------------------------------
(* Three rows give walks of the tree with something before the value, at it *)
(* and after it.                                                            *)

PkCreateTables == {CREATE_TABLE(<<Col("x", "int", TRUE), Col("y", "int", FALSE)>>)}

NoStatements == {}

(***************************************************************************)
(* The run of a table whose only index is its primary key, used the way    *)
(* the tests and cmd/indextest use one: literals inserted, one comparison  *)
(* of the key with a literal on its right, windows of any size.            *)
(***************************************************************************)
PkInserts ==
  {INSERT(<<Num(a), Num(b)>>) : a \in 0 .. 2, b \in {0, 1}}
    \cup {INSERT(<<Num(1), Null>>), INSERT(<<Null, Num(1)>>)}

PkSelects ==
  {SELECT(<<Star>>, Bin(X, op, Num(1))) : op \in {"=", "<", "<=", ">", ">="}}
    \cup {SELECT(<<Y>>, Bin(Bin(X, ">", Num(0)), "and", Bin(Y, "=", Num(1)))),
          SELECT(<<X, Bin(X, "+", Y)>>, Bin(Bin(X, "=", Num(1)), "or", Bin(Y, "=", Num(1))))}
    \cup {WINDOW(where, limit, offset) : where \in {nil, Bin(X, ">", Num(0))},
                                         limit \in 0 .. 2, offset \in 0 .. 2}

------------------------------------------------------------------------------
(* What the run of the primary key leaves out.  Put in place of its own     *)
(* statements, each of these makes one of its properties fail.             *)

(***************************************************************************)
(* An INSERT that a second index refuses: x is indexed before y is.        *)
(***************************************************************************)
TwoIndexInserts == {INSERT(<<Num(a), Num(b)>>) : a \in {1, 2}, b \in {1, 2}}

UniqueY == {CREATE_INDEX("iy", Y, TRUE)}

\* Conditions the index of the primary key misreads
BothSelects    == {SELECT(<<Star>>, Bin(Bin(X, ">", Num(0)), "and", Bin(X, "<", Num(2))))}
FlippedSelects == {SELECT(<<Star>>, Bin(Num(1), "<", X))}
NeqSelects     == {SELECT(<<Star>>, Bin(X, "<>", Num(1)))}

\* With UniqueY: an index left half filled by the duplicate it met
YSelects == {SELECT(<<Star>>, Bin(Y, "=", Num(1)))}

\* Two columns of one name
TwinCreateTables == {CREATE_TABLE(<<Col("x", "int", FALSE), Col("x", "int", TRUE)>>)}
TwinInserts      == {INSERT(<<Num(1), Null>>), INSERT(<<Num(2), Num(1)>>)}
==============================================================================
