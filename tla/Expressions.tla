----------------------------- MODULE Expressions -----------------------------
(***************************************************************************)
(* Expression trees and their evaluation against one row: evaluateCell and *)
(* the functions it calls (memory.go), and the parts of index selection    *)
(* that only look at the tree.                                             *)
(*                                                                         *)
(* An expression is a record tagged by kind:                               *)
(*   [kind |-> "identifier", name |-> c]   [kind |-> "numeric", num |-> i] *)
(*   [kind |-> "string", text |-> bytes]   [kind |-> "bool", truth |-> b]  *)
(*   [kind |-> "null"]                                                     *)
(*   [kind |-> "binary", op |-> o, a |-> left, b |-> right]                *)
(* Every kind but the last is the code's LiteralKind.  Two expressions     *)
(* have the same GenerateCode() exactly when they are equal here.          *)
(***************************************************************************)
EXTENDS Cells, SequencesExt

CONSTANTS
  Exprs,    \* the expressions statements are made of, with all their parts
  noRow     \* stands for t.rows[i] when i is beyond the end of t.rows

ASSUME ExprsAssumption ==
  \A e \in Exprs : e.kind = "binary" => e.a \in Exprs /\ e.b \in Exprs

IsLiteral(e) == e.kind # "binary"

\* Expressions are finite trees: every part is less deep than the whole.
Depth[e \in Exprs] ==
  IF IsLiteral(e) THEN 0 ELSE 1 + Max({Depth[e.a], Depth[e.b]})

ASSUME FiniteAssumption ==
  \A e \in Exprs :
    /\ Depth[e] \in Nat
    /\ ~IsLiteral(e) => Depth[e.a] < Depth[e] /\ Depth[e.b] < Depth[e]

Identifier(c) == [kind |-> "identifier", name |-> c]

\* The errors evaluation can give.  Panic is a run-time panic: a nil pointer
\* followed, or an index out of range.
NoError == "ok"
Panic   == "panic"

\* The results of evaluateCell: a value of a type, or an error
Value(cell, type) == [value |-> cell, type |-> type, err |-> NoError]
Failure(err)      == [value |-> nil, type |-> "text", err |-> err]

(***************************************************************************)
(* evaluateLiteralCell.  An identifier is looked up by its first           *)
(* occurrence among the columns; t.rows[rowIndex][i] panics when there is  *)
(* no such row or the row is too short, t.columnTypes[i] when the column   *)
(* has been added and its type has not.                                    *)
(***************************************************************************)
EvaluateLiteralCell(columns, types, row, lit) ==
  IF lit.kind = "identifier"
  THEN LET i == SelectInSeq(columns, LAMBDA c : c = lit.name)
       IN  CASE i = 0 -> Failure("ErrColumnDoesNotExist")
             [] i # 0 /\ (row = noRow \/ i \notin DOMAIN row \cap DOMAIN types)
                 -> Failure(Panic)
             [] OTHER -> Value(row[i], types[i])
  ELSE Value(LiteralToMemoryCell(lit),
             CASE lit.kind = "string" -> "text"
               [] lit.kind = "bool"   -> "boolean"
               [] OTHER               -> "int")

Comparisons == {"<", "<=", ">", ">="}

\* The integers of two cells are compared; AsInt's nil would be followed.
CompareInts(op, i, j) ==
  CASE op = "<"  -> i < j
    [] op = "<=" -> i <= j
    [] op = ">"  -> i > j
    [] op = ">=" -> i >= j

Arithmetic(op, l, r) ==
  LET i == AsInt(l.value)
      j == AsInt(r.value)
  IN  IF {l.type, r.type} # {"int"} THEN Failure("ErrInvalidOperands")
      ELSE IF nil \in {i, j} THEN Failure(Panic)
      ELSE IF op = "+" THEN Value(IntCell(i + j), "int")
      ELSE Value(BoolCell(CompareInts(op, i, j)), "boolean")

Concatenation(l, r) ==
  IF {l.type, r.type} # {"text"} THEN Failure("ErrInvalidOperands")
  ELSE Value(l.value \o r.value, "text")

Connective(op, l, r) ==
  LET p == AsBool(l.value)
      q == AsBool(r.value)
  IN  IF {l.type, r.type} # {"boolean"} THEN Failure("ErrInvalidOperands")
      ELSE IF nil \in {p, q} THEN Value(nullMemoryCell, "boolean")
      ELSE Value(BoolCell(IF op = "and" THEN p /\ q ELSE p \/ q), "boolean")

SameValue(l, r) == l.type = r.type /\ Equals(l.value, r.value)

ResultType(op) ==
  CASE op = "||" -> "text" [] op = "+" -> "int" [] OTHER -> "boolean"

(***************************************************************************)
(* evaluateBinaryCell on its two evaluated operands.  AND and OR check the *)
(* types first; every other operator gives null first when an operand is   *)
(* empty, and only then checks the types.                                  *)
(***************************************************************************)
EvaluateBinaryCell(op, l, r) ==
  IF NoError # l.err THEN Failure(l.err)
  ELSE IF NoError # r.err THEN Failure(r.err)
  ELSE IF op \in {"and", "or"} THEN Connective(op, l, r)
  ELSE IF Empty(l.value) \/ Empty(r.value) THEN Value(nullMemoryCell, ResultType(op))
  ELSE CASE op = "="  -> Value(BoolCell(SameValue(l, r)), "boolean")
         [] op = "<>" -> Value(BoolCell(~SameValue(l, r)), "boolean")
         [] op = "||" -> Concatenation(l, r)
         [] op \in Comparisons \cup {"+"} -> Arithmetic(op, l, r)
         [] OTHER -> Failure("ErrInvalidCell")

(***************************************************************************)
(* evaluateCell(rowIndex, exp) of a table with these columns and types, on *)
(* the row at rowIndex.                                                    *)
(***************************************************************************)
EvaluateCell(columns, types, row, exp) ==
  LET eval[e \in Exprs] ==
        IF IsLiteral(e) THEN EvaluateLiteralCell(columns, types, row, e)
        ELSE EvaluateBinaryCell(e.op, eval[e.a], eval[e.b])
  IN  eval[exp]

\* createTable().evaluateCell(0, lit) of a literal: no columns, no rows
EvaluateConstant(lit) == EvaluateLiteralCell(<<>>, <<>>, noRow, lit)

(***************************************************************************)
(* linearizeExpressions: the conjuncts of a WHERE clause, left to right;   *)
(* nothing of a disjunction, and nothing of a lone literal.                *)
(***************************************************************************)
LinearizeExpressions(where) ==
  LET conjuncts[e \in Exprs] ==
        IF IsLiteral(e) \/ e.op = "or" THEN <<>>
        ELSE IF e.op = "and" THEN conjuncts[e.a] \o conjuncts[e.b]
        ELSE <<e>>
  IN  IF where = nil THEN <<>> ELSE conjuncts[where]

SupportedChecks == {"=", "<>"} \cup Comparisons

(***************************************************************************)
(* index.applicableValue: the literal an indexed expression is compared    *)
(* with, or nil.  The indexed expression may stand on either side.         *)
(***************************************************************************)
ApplicableValue(indexed, exp) ==
  IF IsLiteral(exp) THEN nil
  ELSE LET valueExp == IF exp.a = indexed THEN exp.b ELSE exp.a
       IN  IF /\ exp.a = indexed \/ exp.b = indexed
              /\ exp.op \in SupportedChecks
              /\ IsLiteral(valueExp)
           THEN valueExp ELSE nil
==============================================================================
