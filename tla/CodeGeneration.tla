--------------------------- MODULE CodeGeneration ---------------------------
(***************************************************************************)
(* The code generation of ast.go, for the trees the parser makes.  The     *)
(* text of a tree is the sequence of tokens it consists of; Lexer shows    *)
(* that each of them lexes to itself.                                      *)
(***************************************************************************)
EXTENDS Parser

\* What the text of a missing expression is: the program stops
panic == <<Token("panic", "nil")>>

\* Faulty: without parentheses
BinaryCodeFlat(a, op, b) == a \o <<op>> \o b

BinaryCode(a, op, b) == <<LeftParen>> \o a \o <<op>> \o b \o <<RightParen>>

RECURSIVE Code(_)
Code(e) ==
  IF e = nil THEN panic
  ELSE IF e.kind = "binary" THEN BinaryCode(Code(e.a), e.op, Code(e.b))
  ELSE <<e>>

\* The texts of a list, with commas between them
Joined(codes) ==
  FoldLeft(LAMBDA text, code : IF text = <<>> THEN code ELSE text \o <<Comma>> \o code,
           <<>>, codes)

Parenthesised(code) == <<LeftParen>> \o code \o <<RightParen>>

ItemCode(item) ==
  IF item.asterisk THEN <<Symbol("*")>>
  ELSE Code(item.exp) \o (IF item.as = nil THEN <<>> ELSE <<Keyword("as"), item.as>>)

ColumnCode(col) ==
  <<col.name, col.datatype>> \o (IF col.primaryKey THEN <<Keyword("primary key")>> ELSE <<>>)

ClauseCode(word, exp, code) == IF exp = nil THEN <<>> ELSE <<Keyword(word)>> \o code

SelectCode(s) ==
  <<Keyword("select")>> \o Joined([i \in DOMAIN s.item |-> ItemCode(s.item[i])])
    \o ClauseCode("from", s.from, <<s.from>>)
    \o ClauseCode("where", s.where, Code(s.where))
    \o ClauseCode("limit", s.limit, Code(s.limit))
    \o ClauseCode("offset", s.offset, Code(s.limit))

GenerateCode(s) ==
  CASE s.kind = "select" -> SelectCode(s)
    [] s.kind = "insert" ->
         <<Keyword("insert"), Keyword("into"), s.table, Keyword("values")>>
           \o Parenthesised(Joined([i \in DOMAIN s.values |-> Code(s.values[i])]))
    [] s.kind = "create table" ->
         <<Keyword("create"), Keyword("table"), s.name>>
           \o Parenthesised(Joined([i \in DOMAIN s.cols |-> ColumnCode(s.cols[i])]))
    [] s.kind = "create index" ->
         <<Keyword("create")>> \o (IF s.unique THEN <<Keyword("unique")>> ELSE <<>>)
           \o <<Keyword("index"), s.name, Keyword("on"), s.table>> \o Parenthesised(Code(s.exp))
    [] s.kind = "drop table" -> <<Keyword("drop"), Keyword("table"), s.name>>

StatementCode(s) == Append(GenerateCode(s), Semicolon)

------------------------------------------------------------------------------
(***************************************************************************)
(* Properties.                                                             *)
(***************************************************************************)
WithoutParens(ts) == SelectSeq(ts, LAMBDA t : t \notin {LeftParen, RightParen})

\* GenerateCode prints the LIMIT in place of the OFFSET.
Printable(s) == s.kind # "select" \/ s.offset = nil

(***************************************************************************)
(* A tree keeps everything it was read from, in its order: all tokens but  *)
(* the parentheses are in its text again.                                  *)
(***************************************************************************)
TextKept ==
  \A k \in DOMAIN statements :
    Printable(statements[k]) =>
      WithoutParens(GenerateCode(statements[k])) = WithoutParens(Read(k))

(***************************************************************************)
(* The text GenerateCode prints for a statement parses to that statement,  *)
(* although a parenthesis does not reset the binding power inside it: no   *)
(* tree that was read has a weaker operator under a stronger one's right.  *)
(***************************************************************************)
CodeParses ==
  \A k \in DOMAIN statements :
    Printable(statements[k]) =>
      LET code == StatementCode(statements[k])
          stmt == ParseStatement(code, At(0))
      IN  stmt.ok /\ stmt.node = statements[k] /\ stmt.cur = Len(code) - 1

(***************************************************************************)
(* The tree of an expression by definition: its root is the operator that  *)
(* binds least outside all parentheses, the leftmost of those.             *)
(***************************************************************************)
Depth(ts, i) ==
  Cardinality({j \in 1 .. i : ts[j] = LeftParen})
    - Cardinality({j \in 1 .. i : ts[j] = RightParen})

RECURSIVE Tree(_)
Tree(ts) ==
  LET ops   == {i \in DOMAIN ts : ts[i] \in BinOps /\ Depth(ts, i) = 0}
      power == Min({BindingPower(ts[i]) : i \in ops})
      root  == Min({i \in ops : BindingPower(ts[i]) = power})
  IN  IF ops = {}
      THEN IF ts[1] = LeftParen THEN Tree(SubSeq(ts, 2, Len(ts) - 1)) ELSE ts[1]
      ELSE Binary(Tree(SubSeq(ts, 1, root - 1)), Tree(SubSeq(ts, root + 1, Len(ts))), ts[root])

\* Has the statement one select item and nothing else?
IsExpression(s) ==
  /\ s.kind = "select" /\ Len(s.item) = 1
  /\ ~s.item[1].asterisk /\ s.item[1].as = nil
  /\ s.from = nil

\* parseExpression gives every expression it accepts the tree it should have.
TreeRight ==
  \A k \in DOMAIN statements :
    IsExpression(statements[k]) => statements[k].item[1].exp = Tree(Tail(Read(k)))

==============================================================================
