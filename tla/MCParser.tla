------------------------------ MODULE MCParser ------------------------------
(***************************************************************************)
(* Instances of CodeGeneration for TLC: sentences of the grammar,          *)
(* everything one edit away from them, and expressions.                    *)
(***************************************************************************)
EXTENDS CodeGeneration

A == Token("identifier", "a")
B == Token("identifier", "b")
T == Token("identifier", "t")
One == Token("numeric", "1")
Null == Token("null", "null")
K(k) == Keyword(k)
S(s) == Symbol(s)

Sentences ==
  {<<K("select"), A, Comma, S("*"), Comma, One, K("as"), B, K("from"), T, K("where"), A, S("="),
     One, K("limit"), One, K("offset"), A, Semicolon>>,
   <<K("select"), S("*"), K("from"), T, K("where"), LeftParen, A, S("="), One, RightParen,
     K("and"), B, Semicolon, Semicolon, K("drop"), K("table"), T>>,
   <<K("insert"), K("into"), T, K("values"), LeftParen, One, Comma, A, S("+"), Null,
     RightParen, Semicolon, K("select"), A>>,
   <<K("create"), K("table"), T, LeftParen, A, K("int"), K("primary key"), Comma, B,
     K("text"), RightParen>>,
   <<K("create"), K("unique"), K("index"), B, K("on"), T, A, S("+"), One, Semicolon>>,
   <<K("create"), K("index"), B, K("on"), T, LeftParen, A, RightParen>>,
   <<K("drop"), K("table"), T, Semicolon, K("drop"), K("table"), T>>}

Words ==
  {A, One, Comma, LeftParen, RightParen, Semicolon, S("+"), S("*")}
    \cup {K(k) : k \in {"select", "from", "where", "limit", "offset", "as", "and", "table",
                        "into", "int", "primary key"}}

\* One token left out, put in place of another or put in; or the rest cut off
Edits(s) ==
  {RemoveAt(s, i) : i \in DOMAIN s}
    \cup {ReplaceAt(s, i, w) : i \in DOMAIN s, w \in Words}
    \cup {InsertAt(s, i, w) : i \in DOMAIN s, w \in Words}
    \cup {SubSeq(s, 1, i) : i \in 0 .. Len(s)}

Expression(e) == <<K("select")>> \o e

\* All short sequences, most of them no expressions
ShortExpressions ==
  {Expression(e) : e \in BoundedSeq({A, One, K("and"), S("="), S("+"), LeftParen, RightParen}, 5)}

\* Operators between operands, with the operands i to j in parentheses
Operands == <<A, One, B, Null, T>>

Chain(ops, i, j) ==
  LET plain == [p \in 1 .. 2 * Len(ops) + 1 |->
                  IF p % 2 = 1 THEN Operands[(p + 1) \div 2] ELSE ops[p \div 2]]
  IN  IF i = j THEN plain
      ELSE InsertAt(InsertAt(plain, 2 * j, RightParen), 2 * i - 1, LeftParen)

\* An operator of each power, and a second one of the least
Powers    == {K("and"), S("="), S("<"), S("<="), S("+")}
Operators == Powers \cup {K("or")}

Chains(n, operators) ==
  {Expression(Chain(ops, i, j)) : ops \in [1 .. n -> operators],
                                  <<i, j>> \in {<<0, 0>>} \cup {<<a, b>> \in (1 .. n + 1) \X (1 .. n + 1) : a < b}}

MCInputs == UNION {Edits(s) : s \in Sentences}
              \cup ShortExpressions \cup Chains(2, Operators) \cup Chains(3, Operators)
              \cup Chains(4, Powers)
==============================================================================
