------------------------------- MODULE Parser -------------------------------
(***************************************************************************)
(* parser.go, on tokens.  A token is its kind and its value: equals looks  *)
(* at nothing else.                                                        *)
(***************************************************************************)
EXTENDS Integers, SequencesExt

CONSTANTS
  nil,
  Inputs      \* what lex returned: sequences of tokens

VARIABLES
  tokens,
  cursor,     \* counts from 0, as in the code
  statements,
  spans,      \* history: where each statement begins and ends
  near,       \* the cursors help messages were printed at
  outcome     \* "parsing", "parsed" or "refused"

vars == <<tokens, cursor, statements, spans, near, outcome>>

ASSUME InputsAssumption == \A ts \in Inputs : ts \in Seq(ToSet(ts))

Token(kind, value) == [kind |-> kind, value |-> value]
Keyword(value)     == Token("keyword", value)
Symbol(value)      == Token("symbol", value)

Comma      == Symbol(",")
LeftParen  == Symbol("(")
RightParen == Symbol(")")
Semicolon  == Symbol(";")

BinOps ==
  {Keyword(k) : k \in {"and", "or"}}
    \cup {Symbol(s) : s \in {"=", "<>", "<", "<=", ">", ">=", "||", "+"}}

BindingPower(op) ==
  CASE op.value \in {"and", "or"} -> 1
    [] op.value \in {"=", "<>"}   -> 2
    [] op.value \in {"<", ">"}    -> 3
    [] op.value \in {"<=", ">="}  -> 4
    [] OTHER                      -> 5

(***************************************************************************)
(* What a parsing function returns: whether it succeeded, what it made and *)
(* where it stopped.  Each takes what the function before it returned and, *)
(* if that failed, passes it on.                                           *)
(***************************************************************************)
At(c) == [ok |-> TRUE, node |-> nil, cur |-> c, near |-> <<>>]

HelpMessage(p) == [p EXCEPT !.near = Append(@, p.cur)]

\* r, with a message if it failed where p had not
Wanted(p, r) == IF p.ok /\ ~r.ok THEN HelpMessage(r) ELSE r

\* The return of a function that began at p: its node, or its initial cursor
Returned(p, last) == IF last.ok THEN last ELSE [last EXCEPT !.cur = p.cur]

Took(ts, p, accepted) ==
  IF p.ok /\ accepted THEN [p EXCEPT !.node = ts[p.cur + 1], !.cur = @ + 1]
                      ELSE [p EXCEPT !.ok = FALSE]

ParseToken(ts, p, t)        == Took(ts, p, p.cur < Len(ts) /\ ts[p.cur + 1] = t)
ParseTokenKind(ts, p, kind) == Took(ts, p, p.cur < Len(ts) /\ ts[p.cur + 1].kind = kind)

Expect(ts, p, t)        == Wanted(p, ParseToken(ts, p, t))
ExpectKind(ts, p, kind) == Wanted(p, ParseTokenKind(ts, p, kind))

\* A word that may be absent: the node says whether it is there
Optional(ts, p, t) ==
  LET word == ParseToken(ts, p, t)
  IN  [p EXCEPT !.node = word.ok, !.cur = word.cur]

------------------------------------------------------------------------------
(* Expressions.                                                            *)

ParseLiteralExpression(ts, p) ==
  Took(ts, p, p.cur < Len(ts) /\ ts[p.cur + 1].kind
                 \in {"identifier", "numeric", "string", "bool", "null"})

\* Faulty: the operands are swapped
BinarySwapped(a, b, op) == [kind |-> "binary", a |-> b, b |-> a, op |-> op]

Binary(a, b, op) == [kind |-> "binary", a |-> a, b |-> b, op |-> op]

\* Faulty: an operator of the same power ends the operand too
YieldsEqual(op, minBp) == BindingPower(op) <= minBp

\* The operator is left to the expression around this one
Yields(op, minBp) == BindingPower(op) < minBp

\* Whatever parseExpression is told to stop at
Delimiters ==
  {Keyword(k) : k \in {"from", "limit", "offset", "as"}} \cup {Comma, RightParen, Semicolon}

\* The calls of parseExpression
Calls(ts) == [cur : 0 .. Len(ts), delimiters : SUBSET Delimiters, minBp : 0 .. 5]

\* A call of parseExpression after p; nested gives what each call returns.
Called(nested, p, delimiters, minBp) ==
  LET r == nested[[cur |-> p.cur, delimiters |-> delimiters, minBp |-> minBp]]
  IN  IF p.ok THEN [r EXCEPT !.near = p.near \o @] ELSE p

\* A loop takes no more turns: each but the last takes a token.
MaxTurns(ts) == Len(ts) + 1

\* A turn of the loop of parseExpression; p itself, when the loop has ended
ParseOperator(ts, nested, call, p) ==
  LET op      == ts[p.cur + 1]
      operand == [p EXCEPT !.cur = @ + 1]
      b       == Wanted(p, Called(nested, operand, call.delimiters, BindingPower(op)))
  IN  CASE ~p.ok \/ p.cur >= Len(ts) -> p
        [] OTHER ->
           CASE op \in call.delimiters -> p
             [] op \notin BinOps \cup call.delimiters -> HelpMessage([p EXCEPT !.ok = FALSE])
             [] op \in BinOps \ call.delimiters ->
                  IF Yields(op, call.minBp) THEN p
                  ELSE IF b.ok THEN [b EXCEPT !.node = Binary(p.node, @, op)]
                  ELSE b

\* The loop of parseExpression; the node is the expression so far.
ParseOperators(ts, nested, call, first) ==
  LET loop[k \in 0 .. MaxTurns(ts)] ==
        IF k = 0 THEN first ELSE ParseOperator(ts, nested, call, loop[k - 1])
  IN  loop[MaxTurns(ts)]

\* The first operand of an expression: an expression in parentheses or a literal
ParseOperand(ts, nested, call) ==
  LET paren  == ParseToken(ts, At(call.cur), LeftParen)
      inner  == Wanted(paren, Called(nested, paren, call.delimiters \cup {RightParen}, call.minBp))
      closed == Expect(ts, inner, RightParen)
  IN  IF paren.ok THEN [closed EXCEPT !.node = inner.node]
                  ELSE ParseLiteralExpression(ts, At(call.cur))

\* parseExpression, when the calls it makes of itself return what nested says
ParseCall(ts, nested, call) ==
  Returned(At(call.cur), ParseOperators(ts, nested, call, ParseOperand(ts, nested, call)))

(***************************************************************************)
(* What each call returns.  With each call nested in another a later token *)
(* is the first, so that they are nested at most Len(ts) deep.             *)
(***************************************************************************)
TooDeep(ts)        == [call \in Calls(ts) |-> [At(call.cur) EXCEPT !.ok = FALSE]]
Deeper(ts, nested) == [call \in Calls(ts) |-> ParseCall(ts, nested, call)]

Returns(ts) ==
  LET nested[n \in 0 .. Len(ts)] == IF n = 0 THEN TooDeep(ts) ELSE Deeper(ts, nested[n - 1])
  IN  nested[Len(ts)]

ParseExpression(ts, p, delimiters, minBp) == Called(Returns(ts), p, delimiters, minBp)

------------------------------------------------------------------------------
(* Lists.                                                                  *)

Item(exp, as) == [asterisk |-> FALSE, exp |-> exp, as |-> as]
Asterisk      == [asterisk |-> TRUE, exp |-> nil, as |-> nil]

\* What follows the expression of a select item
ParseAs(ts, exp) ==
  LET as == ParseToken(ts, exp, Keyword("as"))
      id == ExpectKind(ts, as, "identifier")
  IN  IF exp.ok /\ ~as.ok THEN [exp EXCEPT !.node = Item(@, nil)]
                          ELSE [id EXCEPT !.node = Item(exp.node, @)]

ParseSelectItem(ts, p, delimiters) ==
  LET star == ParseToken(ts, p, Symbol("*"))
  IN  IF star.ok THEN [star EXCEPT !.node = Asterisk]
      ELSE ParseAs(ts, Wanted(p, ParseExpression(ts, p, delimiters \cup {Comma, Keyword("as")}, 0)))

ParseColumnDefinition(ts, p) ==
  LET id   == ExpectKind(ts, p, "identifier")
      type == ExpectKind(ts, id, "keyword")
      pkey == Optional(ts, type, Keyword("primary key"))
  IN  [pkey EXCEPT !.node = [name |-> id.node, datatype |-> type.node, primaryKey |-> @]]

ParseElement(ts, p, delimiters, of) ==
  CASE of = "select items" -> ParseSelectItem(ts, p, delimiters)
    [] of = "columns"      -> ParseColumnDefinition(ts, p)
    [] of = "expressions"  -> Wanted(p, ParseExpression(ts, p, {Comma, RightParen}, 0))

Collected(list, element) == [element EXCEPT !.node = Append(list.node, @)]

(***************************************************************************)
(* A turn of the loop of parseSelectItem, parseExpressions and             *)
(* parseColumnDefinitions: p itself, at a delimiter or after a failure.    *)
(***************************************************************************)
ParseTurn(ts, p, delimiters, of) ==
  LET comma == IF p.node = <<>> THEN p ELSE Expect(ts, p, Comma)
  IN  IF ~p.ok \/ p.cur >= Len(ts) THEN [p EXCEPT !.ok = FALSE]
      ELSE IF ts[p.cur + 1] \in delimiters THEN p
      ELSE Collected(p, ParseElement(ts, comma, delimiters, of))

\* The loop; the node is the list so far.
ParseElements(ts, p, delimiters, of) ==
  LET loop[k \in 0 .. MaxTurns(ts)] ==
        IF k = 0 THEN [p EXCEPT !.node = <<>>] ELSE ParseTurn(ts, loop[k - 1], delimiters, of)
  IN  loop[MaxTurns(ts)]

ParseList(ts, p, delimiters, of) == Returned(p, ParseElements(ts, p, delimiters, of))

------------------------------------------------------------------------------
(***************************************************************************)
(* Statements.  The function of a statement calls for its parts in order:  *)
(* words, names, lists and expressions, some of which may be absent, some  *)
(* of which print a message when they are missed.  A part with a field     *)
(* becomes that field of the node.                                         *)
(***************************************************************************)
Part(what, field) ==
  [what |-> what, field |-> field, token |-> nil, of |-> nil, delimiters |-> {}]

Word(k)      == [Part("word", "") EXCEPT !.token = Keyword(k)]
Must(t)      == [Part("must", "") EXCEPT !.token = t]
Name(field)  == Part("name", field)
Flag(field)  == [Part("flag", field) EXCEPT !.token = Keyword(field)]
From(field)  == [Part("from", field) EXCEPT !.token = Keyword("from")]

List(field, of, delimiters) ==
  [Part("list", field) EXCEPT !.of = of, !.delimiters = delimiters]

Exp(field, delimiters) == [Part("expression", field) EXCEPT !.delimiters = delimiters]

Clause(field, delimiters) ==
  [Part("clause", field) EXCEPT !.token = Keyword(field), !.delimiters = delimiters]

\* found, if the word of a part that may be absent was there
IfFound(p, word, found) == IF p.ok /\ ~word.ok THEN [p EXCEPT !.node = nil] ELSE found

ParsePart(ts, p, part) ==
  LET word == ParseToken(ts, p, part.token)
  IN  CASE part.what = "word" -> word
        [] part.what = "must" -> Wanted(p, word)
        [] part.what = "name" -> ExpectKind(ts, p, "identifier")
        [] part.what = "flag" -> Optional(ts, p, part.token)
        [] part.what = "from" -> IfFound(p, word, ExpectKind(ts, word, "identifier"))
        [] part.what = "list" ->
             LET list == ParseList(ts, p, part.delimiters, part.of)
             IN  IF part.of = "expressions" THEN Wanted(p, list) ELSE list
        [] part.what = "expression" -> Wanted(p, ParseExpression(ts, p, part.delimiters, 0))
        [] part.what = "clause" ->
             IfFound(p, word, Wanted(word, ParseExpression(ts, word, part.delimiters, 0)))

SelectStatement ==
  [kind  |-> "select",
   parts |-> <<Word("select"), List("item", "select items", {Keyword("from"), Semicolon}),
               From("from"),
               Clause("where", {Keyword("limit"), Keyword("offset"), Semicolon}),
               Clause("limit", {Keyword("offset"), Semicolon}),
               Clause("offset", {Semicolon})>>]

InsertStatement ==
  [kind  |-> "insert",
   parts |-> <<Word("insert"), Must(Keyword("into")), Name("table"), Must(Keyword("values")),
               Must(LeftParen), List("values", "expressions", {RightParen}), Must(RightParen)>>]

CreateTableStatement ==
  [kind  |-> "create table",
   parts |-> <<Word("create"), Word("table"), Name("name"), Must(LeftParen),
               List("cols", "columns", {RightParen}), Must(RightParen)>>]

CreateIndexStatement ==
  [kind  |-> "create index",
   parts |-> <<Word("create"), Flag("unique"), Word("index"), Name("name"),
               Must(Keyword("on")), Name("table"), Exp("exp", {Semicolon})>>]

DropTableStatement ==
  [kind  |-> "drop table", parts |-> <<Word("drop"), Word("table"), Name("name")>>]

\* The next part, which becomes part of the node of p
Filled(ts, p, part) ==
  [ParsePart(ts, p, part) EXCEPT !.node =
     IF part.field = "" THEN p.node ELSE p.node @@ (part.field :> @)]

ParseParts(ts, p, form) ==
  LET parsed[i \in 0 .. Len(form.parts)] ==
        IF i = 0 THEN [p EXCEPT !.node = [kind |-> form.kind]]
        ELSE Filled(ts, parsed[i - 1], form.parts[i])
  IN  Returned(p, parsed[Len(form.parts)])

\* Another kind of statement, if it was none of those tried before
OrElse(ts, r, form) == IF r.ok THEN r ELSE ParseParts(ts, [r EXCEPT !.ok = TRUE], form)

\* The statements, in the order they are tried
Forms == <<SelectStatement, InsertStatement, CreateTableStatement, CreateIndexStatement,
           DropTableStatement>>

ParseStatement(ts, p) ==
  LET tried[k \in 0 .. Len(Forms)] ==
        IF k = 0 THEN [p EXCEPT !.ok = FALSE] ELSE OrElse(ts, tried[k - 1], Forms[k])
  IN  tried[Len(Forms)]

------------------------------------------------------------------------------
(* Parse.                                                                  *)

\* Faulty: the last statement may end without a semicolon
TerminatedNever(ts) == ts

Terminated(ts) ==
  IF ts = <<>> \/ Last(ts) = Semicolon THEN ts ELSE Append(ts, Semicolon)

\* The cursor after the semicolons from c on
Semicolons(ts, c) ==
  Max({d \in c .. Len(ts) : \A i \in c .. (d - 1) : ts[i + 1] = Semicolon})

\* Faulty: no semicolon is needed
SeparatedAnyway(ts, c) == TRUE

Separated(ts, c) == Semicolons(ts, c) > c

Parsing == outcome = "parsing" /\ cursor < Len(tokens)

Parse ==
  /\ Parsing
  /\ \E stmt \in {ParseStatement(tokens, At(cursor))} :
       /\ stmt.ok /\ Separated(tokens, stmt.cur)
       /\ statements' = Append(statements, stmt.node)
       /\ spans' = Append(spans, [from |-> cursor, to |-> stmt.cur])
       /\ cursor' = Semicolons(tokens, stmt.cur)
       /\ near' = near \o stmt.near
  /\ UNCHANGED <<tokens, outcome>>

Fail ==
  /\ Parsing
  /\ \E stmt \in {ParseStatement(tokens, At(cursor))} :
       /\ ~stmt.ok \/ ~Separated(tokens, stmt.cur)
       /\ near' = near \o HelpMessage(stmt).near
  /\ outcome' = "refused"
  /\ UNCHANGED <<tokens, cursor, statements, spans>>

Finish ==
  /\ outcome = "parsing" /\ cursor >= Len(tokens)
  /\ outcome' = "parsed"
  /\ UNCHANGED <<tokens, cursor, statements, spans, near>>

Init ==
  /\ \E ts \in Inputs : tokens = Terminated(ts)
  /\ cursor = 0
  /\ statements = <<>>
  /\ spans = <<>>
  /\ near = <<>>
  /\ outcome = "parsing"

Next == Parse \/ Fail \/ Finish

Spec == Init /\ [][Next]_vars

------------------------------------------------------------------------------
(***************************************************************************)
(* Properties.                                                             *)
(***************************************************************************)
Read(k) == SubSeq(tokens, spans[k].from + 1, spans[k].to)

(***************************************************************************)
(* Statements are what stands between semicolons: none reads across one,   *)
(* none stops before one, and when Parse succeeds nothing is left over.    *)
(***************************************************************************)
StatementsSeparate ==
  /\ \A k \in DOMAIN statements :
       /\ Semicolon \notin ToSet(Read(k))
       /\ tokens[spans[k].to + 1] = Semicolon
       /\ k > 1 => tokens[spans[k].from] = Semicolon
  /\ outcome = "parsed" =>
       Len(statements) = Cardinality({i \in DOMAIN tokens :
         tokens[i] = Semicolon /\ i > 1 /\ tokens[i - 1] # Semicolon})

(***************************************************************************)
(* A message is printed near a token there is: helpMessage reads the token *)
(* at its cursor without looking, and only the semicolon that no function  *)
(* takes keeps every cursor below the end (parser.go:36).                  *)
(***************************************************************************)
HelpInRange == \A k \in DOMAIN near : near[k] < Len(tokens)

==============================================================================
