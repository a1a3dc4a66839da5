---------------------------- MODULE Parser_proofs ----------------------------
(***************************************************************************)
(* Theorems about Parser, for every sequence of tokens.                    *)
(***************************************************************************)
EXTENDS Parser, Iteration, FiniteSetTheorems, SequenceTheorems

\* What Parse puts into the hands of the functions: the last token is a semicolon.
Ends(ts) == Len(ts) \in Nat \ {0} /\ ts[Len(ts)] = Semicolon

\* What a function returns: its cursor and its messages point at tokens.
Fine(ts, r) ==
  /\ DOMAIN r = {"ok", "node", "cur", "near"} /\ r.ok \in BOOLEAN
  /\ r.cur \in 0 .. (Len(ts) - 1)
  /\ r.near \in Seq(0 .. (Len(ts) - 1))

\* No semicolon is taken on the way from cursor c to cursor d.
Passes(ts, c, d) == c <= d /\ \A i \in (c + 1) .. d : ts[i] # Semicolon

\* r is fine after p: it went on from there and did not mend a failure.
Follows(ts, p, r) == Fine(ts, r) /\ Passes(ts, p.cur, r.cur) /\ (r.ok => p.ok)

------------------------------------------------------------------------------
(***************************************************************************)
(* What is made of a result.                                               *)
(***************************************************************************)
LEMMA FineFollows ==
  ASSUME NEW ts, NEW p, Fine(ts, p)
  PROVE  Follows(ts, p, p)
BY DEF Fine, Follows, Passes

LEMMA FollowsOn ==
  ASSUME NEW ts, NEW p, NEW q, NEW r, Fine(ts, p), Follows(ts, p, q), Follows(ts, q, r)
  PROVE  Follows(ts, p, r)
<1>1. p.cur \in Nat /\ q.cur \in Nat /\ r.cur \in Nat
  BY DEF Fine, Follows
<1>2. \A i \in (p.cur + 1) .. r.cur : i \in (p.cur + 1) .. q.cur \/ i \in (q.cur + 1) .. r.cur
  BY <1>1
<1>3. p.cur <= r.cur
  BY <1>1 DEF Follows, Passes
<1> QED
  BY <1>2, <1>3 DEF Follows, Passes

\* A result that differs in its node, or in that it failed
LEMMA NodeFollows ==
  ASSUME NEW ts, NEW p, NEW r, NEW node, Follows(ts, p, r)
  PROVE  Follows(ts, p, [r EXCEPT !.node = node])
BY DEF Follows, Fine

LEMMA FailureFollows ==
  ASSUME NEW ts, NEW p, NEW r, Follows(ts, p, r)
  PROVE  Follows(ts, p, [r EXCEPT !.ok = FALSE]) /\ ~[r EXCEPT !.ok = FALSE].ok
BY DEF Follows, Fine

LEMMA HelpMessageFollows ==
  ASSUME NEW ts, NEW p, NEW r, Follows(ts, p, r)
  PROVE  /\ Follows(ts, p, HelpMessage(r))
         /\ HelpMessage(r).ok = r.ok /\ HelpMessage(r).cur = r.cur
<1>1. Append(r.near, r.cur) \in Seq(0 .. (Len(ts) - 1))
  BY DEF Follows, Fine
<1> PICK messages : messages = Append(r.near, r.cur)
  OBVIOUS
<1>2. HelpMessage(r) = [r EXCEPT !.near = messages]
  BY DEF HelpMessage
<1> QED
  BY <1>1, <1>2 DEF Follows, Fine

LEMMA WantedFollows ==
  ASSUME NEW ts, NEW p, NEW r, NEW q, Follows(ts, p, r)
  PROVE  /\ Follows(ts, p, Wanted(q, r))
         /\ Wanted(q, r).ok = r.ok /\ Wanted(q, r).cur = r.cur
BY HelpMessageFollows DEF Wanted

LEMMA ReturnedFollows ==
  ASSUME NEW ts, NEW p, NEW r, Fine(ts, p), Follows(ts, p, r)
  PROVE  /\ Follows(ts, p, Returned(p, r))
         /\ Returned(p, r).ok = r.ok /\ (r.ok => Returned(p, r).cur = r.cur)
<1>1. CASE r.ok
  BY <1>1 DEF Returned
<1>2. CASE ~r.ok
  <2>1. Returned(p, r) = [r EXCEPT !.cur = p.cur]
    BY <1>2 DEF Returned
  <2> QED
    BY <1>2, <2>1 DEF Follows, Fine, Passes
<1> QED
  BY <1>1, <1>2

\* A token that is no semicolon is not the last.
LEMMA TakenFollows ==
  ASSUME NEW ts, Ends(ts), NEW p, Fine(ts, p), p.ok, ts[p.cur + 1] # Semicolon
  PROVE  LET r == [p EXCEPT !.node = ts[p.cur + 1], !.cur = @ + 1]
         IN  Follows(ts, p, r) /\ r.ok /\ r.cur = p.cur + 1
<1>1. p.cur + 1 \in 0 .. (Len(ts) - 1)
  BY DEF Fine, Ends
<1> PICK r, node, cur : /\ node = ts[p.cur + 1] /\ cur = p.cur + 1
                        /\ r = [p EXCEPT !.node = node, !.cur = cur]
  OBVIOUS
<1>2. r = [p EXCEPT !.node = ts[p.cur + 1], !.cur = @ + 1]
  OBVIOUS
<1>3. DOMAIN r = DOMAIN p /\ r.ok = p.ok /\ r.near = p.near /\ r.cur = p.cur + 1
  BY DEF Fine
<1>4. Fine(ts, r)
  BY <1>1, <1>3 DEF Fine
<1>5. Passes(ts, p.cur, r.cur)
  BY <1>3 DEF Fine, Passes
<1> QED
  BY <1>2, <1>3, <1>4, <1>5 DEF Follows

------------------------------------------------------------------------------
(***************************************************************************)
(* Tokens.                                                                 *)
(***************************************************************************)
LEMMA TookFollows ==
  ASSUME NEW ts, Ends(ts), NEW p, Fine(ts, p), NEW r,
         \/ r = [p EXCEPT !.ok = FALSE]
         \/ /\ p.ok /\ ts[p.cur + 1] # Semicolon
            /\ r = [p EXCEPT !.node = ts[p.cur + 1], !.cur = @ + 1]
  PROVE  Follows(ts, p, r) /\ (r.ok => r.cur = p.cur + 1)
<1>1. CASE r = [p EXCEPT !.ok = FALSE]
  BY <1>1, FineFollows, FailureFollows
<1>2. CASE /\ p.ok /\ ts[p.cur + 1] # Semicolon
           /\ r = [p EXCEPT !.node = ts[p.cur + 1], !.cur = @ + 1]
  BY <1>2, TakenFollows
<1> QED
  BY <1>1, <1>2

\* Every symbol and keyword but the semicolon
LEMMA NoSemicolon ==
  /\ \A s : s # ";" => Symbol(s) # Semicolon
  /\ \A k : Keyword(k) # Semicolon
  /\ Semicolon.kind = "symbol"
  /\ LeftParen # Semicolon /\ RightParen # Semicolon /\ Comma # Semicolon
  /\ Semicolon \notin BinOps
<1>1. \A k, v : Token(k, v).kind = k /\ Token(k, v).value = v
  BY DEF Token
<1>2. /\ Semicolon.kind = "symbol" /\ Semicolon.value = ";"
      /\ \A s : Symbol(s).value = s
      /\ \A k : Keyword(k).kind = "keyword"
  BY <1>1 DEF Semicolon, Symbol, Keyword
<1>3. /\ \A s : s # ";" => Symbol(s) # Semicolon
      /\ \A k : Keyword(k) # Semicolon
  BY <1>2
<1>4. LeftParen # Semicolon /\ RightParen # Semicolon /\ Comma # Semicolon
  BY <1>3 DEF LeftParen, RightParen, Comma
<1>5. Semicolon \notin BinOps
  BY <1>3 DEF BinOps
<1> QED
  BY <1>2, <1>3, <1>4, <1>5

LEMMA ParseTokenFollows ==
  ASSUME NEW ts, Ends(ts), NEW p, Fine(ts, p), NEW t, t # Semicolon
  PROVE  /\ Follows(ts, p, ParseToken(ts, p, t))
         /\ ParseToken(ts, p, t).ok => ParseToken(ts, p, t).cur = p.cur + 1
<1>1. \/ ParseToken(ts, p, t) = [p EXCEPT !.ok = FALSE]
      \/ /\ p.ok /\ ts[p.cur + 1] = t
         /\ ParseToken(ts, p, t) = [p EXCEPT !.node = ts[p.cur + 1], !.cur = @ + 1]
  BY DEF ParseToken, Took
<1> PICK r : r = ParseToken(ts, p, t)
  OBVIOUS
<1>3. \/ r = [p EXCEPT !.ok = FALSE]
      \/ /\ p.ok /\ ts[p.cur + 1] # Semicolon
         /\ r = [p EXCEPT !.node = ts[p.cur + 1], !.cur = @ + 1]
  BY <1>1, r = ParseToken(ts, p, t)
<1>4. Follows(ts, p, r) /\ (r.ok => r.cur = p.cur + 1)
  BY ONLY Ends(ts), Fine(ts, p), <1>3, TookFollows
<1> QED
  BY <1>4

LEMMA ParseTokenKindFollows ==
  ASSUME NEW ts, Ends(ts), NEW p, Fine(ts, p), NEW kind, kind # "symbol"
  PROVE  /\ Follows(ts, p, ParseTokenKind(ts, p, kind))
         /\ ParseTokenKind(ts, p, kind).ok => ParseTokenKind(ts, p, kind).cur = p.cur + 1
<1>1. \/ ParseTokenKind(ts, p, kind) = [p EXCEPT !.ok = FALSE]
      \/ /\ p.ok /\ ts[p.cur + 1].kind = kind
         /\ ParseTokenKind(ts, p, kind) = [p EXCEPT !.node = ts[p.cur + 1], !.cur = @ + 1]
  BY DEF ParseTokenKind, Took
<1> PICK r : r = ParseTokenKind(ts, p, kind)
  OBVIOUS
<1>3. \/ r = [p EXCEPT !.ok = FALSE]
      \/ /\ p.ok /\ ts[p.cur + 1] # Semicolon
         /\ r = [p EXCEPT !.node = ts[p.cur + 1], !.cur = @ + 1]
  BY <1>1, NoSemicolon, r = ParseTokenKind(ts, p, kind)
<1>4. Follows(ts, p, r) /\ (r.ok => r.cur = p.cur + 1)
  BY ONLY Ends(ts), Fine(ts, p), <1>3, TookFollows
<1> QED
  BY <1>4

LEMMA ParseLiteralFollows ==
  ASSUME NEW ts, Ends(ts), NEW p, Fine(ts, p)
  PROVE  /\ Follows(ts, p, ParseLiteralExpression(ts, p))
         /\ ParseLiteralExpression(ts, p).ok => ParseLiteralExpression(ts, p).cur = p.cur + 1
<1>1. \/ ParseLiteralExpression(ts, p) = [p EXCEPT !.ok = FALSE]
      \/ /\ p.ok /\ ts[p.cur + 1].kind \in {"identifier", "numeric", "string", "bool", "null"}
         /\ ParseLiteralExpression(ts, p) = [p EXCEPT !.node = ts[p.cur + 1], !.cur = @ + 1]
  BY DEF ParseLiteralExpression, Took
<1>2. "symbol" \notin {"identifier", "numeric", "string", "bool", "null"}
  OBVIOUS
<1> PICK r : r = ParseLiteralExpression(ts, p)
  OBVIOUS
<1>3. \/ r = [p EXCEPT !.ok = FALSE]
      \/ /\ p.ok /\ ts[p.cur + 1] # Semicolon
         /\ r = [p EXCEPT !.node = ts[p.cur + 1], !.cur = @ + 1]
  BY <1>1, NoSemicolon, <1>2, r = ParseLiteralExpression(ts, p)
<1>4. Follows(ts, p, r) /\ (r.ok => r.cur = p.cur + 1)
  BY ONLY Ends(ts), Fine(ts, p), <1>3, TookFollows
<1> QED
  BY <1>4

LEMMA ExpectFollows ==
  ASSUME NEW ts, Ends(ts), NEW p, Fine(ts, p), NEW t, t # Semicolon
  PROVE  Follows(ts, p, Expect(ts, p, t))
BY ParseTokenFollows, WantedFollows DEF Expect

LEMMA ExpectKindFollows ==
  ASSUME NEW ts, Ends(ts), NEW p, Fine(ts, p), NEW kind, kind # "symbol"
  PROVE  Follows(ts, p, ExpectKind(ts, p, kind))
BY ParseTokenKindFollows, WantedFollows DEF ExpectKind

\* A word that may be absent: the result fails only if p has failed.
LEMMA OptionalFollows ==
  ASSUME NEW ts, Ends(ts), NEW p, Fine(ts, p), NEW t, t # Semicolon
  PROVE  Follows(ts, p, Optional(ts, p, t))
<1> PICK word : word = ParseToken(ts, p, t)
  OBVIOUS
<1>1. Follows(ts, p, word)
  BY ParseTokenFollows, word = ParseToken(ts, p, t)
<1> PICK r, found : r = [p EXCEPT !.node = found, !.cur = word.cur] /\ found = word.ok
  OBVIOUS
<1>2. r = Optional(ts, p, t)
  BY word = ParseToken(ts, p, t) DEF Optional
<1>3. DOMAIN r = DOMAIN p /\ r.ok = p.ok /\ r.near = p.near /\ r.cur = word.cur
  BY DEF Fine
<1>4. Fine(ts, r)
  BY <1>1, <1>3 DEF Fine, Follows
<1> QED
  BY <1>1, <1>2, <1>3, <1>4 DEF Follows

------------------------------------------------------------------------------
(***************************************************************************)
(* Expressions.                                                            *)
(***************************************************************************)

\* What the calls return is fine, and an expression takes a token.
Sound(ts, nested) ==
  \A call \in Calls(ts) :
    call.cur < Len(ts) =>
      Follows(ts, At(call.cur), nested[call]) /\ (nested[call].ok => call.cur < nested[call].cur)

LEMMA AtFine ==
  ASSUME NEW ts, NEW c \in 0 .. (Len(ts) - 1)
  PROVE  Fine(ts, At(c)) /\ At(c).cur = c /\ At(c).ok /\ At(c).near = <<>>
BY DEF At, Fine

LEMMA CalledFollows ==
  ASSUME NEW ts, Ends(ts), NEW nested, Sound(ts, nested), NEW p, Fine(ts, p),
         NEW delimiters \in SUBSET Delimiters, NEW minBp \in 0 .. 5
  PROVE  LET r == Called(nested, p, delimiters, minBp)
         IN  Follows(ts, p, r) /\ (r.ok => p.cur < r.cur)
<1> PICK call : call = [cur |-> p.cur, delimiters |-> delimiters, minBp |-> minBp]
  OBVIOUS
<1> PICK r : r = nested[call]
  OBVIOUS
<1>1. p.cur \in 0 .. (Len(ts) - 1) /\ p.cur \in 0 .. Len(ts) /\ p.cur < Len(ts)
  BY DEF Fine, Ends
<1>2. call \in Calls(ts) /\ call.cur = p.cur
  BY <1>1 DEF Calls
<1>3. Follows(ts, At(p.cur), r) /\ (r.ok => p.cur < r.cur)
  BY <1>1, <1>2 DEF Sound
<1>4. At(p.cur).cur = p.cur
  BY <1>1, AtFine
<1>5. CASE p.ok
  <2> PICK q, messages : messages = p.near \o r.near /\ q = [r EXCEPT !.near = messages]
    OBVIOUS
  <2>1. q = Called(nested, p, delimiters, minBp)
    BY <1>5 DEF Called
  <2>2. messages \in Seq(0 .. (Len(ts) - 1))
    BY <1>3 DEF Follows, Fine
  <2>3. DOMAIN q = DOMAIN r /\ q.ok = r.ok /\ q.cur = r.cur /\ q.near = messages
    BY <1>3 DEF Follows, Fine
  <2>4. Follows(ts, p, q)
    BY <1>3, <1>4, <1>5, <2>2, <2>3 DEF Follows, Fine
  <2> QED
    BY <1>3, <2>1, <2>3, <2>4
<1>6. CASE ~p.ok
  <2>1. Called(nested, p, delimiters, minBp) = p
    BY <1>6 DEF Called
  <2> QED
    BY <1>6, <2>1, FineFollows
<1> QED
  BY <1>5, <1>6

LEMMA BindingPowerRange ==
  ASSUME NEW op
  PROVE  BindingPower(op) \in 0 .. 5
BY DEF BindingPower

\* An operator is taken, or p is passed on, failed or as it is.
LEMMA ParseOperatorFollows ==
  ASSUME NEW ts, Ends(ts), NEW nested, Sound(ts, nested), NEW call \in Calls(ts),
         NEW p, Fine(ts, p)
  PROVE  Follows(ts, p, ParseOperator(ts, nested, call, p))
<1> PICK op, operand, b :
      /\ op = ts[p.cur + 1] /\ operand = [p EXCEPT !.cur = @ + 1]
      /\ b = Wanted(p, Called(nested, operand, call.delimiters, BindingPower(op)))
  OBVIOUS
<1> PICK r : r = ParseOperator(ts, nested, call, p)
  OBVIOUS
<1>1. \/ r = p
      \/ r = HelpMessage([p EXCEPT !.ok = FALSE])
      \/ /\ p.ok /\ op \in BinOps
         /\ r = b \/ r = [b EXCEPT !.node = Binary(p.node, @, op)]
  BY Zenon DEF ParseOperator
<1>2. CASE r = p
  BY <1>2, FineFollows
<1>3. CASE r = HelpMessage([p EXCEPT !.ok = FALSE])
  <2>1. Follows(ts, p, [p EXCEPT !.ok = FALSE])
    BY FineFollows, FailureFollows
  <2> QED
    BY <1>3, <2>1, HelpMessageFollows
<1>4. CASE /\ p.ok /\ op \in BinOps
           /\ r = b \/ r = [b EXCEPT !.node = Binary(p.node, @, op)]
  <2>1. ts[p.cur + 1] # Semicolon
    BY <1>4, NoSemicolon
  <2>2. p.cur + 1 \in 0 .. (Len(ts) - 1)
    BY <2>1 DEF Fine, Ends
  <2>3. /\ DOMAIN operand = DOMAIN p /\ operand.ok = p.ok /\ operand.near = p.near
        /\ operand.cur = p.cur + 1
    BY DEF Fine
  <2>4. Fine(ts, operand)
    BY <2>2, <2>3 DEF Fine
  <2>5. Follows(ts, p, operand)
    BY <2>1, <2>3, <2>4 DEF Follows, Fine, Passes
  <2>6. Follows(ts, operand, Called(nested, operand, call.delimiters, BindingPower(op)))
    BY <2>4, CalledFollows, BindingPowerRange DEF Calls
  <2>7. Follows(ts, p, b)
    <3>1. Follows(ts, p, Called(nested, operand, call.delimiters, BindingPower(op)))
      BY ONLY Fine(ts, p), <2>5, <2>6, FollowsOn
    <3> QED
      BY <3>1, WantedFollows
  <2>8. ASSUME r = [b EXCEPT !.node = Binary(p.node, @, op)] PROVE Follows(ts, p, r)
    <3> PICK node : node = Binary(p.node, b.node, op)
      OBVIOUS
    <3>1. r = [b EXCEPT !.node = node]
      BY <2>8
    <3> QED
      BY ONLY <2>7, <3>1, NodeFollows
  <2> QED
    BY <1>4, <2>7, <2>8
<1> QED
  BY <1>1, <1>2, <1>3, <1>4

(***************************************************************************)
(* The loops are functions: their value at a turn is made of the one at    *)
(* the turn before.                                                        *)
(***************************************************************************)
LEMMA OperatorsLoop ==
  ASSUME NEW ts, Ends(ts), NEW nested, NEW call, NEW first
  PROVE  \E loop : /\ ParseOperators(ts, nested, call, first) = loop[MaxTurns(ts)]
                   /\ loop[0] = first
                   /\ \A k \in 0 .. (MaxTurns(ts) - 1) : loop[k + 1] = ParseOperator(ts, nested, call, loop[k])
<1> DEFINE n == MaxTurns(ts)
           base == first
           Turn(p) == ParseOperator(ts, nested, call, p)
           Value(f, k) == IF k = 0 THEN first ELSE ParseOperator(ts, nested, call, f[k - 1])
           loop == CHOOSE f : f = [k \in 0 .. n |-> Value(f, k)]
<1>1. ParseOperators(ts, nested, call, first) = loop[n]
  BY Zenon DEF ParseOperators
<1>2. n \in Nat /\ 0 \in Int /\ n \in Int
  BY DEF Ends, MaxTurns
<1>3. \A f : Value(f, 0) = base
  OBVIOUS
<1>4. \A f, k : k # 0 => Value(f, k) = Turn(f[k - 1])
  OBVIOUS
<1>5. \E f : f = [k \in 0 .. n |-> Value(f, k)]
  <2> DEFINE Q == {m \in 0 .. n : \E f : f = [k \in 0 .. m |-> Value(f, k)]}
  <2>1. 0 \in Q
    <3> DEFINE f == [k \in 0 .. 0 |-> base]
    <3>1. \A k \in 0 .. 0 : f[k] = Value(f, k)
      BY <1>3
    <3> HIDE DEF Value
    <3>2. f = [k \in 0 .. 0 |-> Value(f, k)]
      BY <3>1
    <3> QED
      BY <1>2, <3>2
  <2>2. ASSUME NEW m \in 0 .. (n - 1), m \in Q PROVE m + 1 \in Q
    <3> HIDE DEF base, Turn
    <3>1. PICK f : f = [k \in 0 .. m |-> Value(f, k)]
      BY <2>2
    <3> DEFINE g == [k \in 0 .. (m + 1) |-> IF k = 0 THEN base ELSE Turn(f[k - 1])]
    <3>2. \A k \in 0 .. m : g[k] = f[k]
      <4>1. \A k \in 0 .. m : f[k] = Value(f, k)
        <5> HIDE DEF Value
        <5> QED
          BY <3>1
      <4> HIDE DEF Value
      <4> QED
        BY <4>1, <1>3, <1>4
    <3>3. \A k \in 0 .. (m + 1) : g[k] = Value(g, k)
      <4> SUFFICES ASSUME NEW k \in 0 .. (m + 1) PROVE g[k] = Value(g, k)
        OBVIOUS
      <4>1. CASE k = 0
        BY <4>1, <1>3
      <4>2. CASE k # 0
        <5>1. k - 1 \in 0 .. m
          BY <4>2
        <5>2. g[k - 1] = f[k - 1]
          BY <3>2, <5>1
        <5>3. g[k] = Turn(f[k - 1])
          BY <4>2
        <5>4. Value(g, k) = Turn(g[k - 1])
          BY <4>2, <1>4
        <5> HIDE DEF g, Value
        <5> QED
          BY <5>2, <5>3, <5>4
      <4> QED
        BY <4>1, <4>2
    <3>4. g = [k \in 0 .. (m + 1) |-> Value(g, k)]
      <4> HIDE DEF Value
      <4> QED
        BY <3>3
    <3> HIDE DEF g, Value
    <3> QED
      BY <1>2, <3>4
  <2> HIDE DEF Q
  <2>3. n \in Q
    BY <1>2, <2>1, <2>2, Upwards
  <2> QED
    BY <2>3 DEF Q
<1>6. loop = [k \in 0 .. n |-> Value(loop, k)]
  <2> HIDE DEF Value
  <2> QED
    BY <1>5
<1>7. \A k \in 0 .. n : loop[k] = Value(loop, k)
  <2> HIDE DEF Value, loop
  <2> QED
    BY <1>6
<1> HIDE DEF Value, loop, Turn, base
<1>8. loop[0] = base /\ \A k \in 0 .. (n - 1) : loop[k + 1] = Turn(loop[k])
  <2>1. 0 \in 0 .. n /\ \A k \in 0 .. (n - 1) : k + 1 \in 0 .. n /\ k + 1 # 0 /\ (k + 1) - 1 = k
    BY <1>2
  <2> QED
    BY <1>3, <1>4, <1>7, <2>1
<1> QED
  BY <1>1, <1>8 DEF Turn, base

LEMMA ParseOperatorsFollow ==
  ASSUME NEW ts, Ends(ts), NEW nested, Sound(ts, nested), NEW call \in Calls(ts),
         NEW first, Fine(ts, first)
  PROVE  Follows(ts, first, ParseOperators(ts, nested, call, first))
<1> DEFINE n == MaxTurns(ts)
<1>1. PICK loop : /\ ParseOperators(ts, nested, call, first) = loop[n] /\ loop[0] = first
                  /\ \A k \in 0 .. (n - 1) : loop[k + 1] = ParseOperator(ts, nested, call, loop[k])
  BY OperatorsLoop
<1>2. n \in Nat /\ 0 \in Int /\ n \in Int
  BY DEF Ends, MaxTurns
<1> DEFINE Q == {k \in 0 .. n : Follows(ts, first, loop[k])}
<1> HIDE DEF n
<1>3. 0 \in Q
  BY <1>1, <1>2, FineFollows
<1>4. ASSUME NEW k \in 0 .. (n - 1), k \in Q PROVE k + 1 \in Q
  <2>1. Follows(ts, first, loop[k])
    BY <1>4
  <2>2. Follows(ts, loop[k], ParseOperator(ts, nested, call, loop[k]))
    BY <2>1, ParseOperatorFollows DEF Follows
  <2>3. Follows(ts, first, loop[k + 1])
    BY <1>1, <2>1, <2>2, FollowsOn
  <2> QED
    BY <1>2, <2>3
<1>5. n \in Q
  <2> HIDE DEF Q
  <2> QED
    BY <1>2, <1>3, <1>4, Upwards
<1> QED
  BY <1>1, <1>5

\* The first operand takes a token.
LEMMA ParseOperandFollows ==
  ASSUME NEW ts, Ends(ts), NEW nested, Sound(ts, nested), NEW call \in Calls(ts),
         call.cur < Len(ts)
  PROVE  LET r == ParseOperand(ts, nested, call)
         IN  Follows(ts, At(call.cur), r) /\ (r.ok => call.cur < r.cur)
<1> PICK p, paren, inner, closed :
      /\ p = At(call.cur) /\ paren = ParseToken(ts, p, LeftParen)
      /\ inner = Wanted(paren, Called(nested, paren, call.delimiters \cup {RightParen}, call.minBp))
      /\ closed = Expect(ts, inner, RightParen)
  OBVIOUS
<1>1. call.cur \in 0 .. (Len(ts) - 1) /\ call.delimiters \in SUBSET Delimiters /\ call.minBp \in 0 .. 5
  BY DEF Calls, Ends
<1>2. Fine(ts, p) /\ p.cur = call.cur
  BY <1>1, AtFine
<1>3. LeftParen # Semicolon /\ RightParen # Semicolon
  BY NoSemicolon
<1>4. Follows(ts, p, paren) /\ (paren.ok => paren.cur = p.cur + 1)
  BY ONLY Ends(ts), <1>2, <1>3, ParseTokenFollows, paren = ParseToken(ts, p, LeftParen)
<1>5. Follows(ts, paren, inner)
  <2>1. Fine(ts, paren)
    BY <1>4 DEF Follows
  <2>2. call.delimiters \cup {RightParen} \in SUBSET Delimiters
    BY <1>1 DEF Delimiters
  <2>3. Follows(ts, paren, Called(nested, paren, call.delimiters \cup {RightParen}, call.minBp))
    BY ONLY Ends(ts), Sound(ts, nested), <1>1, <2>1, <2>2, CalledFollows
  <2> QED
    BY <2>3, WantedFollows
<1>6. Follows(ts, inner, closed)
  BY <1>3, <1>5, ExpectFollows DEF Follows
<1>7. Follows(ts, paren, closed)
  BY ONLY <1>4, <1>5, <1>6, FollowsOn DEF Follows
<1>8. Follows(ts, p, closed)
  BY ONLY <1>2, <1>4, <1>7, FollowsOn
<1>9. CASE paren.ok
  <2> PICK r, node : r = [closed EXCEPT !.node = node] /\ node = inner.node
    OBVIOUS
  <2>1. ParseOperand(ts, nested, call) = r
    BY <1>9 DEF ParseOperand
  <2>2. Follows(ts, p, r) /\ Follows(ts, paren, r)
    BY ONLY <1>7, <1>8, NodeFollows, r = [closed EXCEPT !.node = node] /\ node = inner.node
  <2>3. p.cur < r.cur
    BY <1>2, <1>4, <1>9, <2>2 DEF Follows, Fine, Passes
  <2> QED
    BY <1>2, <2>1, <2>2, <2>3
<1>10. CASE ~paren.ok
  <2>1. ParseOperand(ts, nested, call) = ParseLiteralExpression(ts, p)
    BY <1>10 DEF ParseOperand
  <2> PICK r : r = ParseLiteralExpression(ts, p)
    OBVIOUS
  <2>2. Follows(ts, p, r) /\ (r.ok => r.cur = p.cur + 1)
    BY <1>2, ParseLiteralFollows
  <2>3. r.ok => p.cur < r.cur
    BY <1>2, <2>2 DEF Fine
  <2> QED
    BY <1>2, <2>1, <2>2, <2>3
<1> QED
  BY <1>9, <1>10

\* Calls nested one deeper return what they do with those nested before.
LEMMA NestedCalls ==
  ASSUME NEW ts, Ends(ts)
  PROVE  \E loop : /\ Returns(ts) = loop[Len(ts)]
                   /\ loop[0] = TooDeep(ts)
                   /\ \A k \in 0 .. (Len(ts) - 1) : loop[k + 1] = Deeper(ts, loop[k])
<1> DEFINE n == Len(ts)
           base == TooDeep(ts)
           Turn(p) == Deeper(ts, p)
           Value(f, k) == IF k = 0 THEN TooDeep(ts) ELSE Deeper(ts, f[k - 1])
           loop == CHOOSE f : f = [k \in 0 .. n |-> Value(f, k)]
<1>1. Returns(ts) = loop[n]
  BY Zenon DEF Returns
<1>2. n \in Nat /\ 0 \in Int /\ n \in Int
  BY DEF Ends
<1> HIDE DEF n
<1>3. \A f : Value(f, 0) = base
  OBVIOUS
<1>4. \A f, k : k # 0 => Value(f, k) = Turn(f[k - 1])
  OBVIOUS
<1>5. \E f : f = [k \in 0 .. n |-> Value(f, k)]
  <2> DEFINE Q == {m \in 0 .. n : \E f : f = [k \in 0 .. m |-> Value(f, k)]}
  <2>1. 0 \in Q
    <3> DEFINE f == [k \in 0 .. 0 |-> base]
    <3>1. \A k \in 0 .. 0 : f[k] = Value(f, k)
      BY <1>3
    <3> HIDE DEF Value
    <3>2. f = [k \in 0 .. 0 |-> Value(f, k)]
      BY <3>1
    <3> QED
      BY <1>2, <3>2
  <2>2. ASSUME NEW m \in 0 .. (n - 1), m \in Q PROVE m + 1 \in Q
    <3> HIDE DEF base, Turn
    <3>1. PICK f : f = [k \in 0 .. m |-> Value(f, k)]
      BY <2>2
    <3> DEFINE g == [k \in 0 .. (m + 1) |-> IF k = 0 THEN base ELSE Turn(f[k - 1])]
    <3>2. \A k \in 0 .. m : g[k] = f[k]
      <4>1. \A k \in 0 .. m : f[k] = Value(f, k)
        <5> HIDE DEF Value
        <5> QED
          BY <3>1
      <4> HIDE DEF Value
      <4> QED
        BY <4>1, <1>3, <1>4
    <3>3. \A k \in 0 .. (m + 1) : g[k] = Value(g, k)
      <4> SUFFICES ASSUME NEW k \in 0 .. (m + 1) PROVE g[k] = Value(g, k)
        OBVIOUS
      <4>1. CASE k = 0
        BY <4>1, <1>3
      <4>2. CASE k # 0
        <5>1. k - 1 \in 0 .. m
          BY <4>2
        <5>2. g[k - 1] = f[k - 1]
          BY <3>2, <5>1
        <5>3. g[k] = Turn(f[k - 1])
          BY <4>2
        <5>4. Value(g, k) = Turn(g[k - 1])
          BY <4>2, <1>4
        <5> HIDE DEF g, Value
        <5> QED
          BY <5>2, <5>3, <5>4
      <4> QED
        BY <4>1, <4>2
    <3>4. g = [k \in 0 .. (m + 1) |-> Value(g, k)]
      <4> HIDE DEF Value
      <4> QED
        BY <3>3
    <3> HIDE DEF g, Value
    <3> QED
      BY <1>2, <3>4
  <2> HIDE DEF Q
  <2>3. n \in Q
    BY <1>2, <2>1, <2>2, Upwards
  <2> QED
    BY <2>3 DEF Q
<1>6. loop = [k \in 0 .. n |-> Value(loop, k)]
  <2> HIDE DEF Value
  <2> QED
    BY <1>5
<1>7. \A k \in 0 .. n : loop[k] = Value(loop, k)
  <2> HIDE DEF Value, loop
  <2> QED
    BY <1>6
<1> HIDE DEF Value, loop, Turn, base
<1>8. loop[0] = base /\ \A k \in 0 .. (n - 1) : loop[k + 1] = Turn(loop[k])
  <2>1. 0 \in 0 .. n /\ \A k \in 0 .. (n - 1) : k + 1 \in 0 .. n /\ k + 1 # 0 /\ (k + 1) - 1 = k
    BY <1>2
  <2> QED
    BY <1>3, <1>4, <1>7, <2>1
<1> QED
  BY <1>1, <1>8 DEF Turn, base, n

LEMMA TooDeepSound ==
  ASSUME NEW ts, Ends(ts)
  PROVE  Sound(ts, TooDeep(ts))
<1> SUFFICES ASSUME NEW call \in Calls(ts), call.cur < Len(ts)
             PROVE  Follows(ts, At(call.cur), [At(call.cur) EXCEPT !.ok = FALSE])
                    /\ ~[At(call.cur) EXCEPT !.ok = FALSE].ok
  BY DEF Sound, TooDeep
<1>1. Fine(ts, At(call.cur))
  BY AtFine DEF Calls, Ends
<1> QED
  BY <1>1, FineFollows, FailureFollows

LEMMA DeeperSound ==
  ASSUME NEW ts, Ends(ts), NEW nested, Sound(ts, nested)
  PROVE  Sound(ts, Deeper(ts, nested))
<1> SUFFICES ASSUME NEW call \in Calls(ts), call.cur < Len(ts)
             PROVE  Follows(ts, At(call.cur), ParseCall(ts, nested, call))
                    /\ (ParseCall(ts, nested, call).ok => call.cur < ParseCall(ts, nested, call).cur)
  BY DEF Sound, Deeper
<1> PICK r : r = ParseCall(ts, nested, call)
  OBVIOUS
<1> PICK p, first, last : /\ p = At(call.cur) /\ first = ParseOperand(ts, nested, call)
                          /\ last = ParseOperators(ts, nested, call, first)
  OBVIOUS
<1>1. Fine(ts, p) /\ p.cur = call.cur
  <2>1. call.cur \in 0 .. (Len(ts) - 1)
    BY DEF Calls, Ends
  <2> QED
    BY <2>1, AtFine
<1>2. Follows(ts, p, first) /\ (first.ok => p.cur < first.cur)
  BY <1>1, ParseOperandFollows
<1>3. Follows(ts, first, last)
  BY <1>2, ParseOperatorsFollow DEF Follows
<1>4. Follows(ts, p, last)
  BY ONLY <1>1, <1>2, <1>3, FollowsOn
<1>5. last.ok => p.cur < last.cur
  BY <1>1, <1>2, <1>3 DEF Follows, Fine, Passes
<1>6. Follows(ts, p, r) /\ r.ok = last.ok /\ (last.ok => r.cur = last.cur)
  <2>1. r = Returned(p, last)
    BY r = ParseCall(ts, nested, call) DEF ParseCall
  <2> QED
    BY <1>1, <1>4, <2>1, ReturnedFollows
<1> QED
  BY <1>1, <1>5, <1>6

LEMMA ReturnsSound ==
  ASSUME NEW ts, Ends(ts)
  PROVE  Sound(ts, Returns(ts))
<1> DEFINE n == Len(ts)
<1>1. PICK nested : /\ Returns(ts) = nested[n] /\ nested[0] = TooDeep(ts)
                    /\ \A k \in 0 .. (n - 1) : nested[k + 1] = Deeper(ts, nested[k])
  BY NestedCalls
<1>2. n \in Nat /\ n \in Int /\ 0 \in Int
  BY DEF Ends
<1> HIDE DEF n
<1> DEFINE Q == {k \in 0 .. n : Sound(ts, nested[k])}
<1>3. 0 \in Q
  BY <1>1, <1>2, TooDeepSound
<1>4. ASSUME NEW k \in 0 .. (n - 1), k \in Q PROVE k + 1 \in Q
  <2>1. Sound(ts, nested[k + 1])
    BY <1>1, <1>4, DeeperSound
  <2> QED
    BY <1>2, <2>1
<1>5. n \in Q
  <2> HIDE DEF Q
  <2> QED
    BY <1>2, <1>3, <1>4, Upwards
<1> QED
  BY <1>1, <1>5

LEMMA ParseExpressionFollows ==
  ASSUME NEW ts, Ends(ts), NEW p, Fine(ts, p),
         NEW delimiters \in SUBSET Delimiters, NEW minBp \in 0 .. 5
  PROVE  LET r == ParseExpression(ts, p, delimiters, minBp)
         IN  Follows(ts, p, r) /\ (r.ok => p.cur < r.cur)
BY ReturnsSound, CalledFollows DEF ParseExpression

------------------------------------------------------------------------------
(***************************************************************************)
(* Lists.                                                                  *)
(***************************************************************************)
LEMMA ParseAsFollows ==
  ASSUME NEW ts, Ends(ts), NEW exp, Fine(ts, exp)
  PROVE  Follows(ts, exp, ParseAs(ts, exp))
<1> PICK as, id : as = ParseToken(ts, exp, Keyword("as")) /\ id = ExpectKind(ts, as, "identifier")
  OBVIOUS
<1>1. Follows(ts, exp, as)
  BY ParseTokenFollows, NoSemicolon
<1>2. Follows(ts, as, id)
  BY <1>1, ExpectKindFollows DEF Follows
<1>3. Follows(ts, exp, id)
  BY ONLY Fine(ts, exp), <1>1, <1>2, FollowsOn
<1>4. Follows(ts, exp, exp)
  BY FineFollows
<1>5. \/ \E node : ParseAs(ts, exp) = [exp EXCEPT !.node = node]
      \/ \E node : ParseAs(ts, exp) = [id EXCEPT !.node = node]
  BY DEF ParseAs
<1> QED
  BY ONLY <1>3, <1>4, <1>5, NodeFollows

LEMMA ParseSelectItemFollows ==
  ASSUME NEW ts, Ends(ts), NEW p, Fine(ts, p), NEW delimiters \in SUBSET Delimiters
  PROVE  Follows(ts, p, ParseSelectItem(ts, p, delimiters))
<1> PICK star, stops : /\ star = ParseToken(ts, p, Symbol("*"))
                       /\ stops = delimiters \cup {Comma, Keyword("as")}
  OBVIOUS
<1> PICK exp : exp = ParseExpression(ts, p, stops, 0)
  OBVIOUS
<1>1. Follows(ts, p, star)
  BY ParseTokenFollows, NoSemicolon
<1>2. stops \in SUBSET Delimiters /\ 0 \in 0 .. 5
  BY DEF Delimiters
<1>3. Follows(ts, p, exp)
  BY <1>2, ParseExpressionFollows
<1>4. Follows(ts, p, Wanted(p, exp))
  BY <1>3, WantedFollows
<1>5. Follows(ts, Wanted(p, exp), ParseAs(ts, Wanted(p, exp)))
  BY <1>4, ParseAsFollows DEF Follows
<1>6. Follows(ts, p, ParseAs(ts, Wanted(p, exp)))
  BY ONLY Fine(ts, p), <1>4, <1>5, FollowsOn
<1>7. \/ ParseSelectItem(ts, p, delimiters) = [star EXCEPT !.node = Asterisk]
      \/ ParseSelectItem(ts, p, delimiters) = ParseAs(ts, Wanted(p, exp))
  BY DEF ParseSelectItem
<1> QED
  BY ONLY <1>1, <1>6, <1>7, NodeFollows

LEMMA ParseColumnDefinitionFollows ==
  ASSUME NEW ts, Ends(ts), NEW p, Fine(ts, p)
  PROVE  Follows(ts, p, ParseColumnDefinition(ts, p))
<1> PICK id, type, pkey : /\ id = ExpectKind(ts, p, "identifier")
                          /\ type = ExpectKind(ts, id, "keyword")
                          /\ pkey = Optional(ts, type, Keyword("primary key"))
  OBVIOUS
<1>1. Follows(ts, p, id)
  BY ExpectKindFollows
<1>2. Follows(ts, id, type)
  BY <1>1, ExpectKindFollows DEF Follows
<1>3. Follows(ts, type, pkey)
  BY <1>2, OptionalFollows, NoSemicolon DEF Follows
<1>4. Follows(ts, p, type)
  BY ONLY Fine(ts, p), <1>1, <1>2, FollowsOn
<1>5. Follows(ts, p, pkey)
  BY ONLY Fine(ts, p), <1>3, <1>4, FollowsOn
<1> PICK node : node = [name |-> id.node, datatype |-> type.node, primaryKey |-> pkey.node]
  OBVIOUS
<1>6. ParseColumnDefinition(ts, p) = [pkey EXCEPT !.node = node]
  <2>1. ParseColumnDefinition(ts, p) =
          [pkey EXCEPT !.node = [name |-> id.node, datatype |-> type.node, primaryKey |-> @]]
    BY Zenon DEF ParseColumnDefinition
  <2> QED
    BY <2>1
<1>7. Follows(ts, p, [pkey EXCEPT !.node = node])
  BY ONLY <1>5, NodeFollows
<1> QED
  BY ONLY <1>6, <1>7, Zenon

Elements == {"select items", "columns", "expressions"}

LEMMA ParseElementFollows ==
  ASSUME NEW ts, Ends(ts), NEW p, Fine(ts, p), NEW delimiters \in SUBSET Delimiters,
         NEW of \in Elements
  PROVE  Follows(ts, p, ParseElement(ts, p, delimiters, of))
<1>1. CASE of = "select items"
  BY <1>1, ParseSelectItemFollows DEF ParseElement
<1>2. CASE of = "columns"
  BY <1>2, ParseColumnDefinitionFollows DEF ParseElement
<1>3. CASE of = "expressions"
  <2> PICK stops : stops = {Comma, RightParen}
    OBVIOUS
  <2>1. stops \in SUBSET Delimiters /\ 0 \in 0 .. 5
    BY DEF Delimiters
  <2>2. Follows(ts, p, ParseExpression(ts, p, stops, 0))
    BY <2>1, ParseExpressionFollows
  <2>3. Follows(ts, p, Wanted(p, ParseExpression(ts, p, stops, 0)))
    BY <2>2, WantedFollows
  <2>4. ParseElement(ts, p, delimiters, of) = Wanted(p, ParseExpression(ts, p, stops, 0))
    BY <1>3, stops = {Comma, RightParen} DEF ParseElement
  <2> QED
    BY <2>3, <2>4
<1> QED
  BY <1>1, <1>2, <1>3 DEF Elements

LEMMA ParseTurnFollows ==
  ASSUME NEW ts, Ends(ts), NEW p, Fine(ts, p), NEW delimiters \in SUBSET Delimiters,
         NEW of \in Elements
  PROVE  Follows(ts, p, ParseTurn(ts, p, delimiters, of))
<1> PICK comma : comma = IF p.node = <<>> THEN p ELSE Expect(ts, p, Comma)
  OBVIOUS
<1> PICK element : element = ParseElement(ts, comma, delimiters, of)
  OBVIOUS
<1>1. Follows(ts, p, p)
  BY FineFollows
<1>2. Follows(ts, p, comma)
  BY <1>1, ExpectFollows, NoSemicolon
<1>3. Follows(ts, comma, element)
  BY <1>2, ParseElementFollows DEF Follows
<1>4. Follows(ts, p, element)
  BY ONLY Fine(ts, p), <1>2, <1>3, FollowsOn
<1>5. \/ ParseTurn(ts, p, delimiters, of) = [p EXCEPT !.ok = FALSE]
      \/ ParseTurn(ts, p, delimiters, of) = p
      \/ \E node : ParseTurn(ts, p, delimiters, of) = [element EXCEPT !.node = node]
  BY DEF ParseTurn, Collected
<1> QED
  BY ONLY <1>1, <1>4, <1>5, NodeFollows, FailureFollows

\* The loop of a list
LEMMA ElementsLoop ==
  ASSUME NEW ts, Ends(ts), NEW p, NEW delimiters, NEW of
  PROVE  \E loop : /\ ParseElements(ts, p, delimiters, of) = loop[MaxTurns(ts)]
                   /\ loop[0] = [p EXCEPT !.node = <<>>]
                   /\ \A k \in 0 .. (MaxTurns(ts) - 1) : loop[k + 1] = ParseTurn(ts, loop[k], delimiters, of)
<1> DEFINE n == MaxTurns(ts)
           base == [p EXCEPT !.node = <<>>]
           Turn(q) == ParseTurn(ts, q, delimiters, of)
           Value(f, k) == IF k = 0 THEN [p EXCEPT !.node = <<>>] ELSE ParseTurn(ts, f[k - 1], delimiters, of)
           loop == CHOOSE f : f = [k \in 0 .. n |-> Value(f, k)]
<1>1. ParseElements(ts, p, delimiters, of) = loop[n]
  BY Zenon DEF ParseElements
<1>2. n \in Nat /\ 0 \in Int /\ n \in Int
  BY DEF Ends, MaxTurns
<1>3. \A f : Value(f, 0) = base
  OBVIOUS
<1>4. \A f, k : k # 0 => Value(f, k) = Turn(f[k - 1])
  OBVIOUS
<1>5. \E f : f = [k \in 0 .. n |-> Value(f, k)]
  <2> DEFINE Q == {m \in 0 .. n : \E f : f = [k \in 0 .. m |-> Value(f, k)]}
  <2>1. 0 \in Q
    <3> DEFINE f == [k \in 0 .. 0 |-> base]
    <3>1. \A k \in 0 .. 0 : f[k] = Value(f, k)
      BY <1>3
    <3> HIDE DEF Value
    <3>2. f = [k \in 0 .. 0 |-> Value(f, k)]
      BY <3>1
    <3> QED
      BY <1>2, <3>2
  <2>2. ASSUME NEW m \in 0 .. (n - 1), m \in Q PROVE m + 1 \in Q
    <3> HIDE DEF base, Turn
    <3>1. PICK f : f = [k \in 0 .. m |-> Value(f, k)]
      BY <2>2
    <3> DEFINE g == [k \in 0 .. (m + 1) |-> IF k = 0 THEN base ELSE Turn(f[k - 1])]
    <3>2. \A k \in 0 .. m : g[k] = f[k]
      <4>1. \A k \in 0 .. m : f[k] = Value(f, k)
        <5> HIDE DEF Value
        <5> QED
          BY <3>1
      <4> HIDE DEF Value
      <4> QED
        BY <4>1, <1>3, <1>4
    <3>3. \A k \in 0 .. (m + 1) : g[k] = Value(g, k)
      <4> SUFFICES ASSUME NEW k \in 0 .. (m + 1) PROVE g[k] = Value(g, k)
        OBVIOUS
      <4>1. CASE k = 0
        BY <4>1, <1>3
      <4>2. CASE k # 0
        <5>1. k - 1 \in 0 .. m
          BY <4>2
        <5>2. g[k - 1] = f[k - 1]
          BY <3>2, <5>1
        <5>3. g[k] = Turn(f[k - 1])
          BY <4>2
        <5>4. Value(g, k) = Turn(g[k - 1])
          BY <4>2, <1>4
        <5> HIDE DEF g, Value
        <5> QED
          BY <5>2, <5>3, <5>4
      <4> QED
        BY <4>1, <4>2
    <3>4. g = [k \in 0 .. (m + 1) |-> Value(g, k)]
      <4> HIDE DEF Value
      <4> QED
        BY <3>3
    <3> HIDE DEF g, Value
    <3> QED
      BY <1>2, <3>4
  <2> HIDE DEF Q
  <2>3. n \in Q
    BY <1>2, <2>1, <2>2, Upwards
  <2> QED
    BY <2>3 DEF Q
<1>6. loop = [k \in 0 .. n |-> Value(loop, k)]
  <2> HIDE DEF Value
  <2> QED
    BY <1>5
<1>7. \A k \in 0 .. n : loop[k] = Value(loop, k)
  <2> HIDE DEF Value, loop
  <2> QED
    BY <1>6
<1> HIDE DEF Value, loop, Turn, base
<1>8. loop[0] = base /\ \A k \in 0 .. (n - 1) : loop[k + 1] = Turn(loop[k])
  <2>1. 0 \in 0 .. n /\ \A k \in 0 .. (n - 1) : k + 1 \in 0 .. n /\ k + 1 # 0 /\ (k + 1) - 1 = k
    BY <1>2
  <2> QED
    BY <1>3, <1>4, <1>7, <2>1
<1> QED
  BY <1>1, <1>8 DEF Turn, base

LEMMA ParseListFollows ==
  ASSUME NEW ts, Ends(ts), NEW p, Fine(ts, p), NEW delimiters \in SUBSET Delimiters,
         NEW of \in Elements
  PROVE  Follows(ts, p, ParseList(ts, p, delimiters, of))
<1> DEFINE n == MaxTurns(ts)
<1>1. PICK loop : /\ ParseElements(ts, p, delimiters, of) = loop[n]
                  /\ loop[0] = [p EXCEPT !.node = <<>>]
                  /\ \A k \in 0 .. (n - 1) : loop[k + 1] = ParseTurn(ts, loop[k], delimiters, of)
  BY ElementsLoop
<1>2. n \in Nat /\ 0 \in Int /\ n \in Int
  BY DEF Ends, MaxTurns
<1> DEFINE Q == {k \in 0 .. n : Follows(ts, p, loop[k])}
<1> HIDE DEF n
<1>3. 0 \in Q
  <2>1. Follows(ts, p, [p EXCEPT !.node = <<>>])
    BY FineFollows, NodeFollows
  <2> QED
    BY <1>1, <1>2, <2>1
<1>4. ASSUME NEW k \in 0 .. (n - 1), k \in Q PROVE k + 1 \in Q
  <2>1. Follows(ts, p, loop[k])
    BY <1>4
  <2>2. Follows(ts, loop[k], ParseTurn(ts, loop[k], delimiters, of))
    BY <2>1, ParseTurnFollows DEF Follows
  <2>3. Follows(ts, p, loop[k + 1])
    BY <1>1, <2>1, <2>2, FollowsOn
  <2> QED
    BY <1>2, <2>3
<1>5. n \in Q
  <2> HIDE DEF Q
  <2> QED
    BY <1>2, <1>3, <1>4, Upwards
<1>6. Follows(ts, p, loop[n])
  BY <1>5
<1> QED
  BY <1>1, <1>6, ReturnedFollows DEF ParseList

------------------------------------------------------------------------------
(***************************************************************************)
(* The bounds stop nothing: the recursion of parseExpression never gets as *)
(* deep as the calls may be nested, and its loop and those of the lists    *)
(* have ended when they have had all their turns.                          *)
(***************************************************************************)

\* f and g are the same for the calls behind cursor c.
Agree(ts, f, g, c) ==
  \A call \in Calls(ts) : c < call.cur /\ call.cur < Len(ts) => f[call] = g[call]

LEMMA CalledAgrees ==
  ASSUME NEW ts, Ends(ts), NEW f, NEW g, NEW c \in Nat, Agree(ts, f, g, c),
         NEW p, Fine(ts, p), c < p.cur,
         NEW delimiters \in SUBSET Delimiters, NEW minBp \in 0 .. 5
  PROVE  Called(f, p, delimiters, minBp) = Called(g, p, delimiters, minBp)
<1> PICK call : call = [cur |-> p.cur, delimiters |-> delimiters, minBp |-> minBp]
  OBVIOUS
<1>1. p.cur \in 0 .. Len(ts) /\ p.cur < Len(ts)
  BY DEF Fine, Ends
<1>2. call \in Calls(ts) /\ call.cur = p.cur
  BY <1>1 DEF Calls
<1>3. f[call] = g[call]
  BY <1>1, <1>2 DEF Agree
<1> QED
  BY <1>3 DEF Called

LEMMA OperatorAgrees ==
  ASSUME NEW ts, Ends(ts), NEW f, NEW g, NEW c \in Nat, Agree(ts, f, g, c),
         NEW call \in Calls(ts), NEW p, Fine(ts, p), c <= p.cur
  PROVE  ParseOperator(ts, f, call, p) = ParseOperator(ts, g, call, p)
<1> PICK op, operand : op = ts[p.cur + 1] /\ operand = [p EXCEPT !.cur = @ + 1]
  OBVIOUS
<1>1. CASE p.ok /\ op \in BinOps
  <2>1. ts[p.cur + 1] # Semicolon
    BY <1>1, NoSemicolon
  <2>2. p.cur + 1 \in 0 .. (Len(ts) - 1) /\ c < p.cur + 1
    BY <2>1 DEF Fine, Ends
  <2>3. /\ DOMAIN operand = DOMAIN p /\ operand.ok = p.ok /\ operand.near = p.near
        /\ operand.cur = p.cur + 1
    BY DEF Fine
  <2>4. Fine(ts, operand) /\ c < operand.cur
    BY <2>2, <2>3 DEF Fine
  <2>5. Called(f, operand, call.delimiters, BindingPower(op))
          = Called(g, operand, call.delimiters, BindingPower(op))
    <3>1. call.delimiters \in SUBSET Delimiters /\ BindingPower(op) \in 0 .. 5
      BY BindingPowerRange DEF Calls
    <3> PICK ds, bp : ds = call.delimiters /\ bp = BindingPower(op)
      OBVIOUS
    <3>2. ds \in SUBSET Delimiters /\ bp \in 0 .. 5
      BY <3>1
    <3>3. Called(f, operand, ds, bp) = Called(g, operand, ds, bp)
      BY ONLY Ends(ts), Agree(ts, f, g, c), c \in Nat, <2>4, <3>2, CalledAgrees
    <3> QED
      BY <3>3, Zenon
  <2> QED
    BY <2>5, Zenon DEF ParseOperator
<1>2. CASE ~p.ok
  BY <1>2 DEF ParseOperator
<1>3. CASE p.ok /\ op \notin BinOps
  <2>1. ASSUME NEW h
        PROVE  ParseOperator(ts, h, call, p) =
                 IF p.cur >= Len(ts) THEN p
                 ELSE IF op \in call.delimiters THEN p
                 ELSE HelpMessage([p EXCEPT !.ok = FALSE])
    BY <1>3, Zenon DEF ParseOperator
  <2> QED
    BY <2>1
<1> QED
  BY <1>1, <1>2, <1>3

LEMMA OperatorsAgree ==
  ASSUME NEW ts, Ends(ts), NEW f, Sound(ts, f), NEW g, NEW c \in Nat, Agree(ts, f, g, c),
         NEW call \in Calls(ts), NEW first, Fine(ts, first), c <= first.cur
  PROVE  ParseOperators(ts, f, call, first) = ParseOperators(ts, g, call, first)
<1> PICK n : n = MaxTurns(ts)
  OBVIOUS
<1>1. PICK a : /\ ParseOperators(ts, f, call, first) = a[n] /\ a[0] = first
               /\ \A k \in 0 .. (n - 1) : a[k + 1] = ParseOperator(ts, f, call, a[k])
  BY OperatorsLoop
<1>2. PICK b : /\ ParseOperators(ts, g, call, first) = b[n] /\ b[0] = first
               /\ \A k \in 0 .. (n - 1) : b[k + 1] = ParseOperator(ts, g, call, b[k])
  BY OperatorsLoop
<1>3. n \in Nat /\ 0 \in Int /\ n \in Int
  BY DEF Ends, MaxTurns
<1> DEFINE Q == {k \in 0 .. n : a[k] = b[k] /\ Follows(ts, first, a[k])}
<1>4. 0 \in Q
  BY <1>1, <1>2, <1>3, FineFollows
<1>5. ASSUME NEW k \in 0 .. (n - 1), k \in Q PROVE k + 1 \in Q
  <2> PICK p : p = a[k]
    OBVIOUS
  <2>1. p = b[k] /\ Follows(ts, first, p)
    BY <1>5
  <2>2. Fine(ts, p) /\ c <= p.cur
    BY <2>1 DEF Follows, Fine, Passes
  <2>3. ParseOperator(ts, f, call, p) = ParseOperator(ts, g, call, p)
    BY <2>2, OperatorAgrees
  <2>4. Follows(ts, p, ParseOperator(ts, f, call, p))
    BY <2>2, ParseOperatorFollows
  <2>5. Follows(ts, first, ParseOperator(ts, f, call, p))
    BY ONLY Fine(ts, first), <2>1, <2>4, FollowsOn
  <2>6. a[k + 1] = ParseOperator(ts, f, call, p) /\ b[k + 1] = ParseOperator(ts, g, call, p)
    BY <1>1, <1>2, <2>1
  <2>7. k + 1 \in 0 .. n
    BY <1>3
  <2> QED
    BY <2>3, <2>5, <2>6, <2>7
<1>6. \A k \in 0 .. n : k \in Q
  <2> HIDE DEF Q
  <2>1. \A k \in 0 .. (n - 1) : k \in Q => k + 1 \in Q
    BY ONLY <1>5
  <2> QED
    BY ONLY <1>3, <1>4, <2>1, Upwards
<1>7. a[n] = b[n]
  BY <1>3, <1>6
<1> QED
  BY <1>1, <1>2, <1>7, Zenon

LEMMA OperandAgrees ==
  ASSUME NEW ts, Ends(ts), NEW f, NEW g, NEW call \in Calls(ts), call.cur < Len(ts),
         Agree(ts, f, g, call.cur)
  PROVE  ParseOperand(ts, f, call) = ParseOperand(ts, g, call)
<1> PICK p, paren, stops :
      /\ p = At(call.cur) /\ paren = ParseToken(ts, p, LeftParen)
      /\ stops = call.delimiters \cup {RightParen}
  OBVIOUS
<1>1. /\ call.cur \in 0 .. (Len(ts) - 1) /\ call.cur \in Nat
      /\ call.delimiters \in SUBSET Delimiters /\ call.minBp \in 0 .. 5
  BY DEF Calls, Ends
<1>2. Fine(ts, p) /\ p.cur = call.cur
  BY <1>1, AtFine
<1>3. LeftParen # Semicolon
  BY NoSemicolon
<1>4. Follows(ts, p, paren) /\ (paren.ok => paren.cur = p.cur + 1)
  BY ONLY Ends(ts), <1>2, <1>3, ParseTokenFollows, paren = ParseToken(ts, p, LeftParen)
<1>5. stops \in SUBSET Delimiters
  BY <1>1 DEF Delimiters
<1>6. CASE paren.ok
  <2>1. Fine(ts, paren) /\ call.cur < paren.cur
    BY <1>1, <1>2, <1>4, <1>6 DEF Follows
  <2>2. Called(f, paren, stops, call.minBp) = Called(g, paren, stops, call.minBp)
    BY <1>1, <1>5, <2>1, CalledAgrees
  <2> QED
    BY <2>2, Zenon DEF ParseOperand
<1>7. CASE ~paren.ok
  BY <1>7 DEF ParseOperand
<1> QED
  BY <1>6, <1>7

\* A call is answered as soon as those behind its cursor are.
LEMMA CallAgrees ==
  ASSUME NEW ts, Ends(ts), NEW f, Sound(ts, f), NEW g, NEW call \in Calls(ts),
         call.cur < Len(ts), Agree(ts, f, g, call.cur)
  PROVE  ParseCall(ts, f, call) = ParseCall(ts, g, call)
<1> PICK first : first = ParseOperand(ts, f, call)
  OBVIOUS
<1>1. first = ParseOperand(ts, g, call)
  BY OperandAgrees
<1>2. call.cur \in Nat /\ call.cur \in 0 .. (Len(ts) - 1)
  BY DEF Calls, Ends
<1>3. Follows(ts, At(call.cur), first) /\ At(call.cur).cur = call.cur
  BY <1>2, AtFine, ParseOperandFollows
<1>4. Fine(ts, first) /\ call.cur <= first.cur
  BY <1>3 DEF Follows, Passes
<1>5. ParseOperators(ts, f, call, first) = ParseOperators(ts, g, call, first)
  BY <1>2, <1>4, OperatorsAgree
<1> QED
  BY <1>1, <1>5, Zenon DEF ParseCall

(***************************************************************************)
(* parseExpression is the recursion that ParseCall spells out: what the    *)
(* calls return is what each makes of what the others return.              *)
(***************************************************************************)
THEOREM RecursionUnbounded ==
  ASSUME NEW ts, Ends(ts), NEW call \in Calls(ts), call.cur < Len(ts)
  PROVE  Returns(ts)[call] = ParseCall(ts, Returns(ts), call)
<1> PICK n : n = Len(ts)
  OBVIOUS
<1>1. PICK nested : /\ Returns(ts) = nested[n] /\ nested[0] = TooDeep(ts)
                    /\ \A k \in 0 .. (n - 1) : nested[k + 1] = Deeper(ts, nested[k])
  BY NestedCalls
<1>2. n \in Nat \ {0} /\ n \in Int /\ 0 \in Int /\ n - 1 \in 0 .. (n - 1) /\ (n - 1) + 1 = n
  BY DEF Ends
<1>3. \A h : \A d \in Calls(ts) : Deeper(ts, h)[d] = ParseCall(ts, h, d)
  BY DEF Deeper
<1> DEFINE Q == {k \in 0 .. (n - 1) : /\ Sound(ts, nested[k])
                                      /\ Agree(ts, nested[k], nested[k + 1], n - 1 - k)}
<1>4. 0 \in Q
  <2>1. Sound(ts, nested[0])
    BY <1>1, TooDeepSound
  <2>2. Agree(ts, nested[0], nested[0 + 1], n - 1 - 0)
    BY <1>2 DEF Agree, Calls
  <2> QED
    BY <1>2, <2>1, <2>2
<1>5. ASSUME NEW k \in 0 .. (n - 2), k \in Q PROVE k + 1 \in Q
  <2> PICK f, g, h : f = nested[k] /\ g = nested[k + 1] /\ h = nested[(k + 1) + 1]
    OBVIOUS
  <2>1. k \in 0 .. (n - 1) /\ k + 1 \in 0 .. (n - 1)
    BY <1>2
  <2>2. g = Deeper(ts, f) /\ h = Deeper(ts, g)
    BY <1>1, <2>1, Zenon
  <2>3. Sound(ts, f) /\ Agree(ts, f, g, n - 1 - k)
    BY <1>5
  <2>4. Sound(ts, g)
    BY <2>2, <2>3, DeeperSound
  <2>5. ASSUME NEW d \in Calls(ts), n - 1 - (k + 1) < d.cur, d.cur < Len(ts) PROVE g[d] = h[d]
    <3>1. d.cur \in Nat /\ n - 1 - k <= d.cur
      BY <2>5 DEF Calls
    <3>2. Agree(ts, f, g, d.cur)
      BY <1>2, <2>3, <3>1 DEF Agree, Calls
    <3>3. ParseCall(ts, f, d) = ParseCall(ts, g, d)
      BY <2>3, <2>5, <3>2, CallAgrees
    <3>4. g[d] = ParseCall(ts, f, d) /\ h[d] = ParseCall(ts, g, d)
      BY <1>3, <2>2
    <3> QED
      BY <3>3, <3>4
  <2>6. Agree(ts, g, h, n - 1 - (k + 1))
    BY <2>5 DEF Agree
  <2> QED
    BY <2>1, <2>4, <2>6
<1>6. n - 1 \in Q
  <2> HIDE DEF Q
  <2>1. (n - 1) - 1 = n - 2 /\ n - 1 \in Int /\ n - 1 \in 0 .. (n - 1)
    BY <1>2
  <2>2. \A k \in 0 .. ((n - 1) - 1) : k \in Q => k + 1 \in Q
    BY ONLY <1>5, <2>1
  <2>3. \A k \in 0 .. (n - 1) : k \in Q
    BY ONLY <1>2, <1>4, <2>1, <2>2, Upwards
  <2> QED
    BY <2>1, <2>3
<1> PICK f, g : f = nested[n - 1] /\ g = nested[n]
  OBVIOUS
<1>7. Sound(ts, f) /\ Agree(ts, f, g, 0) /\ g = Deeper(ts, f)
  <2>1. Sound(ts, f) /\ Agree(ts, f, nested[(n - 1) + 1], n - 1 - (n - 1))
    BY <1>6
  <2>2. nested[(n - 1) + 1] = g /\ n - 1 - (n - 1) = 0
    BY <1>2
  <2>3. g = Deeper(ts, f)
    BY <1>1, <1>2, <2>2
  <2> QED
    BY <2>1, <2>2, <2>3
<1>8. Agree(ts, f, g, call.cur)
  BY <1>7 DEF Agree, Calls
<1>9. ParseCall(ts, f, call) = ParseCall(ts, g, call)
  BY <1>7, <1>8, CallAgrees
<1>10. g[call] = ParseCall(ts, f, call)
  BY <1>3, <1>7
<1> QED
  BY <1>1, <1>9, <1>10, Zenon

(***************************************************************************)
(* The loops have ended when they have had their turns: each turn but the  *)
(* last has taken a token.                                                 *)
(***************************************************************************)
LEMMA ParseOperatorTakes ==
  ASSUME NEW ts, Ends(ts), NEW nested, Sound(ts, nested), NEW call \in Calls(ts),
         NEW p, Fine(ts, p)
  PROVE  LET r == ParseOperator(ts, nested, call, p)
         IN  r = p \/ ~r.ok \/ p.cur < r.cur
<1> PICK op, operand, b :
      /\ op = ts[p.cur + 1] /\ operand = [p EXCEPT !.cur = @ + 1]
      /\ b = Wanted(p, Called(nested, operand, call.delimiters, BindingPower(op)))
  OBVIOUS
<1> PICK r : r = ParseOperator(ts, nested, call, p)
  OBVIOUS
<1>1. \/ r = p
      \/ r = HelpMessage([p EXCEPT !.ok = FALSE])
      \/ ~b.ok /\ r = b
      \/ p.ok /\ op \in BinOps /\ r = [b EXCEPT !.node = Binary(p.node, @, op)]
  BY Zenon DEF ParseOperator
<1>2. CASE r = HelpMessage([p EXCEPT !.ok = FALSE])
  <2>1. Follows(ts, p, [p EXCEPT !.ok = FALSE]) /\ ~[p EXCEPT !.ok = FALSE].ok
    BY FineFollows, FailureFollows
  <2> QED
    BY <1>2, <2>1, HelpMessageFollows
<1>3. CASE p.ok /\ op \in BinOps /\ r = [b EXCEPT !.node = Binary(p.node, @, op)]
  <2>1. ts[p.cur + 1] # Semicolon
    BY <1>3, NoSemicolon
  <2>2. p.cur + 1 \in 0 .. (Len(ts) - 1)
    BY <2>1 DEF Fine, Ends
  <2>3. /\ DOMAIN operand = DOMAIN p /\ operand.ok = p.ok /\ operand.near = p.near
        /\ operand.cur = p.cur + 1
    BY DEF Fine
  <2>4. Fine(ts, operand)
    BY <2>2, <2>3 DEF Fine
  <2>5. Follows(ts, operand, b)
    <3>1. call.delimiters \in SUBSET Delimiters /\ BindingPower(op) \in 0 .. 5
      BY BindingPowerRange DEF Calls
    <3>2. Follows(ts, operand, Called(nested, operand, call.delimiters, BindingPower(op)))
      BY <2>4, <3>1, CalledFollows
    <3> QED
      BY <3>2, WantedFollows
  <2>6. r.cur = b.cur
    BY <1>3, <2>5 DEF Follows, Fine
  <2> QED
    BY <2>2, <2>3, <2>5, <2>6 DEF Follows, Fine, Passes
<1> QED
  BY <1>1, <1>2, <1>3

LEMMA OperatorsEnd ==
  ASSUME NEW ts, Ends(ts), NEW nested, Sound(ts, nested), NEW call \in Calls(ts),
         NEW first, Fine(ts, first)
  PROVE  LET last == ParseOperators(ts, nested, call, first)
         IN  ParseOperator(ts, nested, call, last) = last
<1> PICK n : n = MaxTurns(ts)
  OBVIOUS
<1>1. PICK loop : /\ ParseOperators(ts, nested, call, first) = loop[n] /\ loop[0] = first
                  /\ \A k \in 0 .. (n - 1) : loop[k + 1] = ParseOperator(ts, nested, call, loop[k])
  BY OperatorsLoop
<1>2. n \in Nat /\ 0 \in Int /\ n \in Int /\ n = Len(ts) + 1
  BY DEF Ends, MaxTurns
<1> DEFINE AtRest(p) == ParseOperator(ts, nested, call, p) = p
           Q == {k \in 0 .. n : /\ Follows(ts, first, loop[k])
                                /\ AtRest(loop[k]) \/ first.cur + k <= loop[k].cur}
<1>3. 0 \in Q
  <2>1. first.cur + 0 <= first.cur
    BY DEF Fine
  <2> HIDE DEF AtRest
  <2> QED
    BY <1>1, <1>2, <2>1, FineFollows
<1>4. ASSUME NEW k \in 0 .. (n - 1), k \in Q PROVE k + 1 \in Q
  <2> PICK p, r : p = loop[k] /\ r = ParseOperator(ts, nested, call, p)
    OBVIOUS
  <2>1. Follows(ts, first, p) /\ (r = p \/ first.cur + k <= p.cur)
    BY <1>4
  <2>2. Follows(ts, p, r) /\ (r = p \/ ~r.ok \/ p.cur < r.cur)
    BY <2>1, ParseOperatorFollows, ParseOperatorTakes DEF Follows
  <2>3. Follows(ts, first, r)
    BY ONLY Fine(ts, first), <2>1, <2>2, FollowsOn
  <2>4. r = p => AtRest(r)
    OBVIOUS
  <2>5. ~r.ok => AtRest(r)
    BY Zenon DEF ParseOperator
  <2>6. r # p /\ r.ok => first.cur + (k + 1) <= r.cur
    BY <2>1, <2>2 DEF Follows, Fine
  <2>7. k + 1 \in 0 .. n /\ loop[k + 1] = r
    BY <1>1, <1>2
  <2> HIDE DEF AtRest
  <2> QED
    BY <2>3, <2>4, <2>5, <2>6, <2>7, Zenon
<1>5. \A k \in 0 .. n : k \in Q
  <2> HIDE DEF Q
  <2>1. \A k \in 0 .. (n - 1) : k \in Q => k + 1 \in Q
    BY ONLY <1>4
  <2> QED
    BY ONLY <1>2, <1>3, <2>1, Upwards
<1>6. Follows(ts, first, loop[n]) /\ (AtRest(loop[n]) \/ first.cur + n <= loop[n].cur)
  <2> HIDE DEF AtRest
  <2> QED
    BY <1>2, <1>5
<1>7. ~(first.cur + n <= loop[n].cur)
  BY <1>2, <1>6 DEF Follows, Fine, Ends
<1> QED
  BY <1>1, <1>6, <1>7

LEMMA TakenOn ==
  ASSUME NEW ts, NEW p, NEW q, NEW r, Fine(ts, p), Follows(ts, p, q), q.ok => p.cur < q.cur,
         Follows(ts, q, r)
  PROVE  r.ok => p.cur < r.cur
<1>1. p.cur \in Nat /\ q.cur \in Nat /\ r.cur \in Nat
  BY DEF Fine, Follows
<1>2. q.cur <= r.cur /\ (r.ok => q.ok)
  BY DEF Follows, Passes
<1> QED
  BY ONLY <1>1, <1>2, q.ok => p.cur < q.cur

LEMMA ParseElementTakes ==
  ASSUME NEW ts, Ends(ts), NEW p, Fine(ts, p), NEW delimiters \in SUBSET Delimiters,
         NEW of \in Elements
  PROVE  LET r == ParseElement(ts, p, delimiters, of)
         IN  r.ok => p.cur < r.cur
<1>0. p.cur \in Nat
  BY DEF Fine
<1> PICK r : r = ParseElement(ts, p, delimiters, of)
  OBVIOUS
<1>1. CASE of = "select items"
  <2> PICK star, stops : /\ star = ParseToken(ts, p, Symbol("*"))
                         /\ stops = delimiters \cup {Comma, Keyword("as")}
    OBVIOUS
  <2> PICK exp : exp = Wanted(p, ParseExpression(ts, p, stops, 0))
    OBVIOUS
  <2>1. Follows(ts, p, star) /\ (star.ok => star.cur = p.cur + 1)
    <3> PICK asterisk : asterisk = Symbol("*")
      OBVIOUS
    <3>1. asterisk # Semicolon
      BY NoSemicolon
    <3>2. star = ParseToken(ts, p, asterisk)
      OBVIOUS
    <3> QED
      BY ONLY Ends(ts), Fine(ts, p), <3>1, <3>2, ParseTokenFollows
  <2>2. Follows(ts, p, exp) /\ (exp.ok => p.cur < exp.cur)
    <3>1. stops \in SUBSET Delimiters /\ 0 \in 0 .. 5
      BY DEF Delimiters
    <3>2. /\ Follows(ts, p, ParseExpression(ts, p, stops, 0))
          /\ ParseExpression(ts, p, stops, 0).ok => p.cur < ParseExpression(ts, p, stops, 0).cur
      BY <3>1, ParseExpressionFollows
    <3> QED
      BY <3>2, WantedFollows
  <2>3. Follows(ts, exp, ParseAs(ts, exp))
    BY <2>2, ParseAsFollows DEF Follows
  <2>4. r = ParseSelectItem(ts, p, delimiters)
    BY <1>1 DEF ParseElement
  <2>5. \/ star.ok /\ r = [star EXCEPT !.node = Asterisk]
        \/ r = ParseAs(ts, exp)
    BY <2>4, Zenon DEF ParseSelectItem
  <2>6. CASE star.ok /\ r = [star EXCEPT !.node = Asterisk]
    BY <2>1, <2>6 DEF Follows, Fine
  <2>7. CASE r = ParseAs(ts, exp)
    BY ONLY Fine(ts, p), r = ParseElement(ts, p, delimiters, of), <2>2, <2>3, <2>7, TakenOn
  <2> QED
    BY <2>5, <2>6, <2>7
<1>2. CASE of = "columns"
  <2> PICK id, type, pkey : /\ id = ExpectKind(ts, p, "identifier")
                            /\ type = ExpectKind(ts, id, "keyword")
                            /\ pkey = Optional(ts, type, Keyword("primary key"))
    OBVIOUS
  <2>1. Follows(ts, p, id) /\ (id.ok => p.cur < id.cur)
    <3> PICK word : word = ParseTokenKind(ts, p, "identifier")
      OBVIOUS
    <3>1. Follows(ts, p, word) /\ (word.ok => word.cur = p.cur + 1)
      <4>1. "identifier" # "symbol"
        OBVIOUS
      <4> QED
        BY ONLY Ends(ts), Fine(ts, p), word = ParseTokenKind(ts, p, "identifier"), <4>1,
                ParseTokenKindFollows
    <3>2. Wanted(p, word).ok = word.ok /\ Wanted(p, word).cur = word.cur
      BY ONLY <3>1, WantedFollows
    <3>3. id = Wanted(p, word)
      BY Zenon DEF ExpectKind
    <3>4. Follows(ts, p, id)
      BY ExpectKindFollows
    <3>5. id.ok => p.cur < id.cur
      BY ONLY <1>0, <3>1, <3>2, <3>3
    <3> QED
      BY ONLY <3>4, <3>5
  <2>2. Follows(ts, id, type)
    BY <2>1, ExpectKindFollows DEF Follows
  <2>3. Follows(ts, type, pkey)
    BY <2>2, OptionalFollows, NoSemicolon DEF Follows
  <2>4. Follows(ts, id, pkey)
    BY ONLY <2>1, <2>2, <2>3, FollowsOn DEF Follows
  <2>5. r = ParseColumnDefinition(ts, p)
    BY <1>2 DEF ParseElement
  <2>6. \E node : r = [pkey EXCEPT !.node = node]
    BY <2>5 DEF ParseColumnDefinition
  <2>7. r.ok = pkey.ok /\ r.cur = pkey.cur
    BY ONLY <2>4, <2>6 DEF Follows, Fine
  <2>8. pkey.ok => p.cur < pkey.cur
    BY ONLY Fine(ts, p), <2>1, <2>4, TakenOn
  <2> QED
    BY ONLY <2>7, <2>8, r = ParseElement(ts, p, delimiters, of)
<1>3. CASE of = "expressions"
  <2> PICK stops : stops = {Comma, RightParen}
    OBVIOUS
  <2>1. stops \in SUBSET Delimiters /\ 0 \in 0 .. 5
    BY DEF Delimiters
  <2> PICK exp : exp = ParseExpression(ts, p, stops, 0)
    OBVIOUS
  <2>2. Follows(ts, p, exp) /\ (exp.ok => p.cur < exp.cur)
    BY <2>1, ParseExpressionFollows
  <2>3. Wanted(p, exp).ok = exp.ok /\ Wanted(p, exp).cur = exp.cur
    BY <2>2, WantedFollows
  <2>4. r = Wanted(p, exp)
    BY <1>3, stops = {Comma, RightParen} DEF ParseElement
  <2> QED
    BY <2>2, <2>3, <2>4
<1> QED
  BY <1>1, <1>2, <1>3 DEF Elements

LEMMA ParseTurnTakes ==
  ASSUME NEW ts, Ends(ts), NEW p, Fine(ts, p), NEW delimiters \in SUBSET Delimiters,
         NEW of \in Elements
  PROVE  LET r == ParseTurn(ts, p, delimiters, of)
         IN  r = p \/ ~r.ok \/ p.cur < r.cur
<1> PICK comma : comma = IF p.node = <<>> THEN p ELSE Expect(ts, p, Comma)
  OBVIOUS
<1> PICK element, r : /\ element = ParseElement(ts, comma, delimiters, of)
                      /\ r = ParseTurn(ts, p, delimiters, of)
  OBVIOUS
<1>1. Follows(ts, p, comma)
  BY FineFollows, ExpectFollows, NoSemicolon
<1>2. Follows(ts, comma, element) /\ (element.ok => comma.cur < element.cur)
  BY <1>1, ParseElementFollows, ParseElementTakes DEF Follows
<1>3. \/ r = [p EXCEPT !.ok = FALSE]
      \/ r = p
      \/ \E node : r = [element EXCEPT !.node = node]
  BY DEF ParseTurn, Collected
<1>4. CASE r = [p EXCEPT !.ok = FALSE]
  BY <1>4 DEF Fine
<1>5. CASE \E node : r = [element EXCEPT !.node = node]
  <2>1. r.ok = element.ok /\ r.cur = element.cur
    BY <1>2, <1>5 DEF Follows, Fine
  <2> QED
    BY <1>1, <1>2, <2>1 DEF Follows, Fine, Passes
<1> QED
  BY <1>3, <1>4, <1>5

LEMMA ElementsEnd ==
  ASSUME NEW ts, Ends(ts), NEW p, Fine(ts, p), NEW delimiters \in SUBSET Delimiters,
         NEW of \in Elements
  PROVE  LET last == ParseElements(ts, p, delimiters, of)
         IN  last.ok => ParseTurn(ts, last, delimiters, of) = last
<1> PICK n, first : n = MaxTurns(ts) /\ first = [p EXCEPT !.node = <<>>]
  OBVIOUS
<1>1. PICK loop : /\ ParseElements(ts, p, delimiters, of) = loop[n] /\ loop[0] = first
                  /\ \A k \in 0 .. (n - 1) : loop[k + 1] = ParseTurn(ts, loop[k], delimiters, of)
  BY ElementsLoop
<1>2. n \in Nat /\ 0 \in Int /\ n \in Int /\ n = Len(ts) + 1
  BY DEF Ends, MaxTurns
<1>3. Fine(ts, first)
  BY FineFollows, NodeFollows DEF Follows
<1> DEFINE Ended(q) == ~q.ok \/ ParseTurn(ts, q, delimiters, of) = q
           Q == {k \in 0 .. n : /\ Follows(ts, first, loop[k])
                                /\ Ended(loop[k]) \/ first.cur + k <= loop[k].cur}
<1>4. 0 \in Q
  <2>1. first.cur + 0 <= first.cur
    BY <1>3 DEF Fine
  <2>2. Follows(ts, first, first) /\ 0 \in 0 .. n
    BY <1>2, <1>3, FineFollows
  <2> HIDE DEF Ended
  <2> QED
    BY <1>1, <2>1, <2>2
<1>5. ASSUME NEW k \in 0 .. (n - 1), k \in Q PROVE k + 1 \in Q
  <2> PICK q, r : q = loop[k] /\ r = ParseTurn(ts, q, delimiters, of)
    OBVIOUS
  <2>1. Follows(ts, first, q) /\ (~q.ok \/ r = q \/ first.cur + k <= q.cur)
    BY <1>5
  <2>2. Follows(ts, q, r) /\ (r = q \/ ~r.ok \/ q.cur < r.cur)
    BY <2>1, ParseTurnFollows, ParseTurnTakes DEF Follows
  <2>3. Follows(ts, first, r)
    BY ONLY <1>3, <2>1, <2>2, FollowsOn
  <2>4. (r = q => Ended(r)) /\ (~r.ok => Ended(r))
    OBVIOUS
  <2>5. r # q /\ r.ok => first.cur + (k + 1) <= r.cur
    BY <1>3, <2>1, <2>2 DEF Follows, Fine
  <2>6. k + 1 \in 0 .. n /\ loop[k + 1] = r
    BY <1>1, <1>2
  <2> HIDE DEF Ended
  <2> QED
    BY <2>3, <2>4, <2>5, <2>6, Zenon
<1>6. \A k \in 0 .. n : k \in Q
  <2> HIDE DEF Q
  <2>1. \A k \in 0 .. (n - 1) : k \in Q => k + 1 \in Q
    BY ONLY <1>5
  <2> QED
    BY ONLY <1>2, <1>4, <2>1, Upwards
<1>7. Follows(ts, first, loop[n]) /\ (Ended(loop[n]) \/ first.cur + n <= loop[n].cur)
  <2> HIDE DEF Ended
  <2> QED
    BY <1>2, <1>6
<1>8. ~(first.cur + n <= loop[n].cur)
  BY <1>2, <1>3, <1>7 DEF Follows, Fine, Ends
<1> QED
  BY <1>1, <1>7, <1>8

\* After MaxTurns turns the loop of parseExpression and those of the lists
\* have ended: another turn would leave what they return, or they failed.
THEOREM LoopsEnd ==
  ASSUME NEW ts, Ends(ts)
  PROVE  /\ \A call \in Calls(ts) : call.cur < Len(ts) =>
              LET last == ParseOperators(ts, Returns(ts), call, ParseOperand(ts, Returns(ts), call))
              IN  ParseOperator(ts, Returns(ts), call, last) = last
         /\ \A p : \A delimiters \in SUBSET Delimiters, of \in Elements : Fine(ts, p) =>
              LET last == ParseElements(ts, p, delimiters, of)
              IN  last.ok => ParseTurn(ts, last, delimiters, of) = last
<1>1. ASSUME NEW call \in Calls(ts), call.cur < Len(ts)
      PROVE  LET last == ParseOperators(ts, Returns(ts), call, ParseOperand(ts, Returns(ts), call))
             IN  ParseOperator(ts, Returns(ts), call, last) = last
  <2> PICK nested : nested = Returns(ts)
    OBVIOUS
  <2>1. Sound(ts, nested)
    BY ReturnsSound
  <2> PICK first : first = ParseOperand(ts, nested, call)
    OBVIOUS
  <2>2. Fine(ts, At(call.cur)) /\ At(call.cur).cur = call.cur
    <3>1. call.cur \in 0 .. (Len(ts) - 1)
      BY <1>1 DEF Calls, Ends
    <3> QED
      BY <3>1, AtFine
  <2>3. Follows(ts, At(call.cur), first)
    BY <1>1, <2>1, <2>2, ParseOperandFollows
  <2>4. Fine(ts, first)
    BY <2>3 DEF Follows
  <2>5. ParseOperator(ts, nested, call, ParseOperators(ts, nested, call, first))
          = ParseOperators(ts, nested, call, first)
    BY <2>1, <2>4, OperatorsEnd
  <2> QED
    BY <2>5, Zenon
<1> QED
  BY ONLY <1>1, Ends(ts), ElementsEnd

------------------------------------------------------------------------------
(***************************************************************************)
(* Statements.                                                             *)
(***************************************************************************)

\* What the parts of the statements are: none asks for a semicolon.
Whats == {"word", "must", "name", "flag", "from", "list", "expression", "clause"}

GoodPart(part) ==
  /\ part.what \in Whats
  /\ part.what \in {"word", "must", "flag", "from", "clause"} => part.token # Semicolon
  /\ part.what = "list" => part.of \in Elements
  /\ part.delimiters \in SUBSET Delimiters

\* A statement begins with a word.
GoodForm(form) ==
  /\ Len(form.parts) \in Nat \ {0} /\ form.parts[1].what = "word"
  /\ \A i \in 1 .. Len(form.parts) : GoodPart(form.parts[i])

LEMMA IfFoundFollows ==
  ASSUME NEW ts, NEW p, Fine(ts, p), NEW word, NEW found, Follows(ts, p, found)
  PROVE  Follows(ts, p, IfFound(p, word, found))
<1>1. Follows(ts, p, [p EXCEPT !.node = nil])
  BY FineFollows, NodeFollows
<1> QED
  BY <1>1 DEF IfFound

\* A part that is asked for first takes its word.
LEMMA ParsePartFollows ==
  ASSUME NEW ts, Ends(ts), NEW p, Fine(ts, p), NEW part, GoodPart(part)
  PROVE  LET r == ParsePart(ts, p, part)
         IN  Follows(ts, p, r) /\ (part.what = "word" /\ r.ok => r.cur = p.cur + 1)
<1> PICK word, name : /\ word = ParseToken(ts, p, part.token)
                      /\ name = ExpectKind(ts, word, "identifier")
  OBVIOUS
<1> PICK r : r = ParsePart(ts, p, part)
  OBVIOUS
<1> SUFFICES Follows(ts, p, r) /\ (part.what = "word" /\ r.ok => r.cur = p.cur + 1)
  OBVIOUS
<1>1. part.token # Semicolon => Follows(ts, p, word) /\ (word.ok => word.cur = p.cur + 1)
  BY ParseTokenFollows
<1>2. part.delimiters \in SUBSET Delimiters /\ 0 \in 0 .. 5
  BY DEF GoodPart
<1>3. CASE part.what = "word"
  <2>1. r = word
    BY <1>3 DEF ParsePart
  <2> QED
    BY <1>1, <1>3, <2>1 DEF GoodPart
<1>4. CASE part.what = "must"
  <2>1. r = Wanted(p, word)
    BY <1>4 DEF ParsePart
  <2> QED
    BY <1>1, <1>4, <2>1, WantedFollows DEF GoodPart
<1>5. CASE part.what = "name"
  <2>1. r = ExpectKind(ts, p, "identifier")
    BY <1>5 DEF ParsePart
  <2> QED
    BY <1>5, <2>1, ExpectKindFollows
<1>6. CASE part.what = "flag"
  <2>1. r = Optional(ts, p, part.token)
    BY <1>6 DEF ParsePart
  <2> QED
    BY <1>6, <2>1, OptionalFollows DEF GoodPart
<1>7. CASE part.what = "from"
  <2>1. r = IfFound(p, word, name)
    BY <1>7 DEF ParsePart
  <2>2. Follows(ts, p, word)
    BY <1>1, <1>7 DEF GoodPart
  <2>3. Follows(ts, word, name)
    BY <2>2, ExpectKindFollows DEF Follows
  <2>4. Follows(ts, p, name)
    BY ONLY Fine(ts, p), <2>2, <2>3, FollowsOn
  <2> QED
    BY <1>7, <2>1, <2>4, IfFoundFollows
<1>8. CASE part.what = "list"
  <2> PICK list : list = ParseList(ts, p, part.delimiters, part.of)
    OBVIOUS
  <2>1. r \in {list, Wanted(p, list)}
    BY <1>8 DEF ParsePart
  <2>2. Follows(ts, p, list)
    BY <1>2, <1>8, ParseListFollows DEF GoodPart
  <2> QED
    BY <1>8, <2>1, <2>2, WantedFollows
<1>9. CASE part.what = "expression"
  <2> PICK exp : exp = ParseExpression(ts, p, part.delimiters, 0)
    OBVIOUS
  <2>1. r = Wanted(p, exp)
    BY <1>9 DEF ParsePart
  <2>2. Follows(ts, p, exp)
    BY <1>2, ParseExpressionFollows
  <2> QED
    BY <1>9, <2>1, <2>2, WantedFollows
<1>10. CASE part.what = "clause"
  <2> PICK exp : exp = ParseExpression(ts, word, part.delimiters, 0)
    OBVIOUS
  <2>1. r = IfFound(p, word, Wanted(word, exp))
    BY <1>10 DEF ParsePart
  <2>2. Follows(ts, p, word)
    BY <1>1, <1>10 DEF GoodPart
  <2>3. Follows(ts, word, exp)
    BY <1>2, <2>2, ParseExpressionFollows DEF Follows
  <2>4. Follows(ts, word, Wanted(word, exp))
    BY <2>3, WantedFollows
  <2>5. Follows(ts, p, Wanted(word, exp))
    BY ONLY Fine(ts, p), <2>2, <2>4, FollowsOn
  <2> QED
    BY <1>10, <2>1, <2>5, IfFoundFollows
<1> QED
  BY <1>3, <1>4, <1>5, <1>6, <1>7, <1>8, <1>9, <1>10 DEF GoodPart, Whats

\* loop is what ParseParts has of the statement after each of its parts.
PartsRead(ts, p, form, loop) ==
  /\ ParseParts(ts, p, form) = Returned(p, loop[Len(form.parts)])
  /\ loop[0] = [p EXCEPT !.node = [kind |-> form.kind]]
  /\ \A k \in 0 .. (Len(form.parts) - 1) :
       loop[k + 1] = Filled(ts, loop[k], form.parts[k + 1])

\* The parts of a statement, one after the other
LEMMA PartsLoop ==
  ASSUME NEW ts, NEW p, NEW form, Len(form.parts) \in Nat
  PROVE  \E loop : PartsRead(ts, p, form, loop)
<1> DEFINE n == Len(form.parts)
           base == [p EXCEPT !.node = [kind |-> form.kind]]
           Turn(q, k) == Filled(ts, q, form.parts[k])
           Value(f, k) == IF k = 0 THEN [p EXCEPT !.node = [kind |-> form.kind]]
                          ELSE Filled(ts, f[k - 1], form.parts[k])
           loop == CHOOSE f : f = [k \in 0 .. n |-> Value(f, k)]
<1>1. ParseParts(ts, p, form) = Returned(p, loop[n])
  BY Zenon DEF ParseParts
<1>2. n \in Nat /\ 0 \in Int /\ n \in Int
  OBVIOUS
<1> HIDE DEF n
<1>3. \A f : Value(f, 0) = base
  OBVIOUS
<1>4. \A f, k : k # 0 => Value(f, k) = Turn(f[k - 1], k)
  OBVIOUS
<1>5. \E f : f = [k \in 0 .. n |-> Value(f, k)]
  <2> DEFINE Q == {m \in 0 .. n : \E f : f = [k \in 0 .. m |-> Value(f, k)]}
  <2>1. 0 \in Q
    <3> DEFINE f == [k \in 0 .. 0 |-> base]
    <3>1. \A k \in 0 .. 0 : f[k] = Value(f, k)
      BY <1>3
    <3> HIDE DEF Value
    <3>2. f = [k \in 0 .. 0 |-> Value(f, k)]
      BY <3>1
    <3> QED
      BY <1>2, <3>2
  <2>2. ASSUME NEW m \in 0 .. (n - 1), m \in Q PROVE m + 1 \in Q
    <3> HIDE DEF base, Turn
    <3>1. PICK f : f = [k \in 0 .. m |-> Value(f, k)]
      BY <2>2
    <3> DEFINE g == [k \in 0 .. (m + 1) |-> IF k = 0 THEN base ELSE Turn(f[k - 1], k)]
    <3>2. \A k \in 0 .. m : g[k] = f[k]
      <4>1. \A k \in 0 .. m : f[k] = Value(f, k)
        <5> HIDE DEF Value
        <5> QED
          BY <3>1
      <4> HIDE DEF Value
      <4> QED
        BY <4>1, <1>3, <1>4
    <3>3. \A k \in 0 .. (m + 1) : g[k] = Value(g, k)
      <4> SUFFICES ASSUME NEW k \in 0 .. (m + 1) PROVE g[k] = Value(g, k)
        OBVIOUS
      <4>1. CASE k = 0
        BY <4>1, <1>3
      <4>2. CASE k # 0
        <5>1. k - 1 \in 0 .. m
          BY <4>2
        <5>2. g[k - 1] = f[k - 1]
          BY <3>2, <5>1
        <5>3. g[k] = Turn(f[k - 1], k)
          BY <4>2
        <5>4. Value(g, k) = Turn(g[k - 1], k)
          BY <4>2, <1>4
        <5> HIDE DEF g, Value
        <5> QED
          BY <5>2, <5>3, <5>4
      <4> QED
        BY <4>1, <4>2
    <3>4. g = [k \in 0 .. (m + 1) |-> Value(g, k)]
      <4> HIDE DEF Value
      <4> QED
        BY <3>3
    <3> HIDE DEF g, Value
    <3> QED
      BY <1>2, <3>4
  <2> HIDE DEF Q
  <2>3. n \in Q
    BY ONLY <1>2, <2>1, <2>2, Upwards
  <2> QED
    BY <2>3 DEF Q
<1>6. loop = [k \in 0 .. n |-> Value(loop, k)]
  <2> HIDE DEF Value
  <2> QED
    BY <1>5
<1>7. \A k \in 0 .. n : loop[k] = Value(loop, k)
  <2> HIDE DEF Value, loop
  <2> QED
    BY <1>6
<1> HIDE DEF Value, loop, Turn, base
<1>8. loop[0] = base /\ \A k \in 0 .. (n - 1) : loop[k + 1] = Turn(loop[k], k + 1)
  <2>1. 0 \in 0 .. n /\ \A k \in 0 .. (n - 1) : k + 1 \in 0 .. n /\ k + 1 # 0 /\ (k + 1) - 1 = k
    BY <1>2
  <2> QED
    BY <1>3, <1>4, <1>7, <2>1
<1>9. PartsRead(ts, p, form, loop)
  BY <1>1, <1>8 DEF Turn, base, n, PartsRead
<1> QED
  BY <1>9

\* A statement that was read has taken a token.
LEMMA ParsePartsFollow ==
  ASSUME NEW ts, Ends(ts), NEW p, Fine(ts, p), NEW form, GoodForm(form)
  PROVE  LET r == ParseParts(ts, p, form)
         IN  Follows(ts, p, r) /\ (r.ok => p.cur < r.cur)
<1> PICK n : n = Len(form.parts)
  OBVIOUS
<1>1. n \in Nat /\ 1 <= n /\ n \in Int /\ 1 \in Int /\ 0 \in 0 .. (n - 1)
  BY DEF GoodForm
<1> PICK loop : PartsRead(ts, p, form, loop)
  BY <1>1, PartsLoop
<1> DEFINE After(q, k) == Filled(ts, q, form.parts[k])
<1>2. /\ ParseParts(ts, p, form) = Returned(p, loop[n])
      /\ loop[0] = [p EXCEPT !.node = [kind |-> form.kind]]
      /\ \A k \in 0 .. (n - 1) : loop[k + 1] = After(loop[k], k + 1)
  BY DEF PartsRead
<1> DEFINE Q == {k \in 1 .. n : Follows(ts, p, loop[k]) /\ (loop[k].ok => p.cur < loop[k].cur)}
<1>3. ASSUME NEW q, Fine(ts, q), NEW k \in 1 .. n
      PROVE  /\ Follows(ts, q, After(q, k))
             /\ form.parts[k].what = "word" /\ After(q, k).ok => After(q, k).cur = q.cur + 1
  <2> PICK part, r : part = form.parts[k] /\ r = ParsePart(ts, q, part)
    OBVIOUS
  <2>1. GoodPart(part)
    BY DEF GoodForm
  <2>2. Follows(ts, q, r) /\ (part.what = "word" /\ r.ok => r.cur = q.cur + 1)
    BY <1>3, <2>1, ParsePartFollows
  <2>3. \E node : After(q, k) = [r EXCEPT !.node = node]
    BY DEF Filled
  <2> PICK node : After(q, k) = [r EXCEPT !.node = node]
    BY <2>3
  <2>4. [r EXCEPT !.node = node].ok = r.ok /\ [r EXCEPT !.node = node].cur = r.cur
    BY <2>2 DEF Follows, Fine
  <2> HIDE DEF After
  <2>5. Follows(ts, q, [r EXCEPT !.node = node])
    BY ONLY <2>2, NodeFollows
  <2> QED
    BY <2>2, <2>4, <2>5, part = form.parts[k]
<1> HIDE DEF After
<1>4. Follows(ts, p, loop[0]) /\ loop[0].cur = p.cur
  <2>1. \A node : Follows(ts, p, [p EXCEPT !.node = node]) /\ [p EXCEPT !.node = node].cur = p.cur
    BY FineFollows, NodeFollows DEF Fine
  <2> QED
    BY <1>2, <2>1
<1>5. 1 \in Q
  <2>1. loop[1] = After(loop[0], 1)
    <3>1. loop[0 + 1] = After(loop[0], 0 + 1)
      BY <1>1, <1>2, Zenon
    <3> QED
      BY ONLY <3>1
  <2>2. Follows(ts, loop[0], loop[1]) /\ (loop[1].ok => loop[1].cur = loop[0].cur + 1)
    <3>1. 1 \in 1 .. n /\ form.parts[1].what = "word" /\ Fine(ts, loop[0])
      BY <1>1, <1>4 DEF GoodForm, Follows
    <3> QED
      BY ONLY <1>3, <2>1, <3>1
  <2>3. Follows(ts, p, loop[1])
    BY ONLY Fine(ts, p), <1>4, <2>2, FollowsOn
  <2>4. loop[1].ok => p.cur < loop[1].cur
    BY <1>4, <2>2 DEF Fine
  <2> QED
    BY <1>1, <2>3, <2>4
<1>6. ASSUME NEW k \in 1 .. (n - 1), k \in Q PROVE k + 1 \in Q
  <2>1. Follows(ts, p, loop[k]) /\ (loop[k].ok => p.cur < loop[k].cur)
    BY <1>6
  <2>2. k + 1 \in 1 .. n /\ k \in 0 .. (n - 1)
    BY <1>1
  <2>3. loop[k + 1] = After(loop[k], k + 1)
    BY <1>2, <2>2
  <2>4. Follows(ts, loop[k], loop[k + 1])
    BY <1>3, <2>1, <2>2, <2>3 DEF Follows
  <2>5. Follows(ts, p, loop[k + 1])
    BY ONLY Fine(ts, p), <2>1, <2>4, FollowsOn
  <2>6. loop[k + 1].ok => p.cur < loop[k + 1].cur
    BY <2>1, <2>4 DEF Follows, Fine, Passes
  <2>7. \A m \in 1 .. n : Follows(ts, p, loop[m]) /\ (loop[m].ok => p.cur < loop[m].cur) => m \in Q
    OBVIOUS
  <2> HIDE DEF Q
  <2> QED
    BY ONLY <2>2, <2>5, <2>6, <2>7
<1>7. n \in Q
  <2> HIDE DEF Q
  <2>1. \A k \in 1 .. (n - 1) : k \in Q => k + 1 \in Q
    BY ONLY <1>6
  <2>2. 1 \in Int /\ n \in Int
    BY <1>1
  <2>3. \A k \in 1 .. n : k \in Q
    BY ONLY <1>5, <2>1, <2>2, Upwards
  <2> QED
    BY <1>1, <2>3
<1>8. Follows(ts, p, loop[n]) /\ (loop[n].ok => p.cur < loop[n].cur)
  BY <1>7
<1> QED
  BY <1>2, <1>8, ReturnedFollows

\* The ways in which the parts of the statements are made
LEMMA GoodParts ==
  /\ \A k : GoodPart(Word(k)) /\ Word(k).what = "word"
  /\ \A t : t # Semicolon => GoodPart(Must(t))
  /\ \A field : GoodPart(Name(field)) /\ GoodPart(Flag(field)) /\ GoodPart(From(field))
  /\ \A field : \A delimiters \in SUBSET Delimiters :
       /\ \A of \in Elements : GoodPart(List(field, of, delimiters))
       /\ GoodPart(Exp(field, delimiters)) /\ GoodPart(Clause(field, delimiters))
<1>1. \A k : Keyword(k) # Semicolon
  BY NoSemicolon
<1>2. \A k : GoodPart(Word(k)) /\ Word(k).what = "word"
  BY <1>1 DEF GoodPart, Whats, Word, Part
<1>3. \A t : t # Semicolon => GoodPart(Must(t))
  BY DEF GoodPart, Whats, Must, Part
<1>4. \A field : GoodPart(Name(field)) /\ GoodPart(Flag(field)) /\ GoodPart(From(field))
  BY <1>1 DEF GoodPart, Whats, Name, Flag, From, Part
<1>5. ASSUME NEW field, NEW delimiters \in SUBSET Delimiters, NEW of \in Elements
      PROVE  GoodPart(List(field, of, delimiters))
  BY DEF GoodPart, Whats, List, Part
<1>6. ASSUME NEW field, NEW delimiters \in SUBSET Delimiters
      PROVE  GoodPart(Exp(field, delimiters)) /\ GoodPart(Clause(field, delimiters))
  BY <1>1 DEF GoodPart, Whats, Exp, Clause, Part
<1> QED
  BY <1>2, <1>3, <1>4, <1>5, <1>6

LEMMA GoodForms == Len(Forms) = 5 /\ \A k \in 1 .. 5 : GoodForm(Forms[k])
<1>1. /\ \A k : GoodPart(Word(k)) /\ Word(k).what = "word" /\ GoodPart(Must(Keyword(k)))
      /\ GoodPart(Must(LeftParen)) /\ GoodPart(Must(RightParen))
      /\ \A field : GoodPart(Name(field)) /\ GoodPart(Flag(field)) /\ GoodPart(From(field))
  BY GoodParts, NoSemicolon
<1>2. /\ {Keyword("from"), Semicolon} \in SUBSET Delimiters
      /\ {Keyword("limit"), Keyword("offset"), Semicolon} \in SUBSET Delimiters
      /\ {Keyword("offset"), Semicolon} \in SUBSET Delimiters
      /\ {Semicolon} \in SUBSET Delimiters /\ {RightParen} \in SUBSET Delimiters
  BY DEF Delimiters
<1>3. "select items" \in Elements /\ "expressions" \in Elements /\ "columns" \in Elements
  BY DEF Elements
<1>4. GoodForm(SelectStatement)
  <2> PICK a, b, c, d, e, f :
        /\ a = Word("select") /\ c = From("from")
        /\ b = List("item", "select items", {Keyword("from"), Semicolon})
        /\ d = Clause("where", {Keyword("limit"), Keyword("offset"), Semicolon})
        /\ e = Clause("limit", {Keyword("offset"), Semicolon})
        /\ f = Clause("offset", {Semicolon})
    OBVIOUS
  <2>1. SelectStatement.parts = <<a, b, c, d, e, f>>
    BY DEF SelectStatement
  <2>2. a.what = "word" /\ GoodPart(a) /\ GoodPart(c)
    BY <1>1
  <2>3. GoodPart(b)
    BY <1>2, <1>3, GoodParts
  <2>4. GoodPart(d) /\ GoodPart(e) /\ GoodPart(f)
    BY <1>2, GoodParts
  <2> QED
    BY ONLY <2>1, <2>2, <2>3, <2>4 DEF GoodForm
<1>5. GoodForm(InsertStatement)
  <2> PICK a, b, c, d, e, f, g :
        /\ a = Word("insert") /\ b = Must(Keyword("into")) /\ c = Name("table")
        /\ d = Must(Keyword("values")) /\ e = Must(LeftParen)
        /\ f = List("values", "expressions", {RightParen}) /\ g = Must(RightParen)
    OBVIOUS
  <2>1. InsertStatement.parts = <<a, b, c, d, e, f, g>>
    BY DEF InsertStatement
  <2>2. a.what = "word" /\ \A part \in {a, b, c, d, e, f, g} : GoodPart(part)
    BY <1>1, <1>2, <1>3, GoodParts
  <2> QED
    BY ONLY <2>1, <2>2 DEF GoodForm
<1>6. GoodForm(CreateTableStatement)
  <2> PICK a, b, c, d, e, f :
        /\ a = Word("create") /\ b = Word("table") /\ c = Name("name") /\ d = Must(LeftParen)
        /\ e = List("cols", "columns", {RightParen}) /\ f = Must(RightParen)
    OBVIOUS
  <2>1. CreateTableStatement.parts = <<a, b, c, d, e, f>>
    BY DEF CreateTableStatement
  <2>2. a.what = "word" /\ \A part \in {a, b, c, d, e, f} : GoodPart(part)
    BY <1>1, <1>2, <1>3, GoodParts
  <2> QED
    BY ONLY <2>1, <2>2 DEF GoodForm
<1>7. GoodForm(CreateIndexStatement)
  <2> PICK a, b, c, d, e, f, g :
        /\ a = Word("create") /\ b = Flag("unique") /\ c = Word("index") /\ d = Name("name")
        /\ e = Must(Keyword("on")) /\ f = Name("table") /\ g = Exp("exp", {Semicolon})
    OBVIOUS
  <2>1. CreateIndexStatement.parts = <<a, b, c, d, e, f, g>>
    BY DEF CreateIndexStatement
  <2>2. a.what = "word" /\ \A part \in {a, b, c, d, e, f, g} : GoodPart(part)
    BY <1>1, <1>2, <1>3, GoodParts
  <2> QED
    BY ONLY <2>1, <2>2 DEF GoodForm
<1>8. GoodForm(DropTableStatement)
  <2> PICK a, b, c : a = Word("drop") /\ b = Word("table") /\ c = Name("name")
    OBVIOUS
  <2>1. DropTableStatement.parts = <<a, b, c>>
    BY DEF DropTableStatement
  <2>2. a.what = "word" /\ \A part \in {a, b, c} : GoodPart(part)
    BY <1>1
  <2> QED
    BY ONLY <2>1, <2>2 DEF GoodForm
<1> QED
  <2> PICK a, b, c, d, e :
        /\ a = SelectStatement /\ b = InsertStatement /\ c = CreateTableStatement
        /\ d = CreateIndexStatement /\ e = DropTableStatement
    OBVIOUS
  <2>1. Forms = <<a, b, c, d, e>>
    BY DEF Forms
  <2>2. GoodForm(a) /\ GoodForm(b) /\ GoodForm(c) /\ GoodForm(d) /\ GoodForm(e)
    BY <1>4, <1>5, <1>6, <1>7, <1>8
  <2> QED
    BY ONLY <2>1, <2>2

\* r goes on from p and, unless it fails, takes a token.
Advances(ts, p, r) == Follows(ts, p, r) /\ (r.ok => p.cur < r.cur)

LEMMA OrElseAdvances ==
  ASSUME NEW ts, Ends(ts), NEW p, Fine(ts, p), p.ok, NEW r, Advances(ts, p, r),
         NEW form, GoodForm(form)
  PROVE  Advances(ts, p, OrElse(ts, r, form))
<1> PICK q : q = [r EXCEPT !.ok = TRUE]
  OBVIOUS
<1> PICK last : last = ParseParts(ts, q, form)
  OBVIOUS
<1>1. DOMAIN q = DOMAIN r /\ q.ok = TRUE /\ q.cur = r.cur /\ q.near = r.near
  BY DEF Advances, Follows, Fine
<1>2. Follows(ts, p, q)
  BY <1>1 DEF Advances, Follows, Fine
<1>3. Follows(ts, q, last) /\ (last.ok => q.cur < last.cur)
  BY <1>2, ParsePartsFollow DEF Follows
<1>4. Follows(ts, p, last)
  BY ONLY Fine(ts, p), <1>2, <1>3, FollowsOn
<1>5. last.ok => p.cur < last.cur
  BY <1>2, <1>3 DEF Follows, Fine, Passes
<1>6. OrElse(ts, r, form) \in {r, last}
  BY DEF OrElse
<1> QED
  BY <1>4, <1>5, <1>6 DEF Advances

\* tried is what is there after the first k statements have been tried.
FormsTried(ts, p, tried) ==
  /\ tried[0] = [p EXCEPT !.ok = FALSE]
  /\ \A k \in 0 .. 4 : tried[k + 1] = OrElse(ts, tried[k], Forms[k + 1])

LEMMA FormsLoop ==
  ASSUME NEW ts, NEW p
  PROVE  \E tried : FormsTried(ts, p, tried) /\ ParseStatement(ts, p) = tried[5]
<1> DEFINE Value(f, k) == IF k = 0 THEN [p EXCEPT !.ok = FALSE]
                          ELSE OrElse(ts, f[k - 1], Forms[k])
           tried == CHOOSE f : f = [k \in 0 .. 5 |-> Value(f, k)]
<1>1. ParseStatement(ts, p) = tried[5]
  <2>1. ParseStatement(ts, p) = (CHOOSE f : f = [k \in 0 .. Len(Forms) |-> Value(f, k)])[Len(Forms)]
    BY Zenon DEF ParseStatement
  <2> HIDE DEF Value
  <2> QED
    BY ONLY <2>1, GoodForms, Zenon
<1> PICK a, b, c, d, e, f :
      /\ a = [p EXCEPT !.ok = FALSE] /\ b = OrElse(ts, a, Forms[1])
      /\ c = OrElse(ts, b, Forms[2]) /\ d = OrElse(ts, c, Forms[3])
      /\ e = OrElse(ts, d, Forms[4]) /\ f = OrElse(ts, e, Forms[5])
  OBVIOUS
<1>2. PICK g : /\ DOMAIN g = 0 .. 5 /\ g = [k \in 0 .. 5 |-> g[k]]
               /\ g[0] = a /\ g[1] = b /\ g[2] = c /\ g[3] = d /\ g[4] = e /\ g[5] = f
  <2> DEFINE h == [k \in 0 .. 5 |-> IF k = 0 THEN a ELSE IF k = 1 THEN b ELSE IF k = 2 THEN c
                                    ELSE IF k = 3 THEN d ELSE IF k = 4 THEN e ELSE f]
  <2>1. /\ DOMAIN h = 0 .. 5 /\ h = [k \in 0 .. 5 |-> h[k]]
        /\ h[0] = a /\ h[1] = b /\ h[2] = c /\ h[3] = d /\ h[4] = e /\ h[5] = f
    BY ONLY TRUE
  <2> HIDE DEF h
  <2> QED
    BY ONLY <2>1
<1>3. /\ Value(g, 0) = a /\ Value(g, 1) = b /\ Value(g, 2) = c
      /\ Value(g, 3) = d /\ Value(g, 4) = e /\ Value(g, 5) = f
  <2>1. Value(g, 0) = [p EXCEPT !.ok = FALSE]
    BY ONLY TRUE
  <2>2. /\ Value(g, 1) = OrElse(ts, g[0], Forms[1]) /\ Value(g, 2) = OrElse(ts, g[1], Forms[2])
        /\ Value(g, 3) = OrElse(ts, g[2], Forms[3]) /\ Value(g, 4) = OrElse(ts, g[3], Forms[4])
        /\ Value(g, 5) = OrElse(ts, g[4], Forms[5])
    BY ONLY TRUE
  <2> HIDE DEF Value
  <2> QED
    BY <1>2, <2>1, <2>2, Zenon
<1>4. tried = [k \in 0 .. 5 |-> Value(tried, k)]
  <2> HIDE DEF Value
  <2>1. \A k \in 0 .. 5 : g[k] = Value(g, k)
    BY ONLY <1>2, <1>3
  <2> QED
    BY ONLY <1>2, <2>1
<1>5. FormsTried(ts, p, tried)
  <2> HIDE DEF tried
  <2>1. \A k \in 0 .. 5 : tried[k] = Value(tried, k)
    BY ONLY <1>4
  <2>2. \A k \in 0 .. 4 : k + 1 \in 0 .. 5 /\ k + 1 # 0 /\ (k + 1) - 1 = k
    BY ONLY TRUE
  <2>3. \A k \in 0 .. 4 : tried[k + 1] = OrElse(ts, tried[k], Forms[k + 1])
    BY ONLY <2>1, <2>2
  <2>4. tried[0] = [p EXCEPT !.ok = FALSE]
    BY ONLY <2>1
  <2> QED
    BY ONLY <2>3, <2>4 DEF FormsTried
<1> QED
  BY <1>1, <1>5

LEMMA ParseStatementAdvances ==
  ASSUME NEW ts, Ends(ts), NEW p, Fine(ts, p), p.ok
  PROVE  Advances(ts, p, ParseStatement(ts, p))
<1> PICK tried : FormsTried(ts, p, tried) /\ ParseStatement(ts, p) = tried[5]
  BY FormsLoop
<1>1. Advances(ts, p, tried[0])
  <2>1. Follows(ts, p, [p EXCEPT !.ok = FALSE]) /\ ~[p EXCEPT !.ok = FALSE].ok
    BY FineFollows, FailureFollows
  <2> QED
    BY ONLY <2>1, FormsTried(ts, p, tried) DEF FormsTried, Advances
<1>2. ASSUME NEW k \in 0 .. 4, Advances(ts, p, tried[k]) PROVE Advances(ts, p, tried[k + 1])
  <2>1. tried[k + 1] = OrElse(ts, tried[k], Forms[k + 1]) /\ k + 1 \in 1 .. 5
    BY DEF FormsTried
  <2>2. GoodForm(Forms[k + 1])
    BY <2>1, GoodForms
  <2> QED
    BY <1>2, <2>1, <2>2, OrElseAdvances
<1>3. Advances(ts, p, tried[5])
  <2> DEFINE Q == {k \in 0 .. 5 : Advances(ts, p, tried[k])}
  <2>1. 0 \in Q /\ 0 \in Int /\ 5 \in Int
    BY <1>1
  <2>2. \A k \in 0 .. (5 - 1) : k \in Q => k + 1 \in Q
    BY <1>2
  <2>3. 5 \in Q
    <3> HIDE DEF Q
    <3>1. \A k \in 0 .. 5 : k \in Q
      BY ONLY <2>1, <2>2, Upwards
    <3> QED
      BY <3>1
  <2> QED
    BY <2>3
<1> QED
  BY <1>3

------------------------------------------------------------------------------
(***************************************************************************)
(* Parse.                                                                  *)
(***************************************************************************)

\* The cursor after some semicolons: they are all it passes.
LEMMA SemicolonsPassed ==
  ASSUME NEW ts, Len(ts) \in Nat, NEW c \in 0 .. Len(ts)
  PROVE  /\ Semicolons(ts, c) \in c .. Len(ts)
         /\ \A i \in (c + 1) .. Semicolons(ts, c) : ts[i] = Semicolon
<1> DEFINE ends == {d \in c .. Len(ts) : \A i \in c .. (d - 1) : ts[i + 1] = Semicolon}
<1>1. c \in ends /\ ends \in SUBSET (c .. Len(ts)) /\ c \in Int /\ Len(ts) \in Int
  OBVIOUS
<1> PICK d : d = Max(ends)
  OBVIOUS
<1>2. d \in ends
  <2> HIDE DEF ends
  <2>1. ends # {}
    BY <1>1
  <2> QED
    BY <1>1, <2>1, GreatestInteger
<1>3. \A i \in (c + 1) .. d : ts[i] = Semicolon
  <2> SUFFICES ASSUME NEW i \in (c + 1) .. d PROVE ts[i] = Semicolon
    OBVIOUS
  <2>1. i - 1 \in c .. (d - 1) /\ (i - 1) + 1 = i
    BY <1>2
  <2> QED
    BY <1>2, <2>1
<1>4. d = Semicolons(ts, c) /\ d \in c .. Len(ts)
  BY <1>2, d = Max(ends) DEF Semicolons
<1> QED
  BY <1>3, <1>4

\* Where a statement ends, among the first c tokens: at a semicolon after another token
Terminators(ts, c) == {i \in 1 .. c : ts[i] = Semicolon /\ i > 1 /\ ts[i - 1] # Semicolon}

\* A statement and the semicolons after it are one statement more.
LEMMA OneTerminator ==
  ASSUME NEW ts, NEW c \in Nat, NEW e \in Nat, NEW d \in Nat, c < e, e < d,
         Passes(ts, c, e), \A i \in (e + 1) .. d : ts[i] = Semicolon
  PROVE  Cardinality(Terminators(ts, d)) = Cardinality(Terminators(ts, c)) + 1
<1>1. ts[e + 1] = Semicolon /\ ts[e] # Semicolon
  BY DEF Passes
<1>2. Terminators(ts, d) = Terminators(ts, c) \cup {e + 1}
  <2>1. ASSUME NEW i \in 1 .. d
        PROVE  i \in Terminators(ts, d) <=> i \in Terminators(ts, c) \/ i = e + 1
    <3>1. CASE i <= c
      BY <3>1 DEF Terminators
    <3>2. CASE i \in (c + 1) .. e
      BY <3>2 DEF Terminators, Passes
    <3>3. CASE i = e + 1
      <4>1. i > 1 /\ i - 1 = e
        BY <3>3
      <4> QED
        BY <1>1, <3>3, <4>1 DEF Terminators
    <3>4. CASE i > e + 1
      <4>1. i - 1 \in (e + 1) .. d
        BY <3>4
      <4> QED
        BY <3>4, <4>1 DEF Terminators
    <3> QED
      BY <3>1, <3>2, <3>3, <3>4
  <2>2. /\ Terminators(ts, d) \subseteq 1 .. d
        /\ Terminators(ts, c) \subseteq 1 .. d
        /\ e + 1 \in 1 .. d
    BY DEF Terminators
  <2> QED
    BY <2>1, <2>2
<1>3. e + 1 \notin Terminators(ts, c)
  BY DEF Terminators
<1>4. IsFiniteSet(Terminators(ts, c))
  <2>1. IsFiniteSet(1 .. c)
    BY FS_Interval
  <2>2. Terminators(ts, c) \subseteq 1 .. c
    BY DEF Terminators
  <2> QED
    BY <2>1, <2>2, FS_Subset
<1> QED
  BY <1>2, <1>3, <1>4, FS_AddElement

\* s is a sequence, of whatever elements.
Sequence(s) == \E S : s \in Seq(S)

\* No semicolon in the k-th statement, one after it, and one before it but for the first
Separate(k) ==
  /\ spans[k].from \in 0 .. Len(tokens) /\ spans[k].to \in 0 .. (Len(tokens) - 1)
  /\ Passes(tokens, spans[k].from, spans[k].to)
  /\ tokens[spans[k].to + 1] = Semicolon
  /\ k > 1 => tokens[spans[k].from] = Semicolon

(***************************************************************************)
(* The inductive invariant.  The tokens end with a semicolon, so that no   *)
(* function finds itself past them; the cursor is behind a semicolon, so   *)
(* that the next statement begins after one; and there have been as many   *)
(* statements as there are semicolons behind the cursor that end one.      *)
(***************************************************************************)
IInv ==
  /\ Sequence(tokens) /\ Sequence(statements) /\ Sequence(spans)
  /\ tokens = <<>> \/ Ends(tokens)
  /\ cursor \in 0 .. Len(tokens)
  /\ cursor > 0 => tokens[cursor] = Semicolon
  /\ Len(spans) = Len(statements)
  /\ \A k \in 1 .. Len(spans) : Separate(k)
  /\ Len(statements) = Cardinality(Terminators(tokens, cursor))
  /\ near \in Seq(0 .. (Len(tokens) - 1))
  /\ outcome = "parsed" => cursor = Len(tokens)

\* Some value more at the end of a sequence of whatever values
LEMMA AppendedAny ==
  ASSUME NEW S, NEW s \in Seq(S), NEW e
  PROVE  /\ Append(s, e) \in Seq(S \cup {e})
         /\ Len(Append(s, e)) = Len(s) + 1 /\ Append(s, e)[Len(s) + 1] = e
         /\ \A k \in 1 .. Len(s) : Append(s, e)[k] = s[k]
<1>1. s \in Seq(S \cup {e})
  OBVIOUS
<1> QED
  BY <1>1

LEMMA InitIInv == Init => IInv
<1> SUFFICES ASSUME Init PROVE IInv
  OBVIOUS
<1>1. PICK ts \in Inputs : tokens = Terminated(ts)
  BY DEF Init
<1> PICK S : S = ToSet(ts)
  OBVIOUS
<1>2. ts \in Seq(S)
  BY InputsAssumption
<1>3. Sequence(tokens) /\ (tokens = <<>> \/ Ends(tokens))
  <2>1. CASE ts = <<>>
    <3>1. tokens = <<>>
      BY <1>1, <2>1 DEF Terminated
    <3> QED
      BY <1>2, <2>1, <3>1 DEF Sequence
  <2>2. CASE ts # <<>> /\ Last(ts) = Semicolon
    <3>1. tokens = ts /\ Len(ts) \in Nat \ {0}
      BY <1>1, <1>2, <2>2 DEF Terminated
    <3> QED
      BY <1>2, <2>2, <3>1 DEF Ends, Last, Sequence
  <2>3. CASE ts # <<>> /\ Last(ts) # Semicolon
    <3> PICK last : last = Semicolon
      OBVIOUS
    <3>1. tokens = Append(ts, last)
      BY <1>1, <2>3 DEF Terminated
    <3>2. /\ Append(ts, last) \in Seq(S \cup {last})
          /\ Len(Append(ts, last)) = Len(ts) + 1 /\ Append(ts, last)[Len(ts) + 1] = last
      BY <1>2, AppendedAny
    <3>3. Len(ts) \in Nat
      BY <1>2
    <3> QED
      BY <3>1, <3>2, <3>3 DEF Ends, Sequence
  <2> QED
    BY <2>1, <2>2, <2>3
<1>4. Cardinality(Terminators(tokens, 0)) = 0
  <2>1. Terminators(tokens, 0) = {}
    BY DEF Terminators
  <2> QED
    BY <2>1, FS_EmptySet
<1>5. \A T : <<>> \in Seq(T)
  OBVIOUS
<1>6. /\ cursor = 0 /\ statements = <<>> /\ spans = <<>> /\ near = <<>> /\ outcome = "parsing"
      /\ Len(<<>>) = 0 /\ \A k : k \notin 1 .. 0
  BY DEF Init
<1>7. /\ cursor \in 0 .. Len(tokens) /\ ~(cursor > 0) /\ outcome # "parsed"
      /\ \A k : k \notin 1 .. Len(spans)
  BY <1>3, <1>6 DEF Sequence
<1>8. /\ Sequence(statements) /\ Sequence(spans)
      /\ near \in Seq(0 .. (Len(tokens) - 1))
      /\ Len(spans) = Len(statements)
  BY <1>5, <1>6, Zenon DEF Sequence
<1>9. Len(statements) = Cardinality(Terminators(tokens, cursor))
  BY <1>4, <1>6
<1> QED
  BY <1>3, <1>7, <1>8, <1>9, Zenon DEF IInv

\* The k-th statement stays as it is while another follows.
LEMMA SeparateKept ==
  ASSUME tokens' = tokens, NEW k, spans'[k] = spans[k], Separate(k)
  PROVE  Separate(k)'
BY DEF Separate, Passes

LEMMA ParseIInv == IInv /\ Parse => IInv'
<1> SUFFICES ASSUME IInv, Parse PROVE IInv'
  OBVIOUS
<1> PICK stmt : stmt = ParseStatement(tokens, At(cursor))
  OBVIOUS
<1>1. /\ cursor < Len(tokens) /\ stmt.ok /\ Separated(tokens, stmt.cur)
      /\ statements' = Append(statements, stmt.node)
      /\ spans' = Append(spans, [from |-> cursor, to |-> stmt.cur])
      /\ cursor' = Semicolons(tokens, stmt.cur)
      /\ near' = near \o stmt.near
      /\ tokens' = tokens /\ outcome' = outcome /\ outcome = "parsing"
  BY DEF Parse, Parsing
<1>2. /\ Len(tokens) \in Nat /\ cursor \in 0 .. Len(tokens)
      /\ Sequence(tokens) /\ (tokens = <<>> \/ Ends(tokens))
  <2>1. Sequence(tokens) /\ cursor \in 0 .. Len(tokens) /\ (tokens = <<>> \/ Ends(tokens))
    BY DEF IInv
  <2> QED
    BY <2>1 DEF Sequence
<1>3. Ends(tokens)
  BY <1>1, <1>2
<1>4. cursor \in 0 .. (Len(tokens) - 1)
  BY <1>1, <1>2
<1>5. Follows(tokens, At(cursor), stmt) /\ At(cursor).cur = cursor /\ cursor < stmt.cur
  <2>1. Fine(tokens, At(cursor)) /\ At(cursor).cur = cursor /\ At(cursor).ok
    BY <1>4, AtFine
  <2>2. Advances(tokens, At(cursor), stmt)
    BY <1>3, <2>1, ParseStatementAdvances
  <2> QED
    BY <1>1, <2>1, <2>2 DEF Advances
<1> PICK e, d : e = stmt.cur /\ d = Semicolons(tokens, e)
  OBVIOUS
<1>6. e \in 0 .. (Len(tokens) - 1) /\ e \in Nat /\ e \in 0 .. Len(tokens)
  BY <1>2, <1>5 DEF Follows, Fine
<1>7. d \in e .. Len(tokens) /\ \A i \in (e + 1) .. d : tokens[i] = Semicolon
  BY <1>2, <1>6, SemicolonsPassed
<1>8. e < d /\ cursor < e /\ d \in Nat /\ cursor \in Nat /\ d \in 0 .. Len(tokens) /\ d > 0
  BY <1>1, <1>2, <1>5, <1>6, <1>7 DEF Separated
<1>9. tokens[e + 1] = Semicolon /\ tokens[d] = Semicolon
  BY <1>6, <1>7, <1>8
<1>10. Passes(tokens, cursor, e)
  BY <1>5 DEF Follows
<1>11. cursor' = d
  BY <1>1
<1> PICK m : m = Len(statements)
  OBVIOUS
<1>12. PICK S : statements \in Seq(S)
  BY DEF IInv, Sequence
<1>13. PICK T : spans \in Seq(T)
  BY DEF IInv, Sequence
<1>14. m \in Nat /\ Len(spans) = m
  <2>1. Len(spans) = Len(statements)
    BY DEF IInv
  <2> QED
    BY <1>12, <2>1
<1>15. Sequence(statements)' /\ Len(statements') = m + 1
  BY <1>1, <1>12, AppendedAny DEF Sequence
<1> PICK span : span = [from |-> cursor, to |-> e]
  OBVIOUS
<1>16. /\ Sequence(spans)'
       /\ Len(spans') = m + 1 /\ spans'[m + 1] = span
       /\ \A k \in 1 .. m : spans'[k] = spans[k]
  <2>1. spans' = Append(spans, span)
    BY <1>1
  <2>2. /\ Append(spans, span) \in Seq(T \cup {span})
        /\ Len(Append(spans, span)) = m + 1 /\ Append(spans, span)[m + 1] = span
        /\ \A k \in 1 .. m : Append(spans, span)[k] = spans[k]
    BY <1>13, <1>14, AppendedAny
  <2> QED
    BY <2>1, <2>2, Zenon DEF Sequence
<1>17. \A k \in 1 .. Len(spans') : Separate(k)'
  <2>1. ASSUME NEW k \in 1 .. m PROVE Separate(k)'
    <3>1. Separate(k)
      BY <1>14 DEF IInv
    <3> QED
      BY <1>1, <1>16, <3>1, SeparateKept
  <2>2. Separate(m + 1)'
    <3>1. spans'[m + 1].from = cursor /\ spans'[m + 1].to = e
      BY <1>16
    <3>2. m + 1 > 1 => tokens[cursor] = Semicolon
      <4>1. cursor = 0 => m = 0
        <5>1. Terminators(tokens, 0) = {}
          BY DEF Terminators
        <5>2. m = Cardinality(Terminators(tokens, cursor))
          BY DEF IInv
        <5> QED
          BY <5>1, <5>2, FS_EmptySet
      <4>2. cursor # 0 => tokens[cursor] = Semicolon
        BY <1>8 DEF IInv
      <4> QED
        BY <1>14, <4>1, <4>2
    <3>3. Passes(tokens', cursor, e)
      BY <1>1, <1>10
    <3> QED
      BY <1>1, <1>2, <1>6, <1>9, <3>1, <3>2, <3>3 DEF Separate
  <2> QED
    BY <1>14, <1>16, <2>1, <2>2
<1>18. Len(statements') = Cardinality(Terminators(tokens', cursor'))
  <2>1. Cardinality(Terminators(tokens, d)) = Cardinality(Terminators(tokens, cursor)) + 1
    BY <1>6, <1>7, <1>8, <1>10, OneTerminator
  <2>2. m = Cardinality(Terminators(tokens, cursor))
    BY DEF IInv
  <2> QED
    BY <1>1, <1>11, <1>15, <2>1, <2>2
<1>19. near' \in Seq(0 .. (Len(tokens') - 1))
  <2>1. near \in Seq(0 .. (Len(tokens) - 1)) /\ stmt.near \in Seq(0 .. (Len(tokens) - 1))
    BY <1>5 DEF IInv, Follows, Fine
  <2> QED
    BY <1>1, <2>1
<1>20. Sequence(tokens)' /\ Ends(tokens') /\ outcome' # "parsed"
  BY <1>1, <1>2, <1>3 DEF Sequence
<1>21. cursor' \in 0 .. Len(tokens') /\ tokens'[cursor'] = Semicolon
  BY <1>1, <1>8, <1>9, <1>11
<1>22. Len(spans') = Len(statements')
  BY <1>15, <1>16
<1> QED
  BY <1>15, <1>16, <1>17, <1>18, <1>19, <1>20, <1>21, <1>22 DEF IInv

LEMMA FailIInv == IInv /\ Fail => IInv'
<1> SUFFICES ASSUME IInv, Fail PROVE IInv'
  OBVIOUS
<1> PICK stmt : stmt = ParseStatement(tokens, At(cursor))
  OBVIOUS
<1>1. /\ cursor < Len(tokens) /\ near' = near \o HelpMessage(stmt).near
      /\ tokens' = tokens /\ cursor' = cursor /\ statements' = statements /\ spans' = spans
      /\ outcome' = "refused"
  BY DEF Fail, Parsing
<1>2. Ends(tokens) /\ cursor \in 0 .. (Len(tokens) - 1)
  <2>1. Sequence(tokens) /\ cursor \in 0 .. Len(tokens) /\ (tokens = <<>> \/ Ends(tokens))
    BY DEF IInv
  <2> QED
    BY <1>1, <2>1 DEF Sequence
<1>3. Follows(tokens, At(cursor), HelpMessage(stmt))
  <2>1. Fine(tokens, At(cursor)) /\ At(cursor).ok
    BY <1>2, AtFine
  <2>2. Follows(tokens, At(cursor), stmt)
    BY <1>2, <2>1, ParseStatementAdvances DEF Advances
  <2> QED
    BY <2>2, HelpMessageFollows
<1>4. near' \in Seq(0 .. (Len(tokens') - 1))
  <2>1. near \in Seq(0 .. (Len(tokens) - 1)) /\ HelpMessage(stmt).near \in Seq(0 .. (Len(tokens) - 1))
    BY <1>3 DEF IInv, Follows, Fine
  <2> QED
    BY <1>1, <2>1
<1>5. \A k \in 1 .. Len(spans') : Separate(k)'
  BY <1>1, SeparateKept DEF IInv
<1> QED
  BY <1>1, <1>4, <1>5 DEF IInv, Sequence

LEMMA FinishIInv == IInv /\ Finish => IInv'
<1> SUFFICES ASSUME IInv, Finish PROVE IInv'
  OBVIOUS
<1>1. /\ cursor >= Len(tokens) /\ near' = near /\ tokens' = tokens /\ cursor' = cursor
      /\ statements' = statements /\ spans' = spans
  BY DEF Finish
<1>2. cursor' = Len(tokens')
  <2>1. Sequence(tokens) /\ cursor \in 0 .. Len(tokens)
    BY DEF IInv
  <2> QED
    BY <1>1, <2>1 DEF Sequence
<1>3. \A k \in 1 .. Len(spans') : Separate(k)'
  BY <1>1, SeparateKept DEF IInv
<1> QED
  BY <1>1, <1>2, <1>3 DEF IInv, Sequence

LEMMA StutteringIInv == IInv /\ UNCHANGED vars => IInv'
<1> SUFFICES ASSUME IInv, UNCHANGED vars PROVE IInv'
  OBVIOUS
<1>1. /\ tokens' = tokens /\ cursor' = cursor /\ statements' = statements /\ spans' = spans
      /\ near' = near /\ outcome' = outcome
  BY DEF vars
<1>2. \A k \in 1 .. Len(spans') : Separate(k)'
  BY <1>1, SeparateKept DEF IInv
<1> QED
  BY <1>1, <1>2 DEF IInv, Sequence

(***************************************************************************)
(* Every state Parse can reach satisfies the invariant, for every sequence *)
(* of tokens lex may return.                                               *)
(***************************************************************************)
THEOREM ParserInvariant == Spec => []IInv
<1>1. IInv /\ [Next]_vars => IInv'
  BY ParseIInv, FailIInv, FinishIInv, StutteringIInv DEF Next
<1> QED
  BY <1>1, InitIInv, PTL DEF Spec

(***************************************************************************)
(* helpMessage never reads past the tokens: of whatever tokens Parse is    *)
(* given, those it appends a semicolon to end with a token no parsing      *)
(* function takes.                                                         *)
(***************************************************************************)
THEOREM HelpInRangeAlways == Spec => []HelpInRange
<1>1. IInv => HelpInRange
  <2> SUFFICES ASSUME IInv, NEW k \in DOMAIN near PROVE near[k] < Len(tokens)
    BY DEF HelpInRange
  <2>1. Sequence(tokens) /\ near \in Seq(0 .. (Len(tokens) - 1))
    BY DEF IInv
  <2> QED
    BY <2>1 DEF Sequence
<1> QED
  BY <1>1, ParserInvariant, PTL

(***************************************************************************)
(* Statements are what stands between semicolons: Parse reads no statement *)
(* across one, stops none before one, and returns as many as there are.    *)
(***************************************************************************)
THEOREM StatementsSeparateAlways == Spec => []StatementsSeparate
<1>1. IInv => StatementsSeparate
  <2> SUFFICES ASSUME IInv PROVE StatementsSeparate
    OBVIOUS
  <2>1. Sequence(statements) /\ Sequence(tokens) /\ Len(spans) = Len(statements)
    BY DEF IInv
  <2> PICK S : tokens \in Seq(S)
    BY <2>1 DEF Sequence
  <2>2. DOMAIN statements = 1 .. Len(spans) /\ tokens \in Seq(S)
    BY <2>1 DEF Sequence
  <2>3. ASSUME NEW k \in DOMAIN statements
        PROVE  /\ Semicolon \notin ToSet(Read(k))
               /\ tokens[spans[k].to + 1] = Semicolon
               /\ k > 1 => tokens[spans[k].from] = Semicolon
    <3>1. Separate(k)
      BY <2>2, <2>3 DEF IInv
    <3> PICK from, to : from = spans[k].from /\ to = spans[k].to
      OBVIOUS
    <3>2. /\ from \in Nat /\ to \in Nat /\ from <= to /\ to < Len(tokens)
          /\ \A i \in (from + 1) .. to : tokens[i] # Semicolon
      <4>1. /\ Passes(tokens, from, to)
            /\ from \in 0 .. Len(tokens) /\ to \in 0 .. (Len(tokens) - 1)
        BY <3>1 DEF Separate
      <4> QED
        BY <2>2, <4>1 DEF Passes
    <3>3. \A i \in DOMAIN Read(k) : Read(k)[i] # Semicolon
      <4> PICK a : a = from + 1
        OBVIOUS
      <4>1. Read(k) = SubSeq(tokens, a, to)
        BY DEF Read
      <4>2. a \in Int /\ to \in Int /\ from \in Nat /\ \A i \in a .. to : tokens[i] # Semicolon
        BY <3>2
      <4> PICK taken : taken = {tokens[i] : i \in a .. to}
        OBVIOUS
      <4>3. \A i \in a .. to : tokens[i] \in taken
        OBVIOUS
      <4>4. SubSeq(tokens, a, to) \in Seq(taken)
        BY <4>2, <4>3, SubSeqProperties
      <4>5. Semicolon \notin taken
        BY <4>2
      <4>6. \A s \in Seq(taken) : \A i \in DOMAIN s : s[i] # Semicolon
        BY <4>5
      <4>7. Read(k) \in Seq(taken)
        BY <4>1, <4>4, Zenon
      <4> QED
        BY ONLY <4>6, <4>7
    <3>4. Semicolon \notin ToSet(Read(k))
      BY <3>3 DEF ToSet
    <3> QED
      BY <3>1, <3>4 DEF Separate
  <2>4. ASSUME outcome = "parsed"
        PROVE  Len(statements) = Cardinality({i \in DOMAIN tokens :
                 tokens[i] = Semicolon /\ i > 1 /\ tokens[i - 1] # Semicolon})
    <3>1. DOMAIN tokens = 1 .. Len(tokens)
      BY <2>2
    <3>2. cursor = Len(tokens) /\ Len(statements) = Cardinality(Terminators(tokens, cursor))
      BY <2>4 DEF IInv
    <3> QED
      BY <3>1, <3>2, Zenon DEF Terminators
  <2> QED
    BY <2>3, <2>4 DEF StatementsSeparate
<1> QED
  BY <1>1, ParserInvariant, PTL

==============================================================================
