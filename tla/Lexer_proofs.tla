---------------------------- MODULE Lexer_proofs ----------------------------
(***************************************************************************)
(* Theorems about Lexer, for every text.                                   *)
(***************************************************************************)
EXTENDS Lexer, Iteration, FiniteSetTheorems

Cursor == [pointer: Nat, line: Nat, col: Nat]

\* The cursors lex tries its lexers at
At(s) == {ic \in Cursor : ic.pointer < Len(s)}

Low(c) == IF c \in DOMAIN lower THEN lower[c] ELSE c

\* The cursor jc is further on the line of ic.
OnLine(ic, jc) == jc.line = ic.line /\ jc.col + ic.pointer = ic.col + jc.pointer

\* The sequence o, letter by letter, from position p of s on in lower case
ReadsAt(s, p, o) == p + Len(o) <= Len(s) /\ \A i \in 1 .. Len(o) : o[i] = Low(s[p + i])

------------------------------------------------------------------------------
(***************************************************************************)
(* Pieces of the source.                                                   *)
(***************************************************************************)

\* A piece of a text, character by character
LEMMA TextShape ==
  ASSUME NEW s \in Seq(Character), NEW p \in 0 .. Len(s), NEW q \in p .. Len(s)
  PROVE  /\ Text(s, p, q) \in Seq(Character)
         /\ Len(Text(s, p, q)) = q - p
         /\ \A i \in 1 .. (q - p) : Text(s, p, q)[i] = s[p + i]
BY DEF Text

\* A text in lower case, character by character
LEMMA LowerShape ==
  ASSUME NEW t \in Seq(Character)
  PROVE  /\ ToLower(t) \in Seq(Character)
         /\ Len(ToLower(t)) = Len(t)
         /\ \A i \in 1 .. Len(t) : ToLower(t)[i] = Low(t[i])
<1>1. \A c \in Character : Low(c) \in Character
  BY LexerAssumption DEF Low
<1>2. ToLower(t) = [i \in 1 .. Len(t) |-> Low(t[i])]
  BY DEF ToLower, Low
<1>3. \A i \in 1 .. Len(t) : Low(t[i]) \in Character
  <2>1. \A i \in 1 .. Len(t) : t[i] \in Character
    OBVIOUS
  <2> QED
    BY <1>1, <2>1
<1> QED
  BY <1>2, <1>3

\* The text longestMatch has read when it comes to q
LEMMA ReadShape ==
  ASSUME NEW s \in Seq(Character), NEW p \in 0 .. Len(s), NEW q \in p .. Len(s)
  PROVE  LET value == ToLower(Text(s, p, q))
         IN  /\ value \in Seq(Character) /\ Len(value) = q - p
             /\ \A i \in 1 .. (q - p) : value[i] = Low(s[p + i])
<1> DEFINE t == Text(s, p, q)
<1>1. /\ t \in Seq(Character) /\ Len(t) = q - p
      /\ \A i \in 1 .. (q - p) : t[i] = s[p + i]
  BY TextShape
<1> HIDE DEF t
<1>2. /\ ToLower(t) \in Seq(Character) /\ Len(ToLower(t)) = q - p
      /\ \A i \in 1 .. (q - p) : ToLower(t)[i] = Low(t[i])
  BY <1>1, LowerShape
<1>3. \A i \in 1 .. (q - p) : ToLower(t)[i] = Low(s[p + i])
  BY <1>1, <1>2
<1> QED
  BY <1>2, <1>3 DEF t

\* What it is for one sequence to begin another
LEMMA PrefixMeans ==
  ASSUME NEW a \in Seq(Character), NEW b \in Seq(Character)
  PROVE  IsPrefix(a, b) <=> Len(a) <= Len(b) /\ \A i \in 1 .. Len(a) : a[i] = b[i]
<1>1. SubSeq(a, 1, Len(a)) \in Seq(Character) /\ Len(SubSeq(a, 1, Len(a))) = Len(a)
  OBVIOUS
<1>2. \A i \in 1 .. Len(a) : SubSeq(a, 1, Len(a))[i] = a[i]
  OBVIOUS
<1>3. ASSUME Len(a) <= Len(b)
      PROVE  /\ SubSeq(b, 1, Len(a)) \in Seq(Character) /\ Len(SubSeq(b, 1, Len(a))) = Len(a)
             /\ \A i \in 1 .. Len(a) : SubSeq(b, 1, Len(a))[i] = b[i]
  BY <1>3
<1> QED
  BY <1>1, <1>2, <1>3 DEF IsPrefix

------------------------------------------------------------------------------
(***************************************************************************)
(* longestMatch.                                                           *)
(***************************************************************************)

\* A turn of longestMatch keeps the types of its variables.
LEMMA NarrowShape ==
  ASSUME NEW options \in SUBSET Seq(Character),
         NEW st \in [skipList: SUBSET options, match: Seq(Character)],
         NEW value \in Seq(Character)
  PROVE  Narrow(options, st, value) \in [skipList: SUBSET options, match: Seq(Character)]
BY DEF Narrow

\* The options are struck off one character after the other.
LEMMA LongestMatchLoop ==
  ASSUME NEW s \in Seq(Character), NEW ic \in At(s), NEW options \in SUBSET Seq(Character)
  PROVE  \E loop \in [ic.pointer .. Len(s) -> [skipList: SUBSET options, match: Seq(Character)]] :
           /\ loop[ic.pointer] = [skipList |-> {}, match |-> <<>>]
           /\ \A q \in ic.pointer .. (Len(s) - 1) :
                loop[q + 1] = Narrow(options, loop[q], ToLower(Text(s, ic.pointer, q + 1)))
           /\ LongestMatch(s, ic, options) = loop[Len(s)].match
<1> DEFINE p == ic.pointer
           n == Len(s)
           S == [skipList: SUBSET options, match: Seq(Character)]
           base == [skipList |-> {}, match |-> <<>>]
           Turn(st, q) == Narrow(options, st, ToLower(Text(s, p, q + 1)))
           Value(f, q) == IF q = p THEN base
                          ELSE CHOOSE r \in {Turn(st, q - 1) : st \in {f[q - 1]}} : TRUE
           loop == CHOOSE f : f = [q \in p .. n |-> Value(f, q)]
<1>1. LongestMatch(s, ic, options) = loop[n].match
  BY Zenon DEF LongestMatch, Scan
<1>2. p \in Nat /\ n \in Nat /\ p < n /\ base \in S
  BY DEF At, Cursor
<1>3. \A f, q : q # p => Value(f, q) = Turn(f[q - 1], q - 1)
  OBVIOUS
<1>4. \A st \in S, q \in p .. (n - 1) : Turn(st, q) \in S
  <2> TAKE st \in S, q \in p .. (n - 1)
  <2>1. p \in 0 .. Len(s) /\ q + 1 \in p .. Len(s)
    BY <1>2
  <2>2. ToLower(Text(s, p, q + 1)) \in Seq(Character)
    BY <2>1, ReadShape
  <2> QED
    BY <2>2, NarrowShape
<1>5. PICK g \in [p .. n -> S] :
        g[p] = base /\ \A q \in p .. (n - 1) : g[q + 1] = Turn(g[q], q)
  <2> DEFINE turn == [x \in S \X (p .. n) |-> IF x[2] < n THEN Turn(x[1], x[2]) ELSE base]
  <2>1. turn \in [S \X (p .. n) -> S]
    BY <1>2, <1>4
  <2>2. PICK g \in [p .. n -> S] : Turns(g, p, n, base, turn)
    <3>1. p \in Int /\ n \in Int /\ p <= n /\ base \in S
      BY <1>2
    <3> HIDE DEF turn, S, base, p, n
    <3> QED
      BY <3>1, <2>1, Iterates
  <2>3. \A q \in p .. (n - 1) : turn[<<g[q], q>>] = Turn(g[q], q)
    BY <1>2
  <2> HIDE DEF turn
  <2> QED
    BY <2>2, <2>3 DEF Turns
<1> HIDE DEF Turn
<1>6. g = [q \in p .. n |-> Value(g, q)]
  <2>1. \A q \in p .. n : g[q] = Value(g, q)
    BY <1>2, <1>3, <1>5
  <2> HIDE DEF Value
  <2> QED
    BY <1>5, <2>1
<1>7. loop = [q \in p .. n |-> Value(loop, q)]
  <2> HIDE DEF Value
  <2> QED
    BY <1>6
<1> HIDE DEF loop
<1>8. loop[p] = base /\ \A q \in p .. (n - 1) : loop[q + 1] = Turn(loop[q], q)
  <2>1. p \in p .. n /\ \A q \in p .. (n - 1) : q + 1 \in p .. n /\ q + 1 # p /\ (q + 1) - 1 = q
    BY <1>2
  <2>2. \A q \in p .. n : loop[q] = Value(loop, q)
    <3> HIDE DEF Value
    <3> QED
      BY <1>7
  <2>3. loop[p] = Value(loop, p)
    BY <2>1, <2>2
  <2>4. \A q \in p .. (n - 1) : loop[q + 1] = Value(loop, q + 1)
    BY <2>1, <2>2
  <2>5. \A q \in p .. (n - 1) : Value(loop, q + 1) = Turn(loop[q], q)
    BY <1>3, <2>1
  <2> QED
    BY <2>3, <2>4, <2>5
<1>9. \A q \in p .. n : q \in {k \in p .. n : loop[k] \in S}
  <2> DEFINE Q == {k \in p .. n : loop[k] \in S}
  <2>1. p \in Q
    <3> HIDE DEF S, base
    <3> QED
      BY <1>2, <1>8
  <2>2. ASSUME NEW q \in p .. (n - 1), q \in Q PROVE q + 1 \in Q
    <3>1. loop[q] \in S /\ q + 1 \in p .. n
      BY <1>2, <2>2
    <3>2. loop[q + 1] \in S
      <4> HIDE DEF S
      <4> QED
        BY <1>4, <1>8, <3>1
    <3> QED
      BY <3>1, <3>2
  <2>3. p \in Int /\ n \in Int
    BY <1>2
  <2>4. \A q \in p .. n : q \in Q
    <3> HIDE DEF Q, p, n
    <3> QED
      BY <2>1, <2>2, <2>3, Upwards
  <2> QED
    BY <2>4
<1>10. loop \in [p .. n -> S]
  <2> HIDE DEF Value, S
  <2> QED
    BY <1>7, <1>9
<1> QED
  BY <1>1, <1>8, <1>10 DEF Turn

(***************************************************************************)
(* longestMatch when the text up to q has been read: the match is an       *)
(* option that is there, none that is there and not longer than the text   *)
(* read is longer than it, and no longer one that is there is struck off.  *)
(***************************************************************************)
MatchedUpTo(s, p, options, st, q) ==
  /\ st.match = <<>> \/ (st.match \in options /\ ReadsAt(s, p, st.match))
  /\ \A o \in options : ReadsAt(s, p, o) =>
       IF p + Len(o) <= q THEN Len(o) <= Len(st.match) ELSE o \notin st.skipList
  /\ p + Len(st.match) <= q

\* One more character.
LEMMA NarrowMatches ==
  ASSUME NEW s \in Seq(Character), NEW p \in Nat, NEW q \in p .. (Len(s) - 1),
         NEW options \in SUBSET Seq(Character),
         NEW st \in [skipList: SUBSET options, match: Seq(Character)],
         MatchedUpTo(s, p, options, st, q)
  PROVE  MatchedUpTo(s, p, options, Narrow(options, st, ToLower(Text(s, p, q + 1))), q + 1)
<1> DEFINE value == ToLower(Text(s, p, q + 1))
           next == Narrow(options, st, value)
           left == options \ st.skipList
<1>1. /\ value \in Seq(Character) /\ Len(value) = q + 1 - p
      /\ \A i \in 1 .. (q + 1 - p) : value[i] = Low(s[p + i])
  <2>1. p \in 0 .. Len(s) /\ q + 1 \in p .. Len(s)
    OBVIOUS
  <2> QED
    BY <2>1, ReadShape
<1> HIDE DEF value
<1>2. /\ next.skipList = st.skipList \cup {o \in left : o = value \/ ~IsPrefix(value, o)}
      /\ next.match = IF value \in left /\ Len(value) > Len(st.match) THEN value ELSE st.match
  BY DEF Narrow
<1> HIDE DEF next
<1>3. ReadsAt(s, p, value)
  BY <1>1 DEF ReadsAt
<1>4. \A o \in options : ReadsAt(s, p, o) /\ Len(o) = Len(value) => o = value
  <2> SUFFICES ASSUME NEW o \in options, ReadsAt(s, p, o), Len(o) = Len(value) PROVE o = value
    OBVIOUS
  <2>1. o \in Seq(Character) /\ \A i \in 1 .. Len(o) : o[i] = value[i]
    BY <1>1 DEF ReadsAt
  <2> QED
    BY <1>1, <2>1
<1>5. \A o \in options : ReadsAt(s, p, o) /\ Len(o) >= Len(value) => IsPrefix(value, o)
  <2> SUFFICES ASSUME NEW o \in options, ReadsAt(s, p, o), Len(o) >= Len(value)
               PROVE  IsPrefix(value, o)
    OBVIOUS
  <2>1. o \in Seq(Character) /\ \A i \in 1 .. Len(value) : o[i] = value[i]
    BY <1>1 DEF ReadsAt
  <2> QED
    BY <1>1, <2>1, PrefixMeans
<1>6. next.match = <<>> \/ (next.match \in options /\ ReadsAt(s, p, next.match))
  BY <1>2, <1>3 DEF MatchedUpTo
<1>7. p + Len(next.match) <= q + 1 /\ Len(st.match) <= Len(next.match)
  BY <1>1, <1>2 DEF MatchedUpTo
<1>8. ASSUME NEW o \in options, ReadsAt(s, p, o)
      PROVE  IF p + Len(o) <= q + 1 THEN Len(o) <= Len(next.match)
             ELSE o \notin next.skipList
  <2>0. o \in Seq(Character) /\ Len(o) \in Nat /\ Len(next.match) \in Nat
    BY <1>1, <1>2
  <2>1. CASE p + Len(o) <= q
    BY <2>0, <2>1, <1>7, <1>8 DEF MatchedUpTo
  <2>2. CASE p + Len(o) = q + 1
    <3>1. o = value /\ o \in left
      BY <2>0, <2>2, <1>1, <1>4, <1>8 DEF MatchedUpTo
    <3> QED
      BY <2>0, <2>2, <3>1, <1>1, <1>2
  <2>3. CASE p + Len(o) > q + 1
    <3>1. o \notin st.skipList
      BY <2>0, <2>3, <1>8 DEF MatchedUpTo
    <3>2. o # value /\ IsPrefix(value, o)
      BY <2>0, <2>3, <1>1, <1>5, <1>8
    <3> QED
      BY <2>0, <2>3, <3>1, <3>2, <1>2
  <2> QED
    BY <2>0, <2>1, <2>2, <2>3
<1> QED
  BY <1>6, <1>7, <1>8 DEF MatchedUpTo, next, value

(***************************************************************************)
(* longestMatch finds the longest of the options that are there, whatever  *)
(* others are struck off on the way.                                       *)
(***************************************************************************)
LEMMA LongestMatchLongest ==
  ASSUME NEW s \in Seq(Character), NEW ic \in At(s),
         NEW options \in SUBSET (Seq(Character) \ {<<>>})
  PROVE  LET match == LongestMatch(s, ic, options)
         IN  /\ match = <<>> \/ (match \in options /\ ReadsAt(s, ic.pointer, match))
             /\ \A o \in options : ReadsAt(s, ic.pointer, o) => Len(o) <= Len(match)
<1> DEFINE p == ic.pointer
           n == Len(s)
<1>1. p \in Nat /\ n \in Nat /\ p < n
  BY DEF At, Cursor
<1>2. PICK loop \in [p .. n -> [skipList: SUBSET options, match: Seq(Character)]] :
        /\ loop[p] = [skipList |-> {}, match |-> <<>>]
        /\ \A q \in p .. (n - 1) :
             loop[q + 1] = Narrow(options, loop[q], ToLower(Text(s, p, q + 1)))
        /\ LongestMatch(s, ic, options) = loop[n].match
  BY LongestMatchLoop
<1> DEFINE Q == {q \in p .. n : MatchedUpTo(s, p, options, loop[q], q)}
<1>3. p \in Q
  <2>1. \A o \in options : Len(o) > 0
    OBVIOUS
  <2>2. loop[p].match = <<>> /\ loop[p].skipList = {}
    BY <1>2
  <2>3. MatchedUpTo(s, p, options, loop[p], p)
    BY <1>1, <2>1, <2>2 DEF MatchedUpTo
  <2> QED
    BY <1>1, <2>3
<1>4. ASSUME NEW q \in p .. (n - 1), q \in Q PROVE q + 1 \in Q
  <2>1. loop[q] \in [skipList: SUBSET options, match: Seq(Character)]
    BY <1>1
  <2> DEFINE st == loop[q]
  <2> HIDE DEF p, n, Q
  <2>2. MatchedUpTo(s, p, options, st, q) /\ q \in p .. (Len(s) - 1)
    BY <1>1, <1>4 DEF Q, n
  <2>3. options \in SUBSET Seq(Character)
    OBVIOUS
  <2>4. MatchedUpTo(s, p, options, Narrow(options, st, ToLower(Text(s, p, q + 1))), q + 1)
    <3> HIDE DEF st
    <3> QED
      BY <1>1, <2>1, <2>2, <2>3, NarrowMatches DEF st
  <2>5. MatchedUpTo(s, p, options, loop[q + 1], q + 1)
    BY <1>2, <2>4
  <2> QED
    BY <1>1, <2>5 DEF Q
<1>5. n \in Q
  <2>1. \A q \in p .. n : q \in Q
    <3>1. p \in Int /\ n \in Int
      BY <1>1
    <3> HIDE DEF Q, p, n
    <3> QED
      BY <1>3, <1>4, <3>1, Upwards
  <2> QED
    BY <1>1, <2>1
<1>6. \A o \in options : ReadsAt(s, p, o) => p + Len(o) <= n
  BY DEF ReadsAt
<1> QED
  BY <1>1, <1>2, <1>5, <1>6 DEF MatchedUpTo

------------------------------------------------------------------------------
(***************************************************************************)
(* lexNumeric.                                                             *)
(***************************************************************************)

NumericStates ==
  [going: BOOLEAN, ok: BOOLEAN, cur: Cursor, periodFound: BOOLEAN, expMarkerFound: BOOLEAN]

\* Advance gives a cursor further on.
LEMMA AdvanceShape ==
  ASSUME NEW ic \in Cursor, NEW n \in Nat
  PROVE  /\ Advance(ic, n) \in Cursor
         /\ Advance(ic, n).pointer = ic.pointer + n
<1>1. ic.pointer + n \in Nat /\ ic.col + n \in Nat
  BY DEF Cursor
<1>2. \A a, b \in Nat : LET jc == [ic EXCEPT !.pointer = a, !.col = b]
                       IN  jc \in Cursor /\ jc.pointer = a
  BY DEF Cursor
<1> QED
  BY <1>1, <1>2, Zenon DEF Advance

\* Advance stays on the line.
LEMMA AdvanceOnLine ==
  ASSUME NEW ic \in Cursor, NEW n \in Nat
  PROVE  OnLine(ic, Advance(ic, n))
<1>1. ic.pointer \in Nat /\ ic.col \in Nat /\ ic.line \in Nat
  BY DEF Cursor
<1>2. /\ Advance(ic, n).pointer = ic.pointer + n /\ Advance(ic, n).col = ic.col + n
      /\ Advance(ic, n).line = ic.line
  <2>1. \A a, b \in Nat : LET jc == [ic EXCEPT !.pointer = a, !.col = b]
                          IN  jc.pointer = a /\ jc.col = b /\ jc.line = ic.line
    BY DEF Cursor
  <2>2. ic.pointer + n \in Nat /\ ic.col + n \in Nat
    BY <1>1
  <2> QED
    BY <2>1, <2>2, Zenon DEF Advance
<1> QED
  BY <1>1, <1>2 DEF OnLine

\* Further on the line, and further still
LEMMA OnLineOn ==
  ASSUME NEW ic \in Cursor, NEW jc \in Cursor, NEW kc \in Cursor,
         OnLine(ic, jc), OnLine(jc, kc)
  PROVE  OnLine(ic, kc)
BY DEF OnLine, Cursor

\* A turn of the loop rejects, ends the number, leaves it as it is, or goes on
\* by no more than there are characters.
NumericTurn(s, ic, st, q, next) ==
  /\ next \in NumericStates
  /\ \/ ~next.ok
     \/ next.ok = st.ok /\ next.cur.pointer = st.cur.pointer /\ q # ic.pointer
     \/ next = st /\ (~st.going \/ q < st.cur.pointer)
     \/ /\ next.ok = st.ok /\ st.cur.pointer <= q
        /\ next.cur.pointer \in {st.cur.pointer + 1, st.cur.pointer + 2}
        /\ next.cur.pointer <= Len(s)

\* A turn of lexNumeric is one of those.
LEMMA NumericStepTurns ==
  ASSUME NEW s \in Seq(Character), NEW ic \in At(s), NEW st \in NumericStates,
         NEW q \in ic.pointer .. (Len(s) - 1)
  PROVE  NumericTurn(s, ic, st, q, NumericStep(s, ic, st, q))
<1> DEFINE p == ic.pointer
           c == Char(s, q)
           next == NumericStep(s, ic, st, q)
<1>1. \A n \in Nat : /\ Scanned(st, n) \in NumericStates
                     /\ Scanned(st, n).ok = st.ok
                     /\ Scanned(st, n).cur.pointer = st.cur.pointer + n
  BY AdvanceShape DEF Scanned, NumericStates
<1>2. \A b \in BOOLEAN, u \in NumericStates :
        LET v == [u EXCEPT !.periodFound = b]
        IN  v \in NumericStates /\ v.ok = u.ok /\ v.cur = u.cur
  BY DEF NumericStates
<1>3. \A u \in NumericStates :
        LET v == [u EXCEPT !.periodFound = TRUE, !.expMarkerFound = TRUE]
        IN  v \in NumericStates /\ v.ok = u.ok /\ v.cur = u.cur
  BY DEF NumericStates
<1> DEFINE Goes(v, n) == /\ v \in NumericStates
                         /\ v.ok = st.ok /\ v.cur.pointer = st.cur.pointer + n
<1>10. \A n \in Nat : Goes(Scanned(st, n), n)
  BY <1>1
<1>11. \A n \in Nat, b \in BOOLEAN : Goes([Scanned(st, n) EXCEPT !.periodFound = b], n)
  BY <1>1, <1>2, Zenon
<1>12. \A n \in Nat :
         Goes([Scanned(st, n) EXCEPT !.periodFound = TRUE, !.expMarkerFound = TRUE], n)
  BY <1>1, <1>3, Zenon
<1>13. 1 \in Nat /\ 2 \in Nat /\ TRUE \in BOOLEAN
  OBVIOUS
<1>4. /\ EndNumber(st) \in NumericStates
      /\ EndNumber(st).ok = st.ok /\ EndNumber(st).cur.pointer = st.cur.pointer
  <2>1. [st.cur EXCEPT !.col = @ + 1] \in Cursor
    BY DEF NumericStates, Cursor
  <2>2. [st.cur EXCEPT !.col = @ + 1].pointer = st.cur.pointer
    BY DEF NumericStates, Cursor
  <2>3. \A jc \in Cursor : LET v == [st EXCEPT !.going = FALSE, !.cur = jc]
                          IN  v \in NumericStates /\ v.ok = st.ok /\ v.cur = jc
    BY DEF NumericStates
  <2>4. EndNumber(st) = [st EXCEPT !.going = FALSE, !.cur = [st.cur EXCEPT !.col = @ + 1]]
    BY DEF EndNumber, NumericStates
  <2> QED
    BY <2>1, <2>2, <2>3, <2>4, Zenon
<1>5. Rejected(st) \in NumericStates /\ ~Rejected(st).ok
  BY DEF Rejected, NumericStates
<1>6. p \in Nat /\ Len(s) \in Nat /\ st.cur.pointer \in Nat
  BY DEF At, Cursor, NumericStates
<1> SUFFICES NumericTurn(s, ic, st, q, next)
  OBVIOUS
<1> HIDE DEF next
<1>7. CASE ~st.going \/ q < st.cur.pointer
  <2>1. next = st
    BY <1>7 DEF NumericStep, next
  <2> QED
    BY <1>7, <2>1 DEF NumericTurn
<1>8. CASE st.going /\ ~(q < st.cur.pointer) /\ q = p
  <2>1. \/ next = Rejected(st)
        \/ next = [Scanned(st, 1) EXCEPT !.periodFound = c = "."]
    BY <1>8 DEF NumericStep, next
  <2>2. (c = ".") \in BOOLEAN
    OBVIOUS
  <2>3. next = Rejected(st) \/ Goes(next, 1)
    BY <1>11, <1>13, <2>1, <2>2, Zenon
  <2> QED
    BY <1>5, <1>6, <1>8, <2>3 DEF NumericTurn
<1>9. CASE st.going /\ ~(q < st.cur.pointer) /\ q # p
  <2>1. \/ next = Rejected(st)
        \/ next = EndNumber(st)
        \/ next = Scanned(st, 1)
        \/ next = [Scanned(st, 1) EXCEPT !.periodFound = TRUE]
        \/ next = [Scanned(st, 1) EXCEPT !.periodFound = TRUE, !.expMarkerFound = TRUE]
        \/ /\ q # Len(s) - 1
           /\ next = [Scanned(st, 2) EXCEPT !.periodFound = TRUE, !.expMarkerFound = TRUE]
    <3> DEFINE dot == IF st.periodFound THEN Rejected(st)
                      ELSE [Scanned(st, 1) EXCEPT !.periodFound = TRUE]
               signed == Char(s, q + 1) \in {"-", "+"}
               exponent == IF st.expMarkerFound \/ q = Len(s) - 1 THEN Rejected(st)
                           ELSE [Scanned(st, IF signed THEN 2 ELSE 1)
                                   EXCEPT !.periodFound = TRUE, !.expMarkerFound = TRUE]
    <3>1. next = CASE c = "." -> dot [] c = "e" -> exponent
                   [] c \in Digits -> Scanned(st, 1) [] OTHER -> EndNumber(st)
      BY <1>9 DEF NumericStep, next
    <3>2. dot = Rejected(st) \/ dot = [Scanned(st, 1) EXCEPT !.periodFound = TRUE]
      BY Zenon
    <3>3. \/ exponent = Rejected(st)
          \/ exponent = [Scanned(st, 1) EXCEPT !.periodFound = TRUE, !.expMarkerFound = TRUE]
          \/ /\ q # Len(s) - 1
             /\ exponent = [Scanned(st, 2) EXCEPT !.periodFound = TRUE, !.expMarkerFound = TRUE]
      BY Zenon
    <3> HIDE DEF dot, exponent
    <3>4. next \in {dot, exponent, Scanned(st, 1), EndNumber(st)}
      BY <3>1
    <3> QED
      BY <3>2, <3>3, <3>4, Zenon
  <2>2. CASE next = Rejected(st)
    BY <1>5, <2>2 DEF NumericTurn
  <2>3. CASE next = EndNumber(st)
    BY <1>4, <1>9, <2>3 DEF NumericTurn
  <2>4. CASE Goes(next, 1)
    BY <1>6, <1>9, <2>4 DEF NumericTurn
  <2>5. CASE q # Len(s) - 1 /\ Goes(next, 2)
    <3>1. q \in p .. (Len(s) - 1) /\ p \in Nat /\ Len(s) \in Nat
      BY <1>6
    <3>2. q + 2 <= Len(s)
      BY ONLY <2>5, <3>1
    <3> QED
      BY <1>6, <1>9, <2>5, <3>2 DEF NumericTurn
  <2>6. \/ next = Rejected(st) \/ next = EndNumber(st)
        \/ Goes(next, 1)
        \/ q # Len(s) - 1 /\ Goes(next, 2)
    <3>1. ASSUME next = Scanned(st, 1) PROVE Goes(next, 1)
      BY <1>10, <3>1
    <3>2. ASSUME next = [Scanned(st, 1) EXCEPT !.periodFound = TRUE] PROVE Goes(next, 1)
      BY <1>11, <3>2
    <3>3. ASSUME next = [Scanned(st, 1) EXCEPT !.periodFound = TRUE, !.expMarkerFound = TRUE]
          PROVE  Goes(next, 1)
      BY <1>12, <3>3
    <3>4. ASSUME next = [Scanned(st, 2) EXCEPT !.periodFound = TRUE, !.expMarkerFound = TRUE]
          PROVE  Goes(next, 2)
      BY <1>12, <3>4
    <3> QED
      BY ONLY <2>1, <3>1, <3>2, <3>3, <3>4, Zenon
  <2> QED
    BY <2>2, <2>3, <2>4, <2>5, <2>6
<1> QED
  BY <1>7, <1>8, <1>9 DEF next

\* The loop of lexNumeric
LEMMA NumericLoop ==
  ASSUME NEW s \in Seq(Character), NEW ic \in At(s)
  PROVE  \E loop \in [ic.pointer .. Len(s) -> NumericStates] :
           /\ loop[ic.pointer] = [going |-> TRUE, ok |-> TRUE, cur |-> ic,
                                  periodFound |-> FALSE, expMarkerFound |-> FALSE]
           /\ \A q \in ic.pointer .. (Len(s) - 1) : loop[q + 1] = NumericStep(s, ic, loop[q], q)
           /\ LexNumeric(s, ic) =
                IF loop[Len(s)].ok
                THEN Accept(Token(Text(s, ic.pointer, loop[Len(s)].cur.pointer), "numeric", ic),
                            loop[Len(s)].cur)
                ELSE Reject
<1> DEFINE p == ic.pointer
           n == Len(s)
           base == [going |-> TRUE, ok |-> TRUE, cur |-> ic,
                                  periodFound |-> FALSE, expMarkerFound |-> FALSE]
           Turn(st, q) == NumericStep(s, ic, st, q)
           Value(f, q) == IF q = p THEN base
                          ELSE CHOOSE r \in {Turn(st, q - 1) : st \in {f[q - 1]}} : TRUE
           loop == CHOOSE f : f = [q \in p .. n |-> Value(f, q)]
<1>1. LexNumeric(s, ic) =
                IF loop[n].ok
                THEN Accept(Token(Text(s, ic.pointer, loop[n].cur.pointer), "numeric", ic),
                            loop[n].cur)
                ELSE Reject
  BY Zenon DEF LexNumeric, Scan
<1>2. p \in Nat /\ n \in Nat /\ p <= n /\ base \in NumericStates
  BY DEF At, Cursor, NumericStates
<1>3. \A f, q : q # p => Value(f, q) = Turn(f[q - 1], q - 1)
  OBVIOUS
<1>4. \A st \in NumericStates, q \in p .. (n - 1) : Turn(st, q) \in NumericStates
  BY NumericStepTurns DEF NumericTurn
<1>5. PICK g \in [p .. n -> NumericStates] :
        g[p] = base /\ \A q \in p .. (n - 1) : g[q + 1] = Turn(g[q], q)
  <2> DEFINE turn == [x \in NumericStates \X (p .. n) |-> IF x[2] < n THEN Turn(x[1], x[2]) ELSE base]
  <2>1. turn \in [NumericStates \X (p .. n) -> NumericStates]
    BY <1>2, <1>4
  <2>2. PICK g \in [p .. n -> NumericStates] : Turns(g, p, n, base, turn)
    <3>1. p \in Int /\ n \in Int /\ p <= n /\ base \in NumericStates
      BY <1>2
    <3> HIDE DEF turn, base, p, n
    <3> QED
      BY <3>1, <2>1, Iterates
  <2>3. \A q \in p .. (n - 1) : turn[<<g[q], q>>] = Turn(g[q], q)
    BY <1>2
  <2> HIDE DEF turn
  <2> QED
    BY <2>2, <2>3 DEF Turns
<1> HIDE DEF Turn
<1>6. g = [q \in p .. n |-> Value(g, q)]
  <2>1. \A q \in p .. n : g[q] = Value(g, q)
    BY <1>2, <1>3, <1>5
  <2> HIDE DEF Value
  <2> QED
    BY <1>5, <2>1
<1>7. loop = [q \in p .. n |-> Value(loop, q)]
  <2> HIDE DEF Value
  <2> QED
    BY <1>6
<1> HIDE DEF loop
<1>8. loop[p] = base /\ \A q \in p .. (n - 1) : loop[q + 1] = Turn(loop[q], q)
  <2>1. p \in p .. n /\ \A q \in p .. (n - 1) : q + 1 \in p .. n /\ q + 1 # p /\ (q + 1) - 1 = q
    BY <1>2
  <2>2. \A q \in p .. n : loop[q] = Value(loop, q)
    <3> HIDE DEF Value
    <3> QED
      BY <1>7
  <2>3. loop[p] = Value(loop, p)
    BY <2>1, <2>2
  <2>4. \A q \in p .. (n - 1) : loop[q + 1] = Value(loop, q + 1)
    BY <2>1, <2>2
  <2>5. \A q \in p .. (n - 1) : Value(loop, q + 1) = Turn(loop[q], q)
    BY <1>3, <2>1
  <2> QED
    BY <2>3, <2>4, <2>5
<1>9. \A q \in p .. n : loop[q] \in NumericStates
  <2> DEFINE Q == {k \in p .. n : loop[k] \in NumericStates}
  <2>1. p \in Q
    <3> HIDE DEF base
    <3> QED
      BY <1>2, <1>8
  <2>2. ASSUME NEW q \in p .. (n - 1), q \in Q PROVE q + 1 \in Q
    <3>1. loop[q] \in NumericStates /\ q + 1 \in p .. n
      BY <1>2, <2>2
    <3>2. loop[q + 1] \in NumericStates
      BY <1>4, <1>8, <3>1
    <3> QED
      BY <3>1, <3>2
  <2>3. p \in Int /\ n \in Int
    BY <1>2
  <2>4. \A q \in p .. n : q \in Q
    <3> HIDE DEF Q, p, n
    <3> QED
      BY <2>1, <2>2, <2>3, Upwards
  <2> QED
    BY <2>4
<1>10. loop \in [p .. n -> NumericStates]
  <2> HIDE DEF Value
  <2> QED
    BY <1>7, <1>9
<1> QED
  BY <1>1, <1>8, <1>10 DEF Turn

\* A number has at least one character, and they are all in the text.
LEMMA NumericWithin ==
  ASSUME NEW s \in Seq(Character), NEW ic \in At(s)
  PROVE  \E end \in NumericStates :
           /\ LexNumeric(s, ic) =
                IF end.ok
                THEN Accept(Token(Text(s, ic.pointer, end.cur.pointer), "numeric", ic), end.cur)
                ELSE Reject
           /\ end.ok => ic.pointer < end.cur.pointer /\ end.cur.pointer <= Len(s)
<1> DEFINE p == ic.pointer
           n == Len(s)
<1>1. p \in Nat /\ n \in Nat /\ p < n
  BY DEF At, Cursor
<1>2. PICK loop \in [p .. n -> NumericStates] :
        /\ loop[p] = [going |-> TRUE, ok |-> TRUE, cur |-> ic,
                      periodFound |-> FALSE, expMarkerFound |-> FALSE]
        /\ \A q \in p .. (n - 1) : loop[q + 1] = NumericStep(s, ic, loop[q], q)
        /\ LexNumeric(s, ic) =
             IF loop[n].ok
             THEN Accept(Token(Text(s, p, loop[n].cur.pointer), "numeric", ic), loop[n].cur)
             ELSE Reject
  BY NumericLoop
<1> DEFINE Within(st, q) ==
      st.ok => /\ p <= st.cur.pointer /\ st.cur.pointer <= n
               /\ q = p => st.going /\ st.cur.pointer = p
               /\ q # p => p < st.cur.pointer
           Q == {q \in p .. n : Within(loop[q], q)}
<1>3. p \in Q
  BY <1>1, <1>2
<1>4. ASSUME NEW q \in p .. (n - 1), q \in Q PROVE q + 1 \in Q
  <2> DEFINE st == loop[q]
             next == loop[q + 1]
  <2>1. st \in NumericStates /\ Within(st, q) /\ q + 1 \in p .. n /\ q + 1 # p
    BY <1>1, <1>4
  <2>2. NumericTurn(s, ic, st, q, next)
    BY <1>1, <1>2, <2>1, NumericStepTurns
  <2>3. st.cur.pointer \in Nat /\ next.cur.pointer \in Nat
    BY <2>1, <2>2 DEF NumericTurn, NumericStates, Cursor
  <2>4. Within(next, q + 1)
    <3>1. \/ ~next.ok
          \/ next.cur.pointer = st.cur.pointer /\ q # p
          \/ next.cur.pointer = st.cur.pointer /\ (~st.going \/ q < st.cur.pointer)
          \/ /\ st.cur.pointer < next.cur.pointer
             /\ next.cur.pointer <= n
      <4> HIDE DEF st, next
      <4>1. \/ ~next.ok
            \/ next.cur.pointer = st.cur.pointer /\ q # ic.pointer
            \/ next = st /\ (~st.going \/ q < st.cur.pointer)
            \/ /\ next.cur.pointer \in {st.cur.pointer + 1, st.cur.pointer + 2}
               /\ next.cur.pointer <= Len(s)
        BY ONLY <2>2 DEF NumericTurn
      <4>2. next.cur.pointer \in {st.cur.pointer + 1, st.cur.pointer + 2}
              => st.cur.pointer < next.cur.pointer
        BY ONLY <2>3
      <4> QED
        BY ONLY <4>1, <4>2, p = ic.pointer, n = Len(s)
    <3>2. next.ok => st.ok
      BY <2>2 DEF NumericTurn
    <3>3. p \in Int /\ n \in Int /\ q \in Int
      BY <1>1
    <3> HIDE DEF st, next
    <3>4. ASSUME next.ok PROVE p < next.cur.pointer /\ next.cur.pointer <= n
      <4>1. /\ p <= st.cur.pointer /\ st.cur.pointer <= n
            /\ q = p => st.going /\ st.cur.pointer = p
            /\ q # p => p < st.cur.pointer
        BY <2>1, <3>2, <3>4
      <4> QED
        BY ONLY <2>3, <3>1, <3>3, <3>4, <4>1
    <3>5. ASSUME next.ok PROVE p <= next.cur.pointer
      BY ONLY <2>3, <3>3, <3>4, <3>5
    <3> QED
      BY <2>1, <3>4, <3>5
  <2> QED
    BY <2>1, <2>4
<1>5. n \in Q
  <2>1. \A q \in p .. n : q \in Q
    <3>1. p \in Int /\ n \in Int
      BY <1>1
    <3> HIDE DEF Q, p, n
    <3> QED
      BY <1>3, <1>4, <3>1, Upwards
  <2> QED
    BY <1>1, <2>1
<1>6. loop[n] \in NumericStates /\ n # p
  BY <1>1
<1> QED
  BY <1>1, <1>2, <1>5, <1>6

------------------------------------------------------------------------------
(***************************************************************************)
(* lexCharacterDelimited.                                                  *)
(***************************************************************************)

DelimitedStates == [closed: BOOLEAN, cur: Cursor, value: Seq(Character)]

\* A turn of the loop leaves everything as it is, takes a character, takes a
\* doubled delimiter, or meets the one that closes the text.
DelimitedTurn(s, delimiter, st, q, next) ==
  \/ next = st /\ (st.closed \/ q < st.cur.pointer)
  \/ /\ ~st.closed /\ st.cur.pointer <= q
     /\ \/ /\ ~next.closed /\ next.cur.pointer = st.cur.pointer + 1
           /\ next.value = Append(st.value, s[q + 1])
        \/ /\ q + 1 < Len(s) /\ s[q + 1] = delimiter /\ s[q + 2] = delimiter
           /\ ~next.closed /\ next.cur.pointer = st.cur.pointer + 2
           /\ next.value = st.value \o <<delimiter, delimiter>>
        \/ /\ s[q + 1] = delimiter
           /\ next.closed /\ next.cur.pointer = st.cur.pointer + 1
           /\ next.value = st.value

\* A turn of lexCharacterDelimited is one of those.
LEMMA DelimitedStepTurns ==
  ASSUME NEW s \in Seq(Character), NEW delimiter \in Character, NEW st \in DelimitedStates,
         NEW q \in Nat, q < Len(s)
  PROVE  /\ DelimitedStep(s, delimiter, st, q) \in DelimitedStates
         /\ DelimitedTurn(s, delimiter, st, q, DelimitedStep(s, delimiter, st, q))
<1> DEFINE c == Char(s, q)
           doubled == q + 1 < Len(s) /\ Char(s, q + 1) = delimiter
           next == DelimitedStep(s, delimiter, st, q)
<1>1. \A n \in Nat : Scanned(st, n) = [st EXCEPT !.cur = Advance(st.cur, n)]
  BY DEF Scanned
<1>2. \A jc \in Cursor, v \in Seq(Character) :
        LET u == [[st EXCEPT !.cur = jc] EXCEPT !.value = v]
        IN  u \in DelimitedStates /\ u.cur = jc /\ u.value = v /\ u.closed = st.closed
  BY DEF DelimitedStates
<1>3. \A jc \in Cursor :
        LET u == [[st EXCEPT !.cur = jc] EXCEPT !.closed = TRUE]
        IN  u \in DelimitedStates /\ u.cur = jc /\ u.value = st.value /\ u.closed = TRUE
  BY DEF DelimitedStates
<1>4. \A n \in Nat : /\ Advance(st.cur, n) \in Cursor
                     /\ Advance(st.cur, n).pointer = st.cur.pointer + n
  BY AdvanceShape DEF DelimitedStates
<1>5. c = s[q + 1] /\ c \in Character /\ Char(s, q + 1) = s[q + 2]
  BY DEF Char
<1>6. Append(st.value, c) \in Seq(Character) /\ st.value \o Escaped(delimiter) \in Seq(Character)
  BY <1>5 DEF DelimitedStates, Escaped
<1>7. st.cur.pointer \in Nat /\ st.value \in Seq(Character) /\ st.closed \in BOOLEAN
  BY DEF DelimitedStates, Cursor
<1>8. 1 \in Nat /\ 2 \in Nat
  OBVIOUS
<1>9. CASE st.closed \/ q < st.cur.pointer
  <2>1. next = st
    BY <1>9 DEF DelimitedStep
  <2> QED
    BY <1>9, <2>1 DEF DelimitedTurn
<1>10. CASE ~(st.closed \/ q < st.cur.pointer) /\ c # delimiter
  <2>1. next = [Scanned(st, 1) EXCEPT !.value = Append(Scanned(st, 1).value, c)]
    BY <1>10, Zenon DEF DelimitedStep
  <2>2. Scanned(st, 1).value = st.value
    BY <1>1 DEF DelimitedStates
  <2>3. next = [[st EXCEPT !.cur = Advance(st.cur, 1)] EXCEPT !.value = Append(st.value, c)]
    BY <1>1, <1>8, <2>1, <2>2, Zenon
  <2>4. /\ next \in DelimitedStates /\ next.cur.pointer = st.cur.pointer + 1
        /\ next.value = Append(st.value, c) /\ next.closed = st.closed
    <3> DEFINE jc == Advance(st.cur, 1)
               v == Append(st.value, c)
    <3>1. jc \in Cursor /\ jc.pointer = st.cur.pointer + 1 /\ v \in Seq(Character)
      BY <1>4, <1>6
    <3>2. next = [[st EXCEPT !.cur = jc] EXCEPT !.value = v]
      BY <2>3
    <3> HIDE DEF jc, v, next
    <3>3. next \in DelimitedStates /\ next.cur = jc /\ next.value = v /\ next.closed = st.closed
      BY <1>2, <3>1, <3>2, Zenon
    <3> QED
      BY <3>1, <3>3 DEF v
  <2> HIDE DEF next
  <2>5. DelimitedTurn(s, delimiter, st, q, next)
    BY <1>5, <1>7, <1>10, <2>4 DEF DelimitedTurn
  <2> QED
    BY <2>4, <2>5 DEF next
<1>11. CASE ~(st.closed \/ q < st.cur.pointer) /\ c = delimiter /\ doubled
  <2>1. next = [Scanned(st, 2) EXCEPT !.value = Scanned(st, 2).value \o Escaped(delimiter)]
    BY <1>11, Zenon DEF DelimitedStep
  <2>2. Scanned(st, 2).value = st.value
    BY <1>1 DEF DelimitedStates
  <2>3. next = [[st EXCEPT !.cur = Advance(st.cur, 2)]
                  EXCEPT !.value = st.value \o Escaped(delimiter)]
    BY <1>1, <1>8, <2>1, <2>2, Zenon
  <2>4. /\ next \in DelimitedStates /\ next.cur.pointer = st.cur.pointer + 2
        /\ next.value = st.value \o Escaped(delimiter) /\ next.closed = st.closed
    <3> DEFINE jc == Advance(st.cur, 2)
               v == st.value \o Escaped(delimiter)
    <3>1. jc \in Cursor /\ jc.pointer = st.cur.pointer + 2 /\ v \in Seq(Character)
      BY <1>4, <1>6
    <3>2. next = [[st EXCEPT !.cur = jc] EXCEPT !.value = v]
      BY <2>3
    <3> HIDE DEF jc, v, next
    <3>3. next \in DelimitedStates /\ next.cur = jc /\ next.value = v /\ next.closed = st.closed
      BY <1>2, <3>1, <3>2, Zenon
    <3> QED
      BY <3>1, <3>3 DEF v
  <2> HIDE DEF next
  <2>5. DelimitedTurn(s, delimiter, st, q, next)
    BY <1>5, <1>7, <1>11, <2>4 DEF DelimitedTurn, Escaped
  <2> QED
    BY <2>4, <2>5 DEF next
<1>12. CASE ~(st.closed \/ q < st.cur.pointer) /\ c = delimiter /\ ~doubled
  <2>1. next = [Scanned(st, 1) EXCEPT !.closed = TRUE]
    BY <1>12, Zenon DEF DelimitedStep
  <2>2. next = [[st EXCEPT !.cur = Advance(st.cur, 1)] EXCEPT !.closed = TRUE]
    BY <1>1, <1>8, <2>1, Zenon
  <2>3. /\ next \in DelimitedStates /\ next.cur.pointer = st.cur.pointer + 1
        /\ next.value = st.value /\ next.closed = TRUE
    <3> DEFINE jc == Advance(st.cur, 1)
    <3>1. jc \in Cursor /\ jc.pointer = st.cur.pointer + 1
      BY <1>4
    <3>2. next = [[st EXCEPT !.cur = jc] EXCEPT !.closed = TRUE]
      BY <2>2
    <3> HIDE DEF jc, next
    <3>3. next \in DelimitedStates /\ next.cur = jc /\ next.value = st.value
          /\ next.closed = TRUE
      BY <1>3, <3>1, <3>2, Zenon
    <3> QED
      BY ONLY <3>1, <3>3
  <2> HIDE DEF next
  <2>4. DelimitedTurn(s, delimiter, st, q, next)
    BY <1>5, <1>7, <1>12, <2>3 DEF DelimitedTurn
  <2> QED
    BY <2>3, <2>4 DEF next
<1> QED
  BY <1>9, <1>10, <1>11, <1>12

\* A turn of lexCharacterDelimited stays on the line, even past a line break.
LEMMA DelimitedStepOnLine ==
  ASSUME NEW s \in Seq(Character), NEW delimiter \in Character, NEW st \in DelimitedStates,
         NEW q \in Nat
  PROVE  OnLine(st.cur, DelimitedStep(s, delimiter, st, q).cur)
<1> DEFINE c == Char(s, q)
           doubled == q + 1 < Len(s) /\ Char(s, q + 1) = delimiter
           next == DelimitedStep(s, delimiter, st, q)
<1>1. st.cur \in Cursor
  BY DEF DelimitedStates
<1>2. OnLine(st.cur, st.cur)
  BY <1>1 DEF OnLine, Cursor
<1>3. \A n \in Nat : /\ Scanned(st, n) = [st EXCEPT !.cur = Advance(st.cur, n)]
                     /\ Scanned(st, n).cur = Advance(st.cur, n)
                     /\ Scanned(st, n) \in DelimitedStates
  BY <1>1, AdvanceShape DEF Scanned, DelimitedStates
<1>4. \A x : \A u \in DelimitedStates : /\ [u EXCEPT !.value = x].cur = u.cur
                                        /\ [u EXCEPT !.closed = x].cur = u.cur
  BY DEF DelimitedStates
<1>5. \/ next = st
      \/ next = [Scanned(st, 1) EXCEPT !.value = Append(Scanned(st, 1).value, c)]
      \/ next = [Scanned(st, 2) EXCEPT !.value = Scanned(st, 2).value \o Escaped(delimiter)]
      \/ next = [Scanned(st, 1) EXCEPT !.closed = TRUE]
  BY Zenon DEF DelimitedStep
<1>6. 1 \in Nat /\ 2 \in Nat
  OBVIOUS
<1>7. next.cur = st.cur \/ next.cur = Advance(st.cur, 1) \/ next.cur = Advance(st.cur, 2)
  <2> DEFINE one == Scanned(st, 1)
             two == Scanned(st, 2)
  <2>1. /\ one \in DelimitedStates /\ one.cur = Advance(st.cur, 1)
        /\ two \in DelimitedStates /\ two.cur = Advance(st.cur, 2)
    BY <1>3, <1>6
  <2>2. \/ next = st
        \/ next = [one EXCEPT !.value = Append(one.value, c)]
        \/ next = [two EXCEPT !.value = two.value \o Escaped(delimiter)]
        \/ next = [one EXCEPT !.closed = TRUE]
    BY <1>5
  <2> DEFINE v == Append(one.value, c)
             w == two.value \o Escaped(delimiter)
  <2> HIDE DEF next, one, two, v, w
  <2>3. next = st \/ next = [one EXCEPT !.value = v] \/ next = [two EXCEPT !.value = w]
          \/ next = [one EXCEPT !.closed = TRUE]
    BY <2>2 DEF v, w
  <2>4. /\ [one EXCEPT !.value = v].cur = one.cur /\ [two EXCEPT !.value = w].cur = two.cur
        /\ [one EXCEPT !.closed = TRUE].cur = one.cur
    BY <1>4, <2>1
  <2> QED
    BY <2>1, <2>3, <2>4
<1> HIDE DEF next
<1>8. OnLine(st.cur, next.cur)
  BY <1>1, <1>2, <1>6, <1>7, AdvanceOnLine
<1> QED
  BY <1>8 DEF next

\* The loop of lexCharacterDelimited
LEMMA DelimitedLoop ==
  ASSUME NEW s \in Seq(Character), NEW ic \in At(s), NEW delimiter \in Character, NEW kind
  PROVE  \E loop \in [Advance(ic, 1).pointer .. Len(s) -> DelimitedStates] :
           /\ loop[Advance(ic, 1).pointer] = [closed |-> FALSE, cur |-> Advance(ic, 1), value |-> <<>>]
           /\ \A q \in Advance(ic, 1).pointer .. (Len(s) - 1) : loop[q + 1] = DelimitedStep(s, delimiter, loop[q], q)
           /\ LexCharacterDelimited(s, ic, delimiter, kind) =
                IF Char(s, ic.pointer) = delimiter /\ loop[Len(s)].closed
                THEN Accept(Token(loop[Len(s)].value, kind, ic), loop[Len(s)].cur)
                ELSE Reject
<1> DEFINE p == Advance(ic, 1).pointer
           n == Len(s)
           base == [closed |-> FALSE, cur |-> Advance(ic, 1), value |-> <<>>]
           Turn(st, q) == DelimitedStep(s, delimiter, st, q)
           Value(f, q) == IF q = p THEN base
                          ELSE CHOOSE r \in {Turn(st, q - 1) : st \in {f[q - 1]}} : TRUE
           loop == CHOOSE f : f = [q \in p .. n |-> Value(f, q)]
<1>1. LexCharacterDelimited(s, ic, delimiter, kind) =
                IF Char(s, ic.pointer) = delimiter /\ loop[n].closed
                THEN Accept(Token(loop[n].value, kind, ic), loop[n].cur)
                ELSE Reject
  BY Zenon DEF LexCharacterDelimited, Scan
<1>2. p \in Nat /\ n \in Nat /\ p <= n /\ base \in DelimitedStates
  <2>1. ic \in Cursor /\ ic.pointer \in Nat /\ Len(s) \in Nat /\ ic.pointer < Len(s)
    BY DEF At, Cursor
  <2>2. Advance(ic, 1) \in Cursor /\ Advance(ic, 1).pointer = ic.pointer + 1
    BY <2>1, AdvanceShape
  <2>3. base \in DelimitedStates
    BY <2>2 DEF DelimitedStates
  <2> QED
    BY <2>1, <2>2, <2>3
<1>3. \A f, q : q # p => Value(f, q) = Turn(f[q - 1], q - 1)
  OBVIOUS
<1>4. \A st \in DelimitedStates, q \in p .. (n - 1) : Turn(st, q) \in DelimitedStates
  BY <1>2, DelimitedStepTurns
<1>5. PICK g \in [p .. n -> DelimitedStates] :
        g[p] = base /\ \A q \in p .. (n - 1) : g[q + 1] = Turn(g[q], q)
  <2> DEFINE turn == [x \in DelimitedStates \X (p .. n) |-> IF x[2] < n THEN Turn(x[1], x[2]) ELSE base]
  <2>1. turn \in [DelimitedStates \X (p .. n) -> DelimitedStates]
    BY <1>2, <1>4
  <2>2. PICK g \in [p .. n -> DelimitedStates] : Turns(g, p, n, base, turn)
    <3>1. p \in Int /\ n \in Int /\ p <= n /\ base \in DelimitedStates
      BY <1>2
    <3> HIDE DEF turn, base, p, n
    <3> QED
      BY <3>1, <2>1, Iterates
  <2>3. \A q \in p .. (n - 1) : turn[<<g[q], q>>] = Turn(g[q], q)
    BY <1>2
  <2> HIDE DEF turn
  <2> QED
    BY <2>2, <2>3 DEF Turns
<1> HIDE DEF Turn
<1>6. g = [q \in p .. n |-> Value(g, q)]
  <2>1. \A q \in p .. n : g[q] = Value(g, q)
    BY <1>2, <1>3, <1>5
  <2> HIDE DEF Value
  <2> QED
    BY <1>5, <2>1
<1>7. loop = [q \in p .. n |-> Value(loop, q)]
  <2> HIDE DEF Value
  <2> QED
    BY <1>6
<1> HIDE DEF loop
<1>8. loop[p] = base /\ \A q \in p .. (n - 1) : loop[q + 1] = Turn(loop[q], q)
  <2>1. p \in p .. n /\ \A q \in p .. (n - 1) : q + 1 \in p .. n /\ q + 1 # p /\ (q + 1) - 1 = q
    BY <1>2
  <2>2. \A q \in p .. n : loop[q] = Value(loop, q)
    <3> HIDE DEF Value
    <3> QED
      BY <1>7
  <2>3. loop[p] = Value(loop, p)
    BY <2>1, <2>2
  <2>4. \A q \in p .. (n - 1) : loop[q + 1] = Value(loop, q + 1)
    BY <2>1, <2>2
  <2>5. \A q \in p .. (n - 1) : Value(loop, q + 1) = Turn(loop[q], q)
    BY <1>3, <2>1
  <2> QED
    BY <2>3, <2>4, <2>5
<1>9. \A q \in p .. n : loop[q] \in DelimitedStates
  <2> DEFINE Q == {k \in p .. n : loop[k] \in DelimitedStates}
  <2>1. p \in Q
    <3> HIDE DEF base
    <3> QED
      BY <1>2, <1>8
  <2>2. ASSUME NEW q \in p .. (n - 1), q \in Q PROVE q + 1 \in Q
    <3>1. loop[q] \in DelimitedStates /\ q + 1 \in p .. n
      BY <1>2, <2>2
    <3>2. loop[q + 1] \in DelimitedStates
      BY <1>4, <1>8, <3>1
    <3> QED
      BY <3>1, <3>2
  <2>3. p \in Int /\ n \in Int
    BY <1>2
  <2>4. \A q \in p .. n : q \in Q
    <3> HIDE DEF Q, p, n
    <3> QED
      BY <2>1, <2>2, <2>3, Upwards
  <2> QED
    BY <2>4
<1>10. loop \in [p .. n -> DelimitedStates]
  <2> HIDE DEF Value
  <2> QED
    BY <1>7, <1>9
<1> QED
  BY <1>1, <1>8, <1>10 DEF Turn

\* The value is the text from position p on, up to the cursor or, once the
\* text is closed, to the delimiter before it.
Spelt(s, delimiter, p, st, q) ==
  LET e == st.cur.pointer
  IN  /\ p <= e /\ e <= Len(s) /\ (st.closed \/ q <= e)
      /\ p + Len(st.value) = IF st.closed THEN e - 1 ELSE e
      /\ \A i \in 1 .. Len(st.value) : st.value[i] = s[p + i]
      /\ st.closed => s[e] = delimiter

\* A sequence of two (for the provers)
LEMMA PairShape ==
  ASSUME NEW S, NEW c \in S
  PROVE  <<c, c>> \in Seq(S)
OBVIOUS

\* A turn keeps the value what the text spells.
LEMMA DelimitedSpelt ==
  ASSUME NEW s \in Seq(Character), NEW delimiter \in Character, NEW p \in Nat,
         NEW q \in p .. (Len(s) - 1), NEW st \in DelimitedStates, NEW next \in DelimitedStates,
         Spelt(s, delimiter, p, st, q), DelimitedTurn(s, delimiter, st, q, next)
  PROVE  Spelt(s, delimiter, p, next, q + 1)
<1> DEFINE e == st.cur.pointer
           f == next.cur.pointer
           v == st.value
           w == next.value
<1>1. e \in Nat /\ f \in Nat /\ v \in Seq(Character) /\ w \in Seq(Character)
  BY DEF DelimitedStates, Cursor
<1>2. /\ p <= e /\ e <= Len(s) /\ (st.closed \/ q <= e)
      /\ p + Len(v) = IF st.closed THEN e - 1 ELSE e
      /\ \A i \in 1 .. Len(v) : v[i] = s[p + i]
      /\ st.closed => s[e] = delimiter
  BY Zenon DEF Spelt
<1>3. SUFFICES /\ p <= f /\ f <= Len(s) /\ (next.closed \/ q + 1 <= f)
               /\ p + Len(w) = IF next.closed THEN f - 1 ELSE f
               /\ \A i \in 1 .. Len(w) : w[i] = s[p + i]
               /\ next.closed => s[f] = delimiter
  BY Zenon DEF Spelt
<1>4. CASE next = st /\ (st.closed \/ q < e)
  <2>1. f = e /\ w = v /\ (next.closed <=> st.closed)
    BY <1>4
  <2>2. st.closed \/ q + 1 <= e
    BY <1>1, <1>4
  <2> HIDE DEF v, w, e, f
  <2> QED
    BY <1>2, <2>1, <2>2
<1>5. CASE /\ ~st.closed /\ e <= q /\ ~next.closed /\ f = e + 1
           /\ w = Append(v, s[q + 1])
  <2>1. e = q /\ p + Len(v) = e
    BY <1>1, <1>2, <1>5
  <2>2. s[q + 1] \in Character
    OBVIOUS
  <2>3. Len(w) = Len(v) + 1 /\ w[Len(v) + 1] = s[q + 1] /\ \A i \in 1 .. Len(v) : w[i] = v[i]
    <3> HIDE DEF v, w, e, f
    <3> QED
      BY <1>1, <1>5, <2>2
  <2> HIDE DEF v, w, e, f
  <2>4. ASSUME NEW i \in 1 .. Len(w) PROVE w[i] = s[p + i]
    <3>1. CASE i = Len(v) + 1
      BY <2>1, <2>3, <3>1
    <3>2. CASE i # Len(v) + 1
      <4>1. i \in 1 .. Len(v)
        BY <1>1, <2>3, <3>2
      <4> QED
        BY <1>2, <2>3, <4>1
    <3> QED
      BY <3>1, <3>2
  <2> QED
    BY <1>1, <1>2, <1>5, <2>1, <2>3, <2>4
<1>6. CASE /\ ~st.closed /\ e <= q /\ ~next.closed /\ f = e + 2
           /\ q + 1 < Len(s) /\ s[q + 1] = delimiter /\ s[q + 2] = delimiter
           /\ w = v \o <<delimiter, delimiter>>
  <2>1. e = q /\ p + Len(v) = e
    <3>1. ~st.closed /\ e <= q
      BY <1>6
    <3>2. e \in Int /\ q \in Int /\ (st.closed \/ q <= e)
          /\ p + Len(v) = IF st.closed THEN e - 1 ELSE e
      <4>1. e \in Int /\ q \in Int
        BY <1>1
      <4> QED
        BY <1>2, <4>1, Zenon
    <3> HIDE DEF v, w, e, f
    <3> QED
      BY ONLY <3>1, <3>2
  <2>2. <<delimiter, delimiter>> \in Seq(Character)
    BY PairShape
  <2>3. /\ Len(w) = Len(v) + 2 /\ w[Len(v) + 1] = delimiter /\ w[Len(v) + 2] = delimiter
        /\ \A i \in 1 .. Len(v) : w[i] = v[i]
    <3> HIDE DEF v, w, e, f
    <3> QED
      BY <1>1, <1>6, <2>2
  <2>4. ASSUME NEW i \in 1 .. Len(w) PROVE w[i] = s[p + i]
    <3>1. /\ p + Len(v) = q /\ Len(v) \in Nat /\ p \in Int /\ q \in Int
          /\ s[q + 1] = delimiter /\ s[q + 2] = delimiter
          /\ \A k \in 1 .. Len(v) : v[k] = s[p + k]
      BY <1>1, <1>2, <1>6, <2>1
    <3> HIDE DEF v, w, e, f
    <3>2. \/ i \in 1 .. Len(v)
          \/ i = Len(v) + 1 /\ p + i = q + 1
          \/ i = Len(v) + 2 /\ p + i = q + 2
      <4>1. Len(v) \in Nat /\ Len(w) = Len(v) + 2 /\ p \in Int /\ q \in Int /\ p + Len(v) = q
        BY ONLY <2>3, <3>1
      <4> QED
        BY ONLY <4>1, i \in 1 .. Len(w)
    <3> QED
      BY ONLY <2>3, <3>1, <3>2
  <2>5. /\ p \in Int /\ q \in Int /\ Len(v) \in Nat /\ Len(w) = Len(v) + 2
        /\ e = q /\ p + Len(v) = e /\ f = e + 2 /\ q + 1 < Len(s) /\ Len(s) \in Nat
        /\ ~next.closed
    BY <1>1, <1>6, <2>1, <2>3
  <2> HIDE DEF v, w, e, f
  <2>6. p <= f /\ f <= Len(s) /\ q + 1 <= f /\ p + Len(w) = f
    BY ONLY <2>5
  <2> QED
    BY ONLY <1>3, <2>4, <2>5, <2>6
<1>7. CASE /\ ~st.closed /\ e <= q /\ s[q + 1] = delimiter
           /\ next.closed /\ f = e + 1 /\ w = v
  <2> HIDE DEF v, w, e, f
  <2> QED
    BY <1>1, <1>2, <1>7
<1> QED
  BY <1>4, <1>5, <1>6, <1>7 DEF DelimitedTurn

(***************************************************************************)
(* A text between delimiters is taken whole, delimiters and all.           *)
(***************************************************************************)
LEMMA DelimitedWhole ==
  ASSUME NEW s \in Seq(Character), NEW ic \in At(s), NEW delimiter \in Character, NEW kind,
         LexCharacterDelimited(s, ic, delimiter, kind).ok
  PROVE  \E value \in Seq(Character), jc \in Cursor :
           /\ LexCharacterDelimited(s, ic, delimiter, kind) = Accept(Token(value, kind, ic), jc)
           /\ ic.pointer < jc.pointer /\ jc.pointer <= Len(s)
           /\ Text(s, ic.pointer, jc.pointer) = Quoted(delimiter, value)
           /\ OnLine(ic, jc)
<1> DEFINE p == Advance(ic, 1).pointer
           n == Len(s)
<1>1. /\ p = ic.pointer + 1 /\ p \in Nat /\ n \in Nat /\ p <= n /\ ic.pointer \in Nat
      /\ Advance(ic, 1) \in Cursor
  <2>1. ic \in Cursor /\ ic.pointer \in Nat /\ n \in Nat /\ ic.pointer < n
    BY DEF At, Cursor
  <2>2. Advance(ic, 1) \in Cursor /\ p = ic.pointer + 1
    BY <2>1, AdvanceShape
  <2> QED
    BY <2>1, <2>2
<1>2. PICK loop \in [p .. n -> DelimitedStates] :
        /\ loop[p] = [closed |-> FALSE, cur |-> Advance(ic, 1), value |-> <<>>]
        /\ \A q \in p .. (n - 1) : loop[q + 1] = DelimitedStep(s, delimiter, loop[q], q)
        /\ LexCharacterDelimited(s, ic, delimiter, kind) =
             IF Char(s, ic.pointer) = delimiter /\ loop[n].closed
             THEN Accept(Token(loop[n].value, kind, ic), loop[n].cur)
             ELSE Reject
  BY DelimitedLoop
<1> DEFINE Q == {q \in p .. n : Spelt(s, delimiter, p, loop[q], q) /\ OnLine(ic, loop[q].cur)}
<1>3. p \in Q
  <2>1. /\ loop[p].closed = FALSE /\ loop[p].cur.pointer = p /\ loop[p].value = <<>>
    BY <1>2
  <2>2. Spelt(s, delimiter, p, loop[p], p)
    BY <1>1, <2>1 DEF Spelt
  <2>3. OnLine(ic, loop[p].cur)
    <3>1. loop[p].cur = Advance(ic, 1) /\ ic \in Cursor /\ 1 \in Nat
      BY <1>2 DEF At
    <3> QED
      BY <3>1, AdvanceOnLine
  <2> QED
    BY <1>1, <2>2, <2>3
<1>4. ASSUME NEW q \in p .. (n - 1), q \in Q PROVE q + 1 \in Q
  <2> DEFINE st == loop[q]
             next == loop[q + 1]
  <2>1. /\ st \in DelimitedStates /\ next \in DelimitedStates
        /\ Spelt(s, delimiter, p, st, q) /\ q \in Nat /\ q < Len(s) /\ q + 1 \in p .. n
    BY <1>1, <1>4
  <2>2. DelimitedTurn(s, delimiter, st, q, next)
    BY <1>1, <1>2, <2>1, DelimitedStepTurns
  <2>3. Spelt(s, delimiter, p, next, q + 1)
    <3> HIDE DEF st, next, p
    <3> QED
      BY <1>1, <2>1, <2>2, DelimitedSpelt
  <2>4. OnLine(ic, next.cur)
    <3>1. OnLine(ic, st.cur) /\ ic \in Cursor
      BY <1>4 DEF At
    <3>2. st.cur \in Cursor /\ next.cur \in Cursor
      BY <2>1 DEF DelimitedStates
    <3>3. OnLine(st.cur, next.cur)
      BY <1>2, <2>1, DelimitedStepOnLine
    <3> HIDE DEF st, next
    <3> QED
      BY <3>1, <3>2, <3>3, OnLineOn
  <2> QED
    BY <2>1, <2>3, <2>4
<1>5. n \in Q
  <2>1. \A q \in p .. n : q \in Q
    <3>1. p \in Int /\ n \in Int
      BY <1>1
    <3> HIDE DEF Q, p, n
    <3> QED
      BY <1>3, <1>4, <3>1, Upwards
  <2> QED
    BY <1>1, <2>1
<1> DEFINE end == loop[n]
           value == end.value
           jc == end.cur
<1>6. end \in DelimitedStates /\ value \in Seq(Character) /\ jc \in Cursor /\ jc.pointer \in Nat
  BY <1>1 DEF DelimitedStates, Cursor
<1>7. Char(s, ic.pointer) = delimiter /\ end.closed
  <2>1. ~Reject.ok
    BY DEF Reject
  <2> QED
    BY <1>2, <2>1
<1>8. LexCharacterDelimited(s, ic, delimiter, kind) = Accept(Token(value, kind, ic), jc)
  BY <1>2, <1>7
<1>9. /\ p <= jc.pointer /\ jc.pointer <= n /\ p + Len(value) = jc.pointer - 1
      /\ \A i \in 1 .. Len(value) : value[i] = s[p + i]
      /\ s[jc.pointer] = delimiter
  BY <1>5, <1>7 DEF Spelt
<1>13. OnLine(ic, jc)
  BY <1>5
<1>10. Text(s, ic.pointer, jc.pointer) = Quoted(delimiter, value)
  <2> DEFINE t == Text(s, ic.pointer, jc.pointer)
             u == Quoted(delimiter, value)
             m == Len(value)
  <2> HIDE DEF value, jc, end, p
  <2>1. /\ t \in Seq(Character) /\ Len(t) = m + 2
        /\ \A i \in 1 .. (m + 2) : t[i] = s[ic.pointer + i]
    <3>1. ic.pointer \in 0 .. Len(s) /\ jc.pointer \in ic.pointer .. Len(s)
      BY <1>1, <1>6, <1>9
    <3>2. m \in Nat /\ jc.pointer - ic.pointer = m + 2
      <4>1. /\ m \in Nat /\ ic.pointer \in Nat /\ jc.pointer \in Int
            /\ p = ic.pointer + 1 /\ p + m = jc.pointer - 1
        BY <1>1, <1>6, <1>9
      <4> HIDE DEF m
      <4> QED
        BY ONLY <4>1
    <3>3. /\ t \in Seq(Character) /\ Len(t) = jc.pointer - ic.pointer
          /\ \A i \in 1 .. (jc.pointer - ic.pointer) : t[i] = s[ic.pointer + i]
      BY <3>1, TextShape
    <3> HIDE DEF t
    <3> QED
      BY <3>2, <3>3
  <2>2. /\ u \in Seq(Character) /\ Len(u) = m + 2
        /\ u[1] = delimiter /\ u[m + 2] = delimiter
        /\ \A i \in 1 .. m : u[i + 1] = value[i]
    BY <1>6 DEF Quoted
  <2>3. s[ic.pointer + 1] = delimiter /\ ic.pointer + (m + 2) = jc.pointer
    <3>1. s[ic.pointer + 1] = delimiter
      BY <1>7 DEF Char
    <3>2. m \in Nat
      BY <1>6
    <3>3. p + m = jc.pointer - 1 /\ p = ic.pointer + 1
      BY <1>1, <1>9
    <3>4. ic.pointer \in Int /\ jc.pointer \in Int
      BY <1>1, <1>6
    <3> HIDE DEF m
    <3>5. ic.pointer + (m + 2) = jc.pointer
      BY ONLY <3>2, <3>3, <3>4
    <3> QED
      BY ONLY <3>1, <3>5
  <2>4. ASSUME NEW i \in 1 .. (m + 2) PROVE t[i] = u[i]
    <3> HIDE DEF t, u
    <3>4. t[i] = s[ic.pointer + i]
      BY ONLY <2>1, i \in 1 .. (m + 2)
    <3>5. s[jc.pointer] = delimiter
      BY <1>9
    <3>1. CASE i = 1
      BY ONLY <2>2, <2>3, <3>1, <3>4
    <3>2. CASE i = m + 2
      BY ONLY <2>2, <2>3, <3>2, <3>4, <3>5
    <3>3. CASE i # 1 /\ i # m + 2
      <4>1. i - 1 \in 1 .. m /\ u[(i - 1) + 1] = value[i - 1] /\ value[i - 1] = s[p + (i - 1)]
        BY <1>6, <1>9, <2>2, <3>3
      <4>2. (i - 1) + 1 = i /\ p + (i - 1) = ic.pointer + i
        BY <1>1
      <4> QED
        BY <2>1, <4>1, <4>2
    <3> QED
      BY <3>1, <3>2, <3>3
  <2> HIDE DEF t, u
  <2>5. t = u
    BY <2>1, <2>2, <2>4
  <2> QED
    BY <2>5 DEF t, u
<1>11. ic.pointer < jc.pointer
  <2> HIDE DEF jc, p
  <2> QED
    BY <1>1, <1>6, <1>9
<1> HIDE DEF value, jc, n
<1>12. jc.pointer <= Len(s)
  BY <1>9 DEF n
<1> QED
  BY Zenon, <1>6, <1>8, <1>10, <1>11, <1>12, <1>13

------------------------------------------------------------------------------
(***************************************************************************)
(* The lexers.  Each takes a piece of the text that is there and not       *)
(* empty, and makes of it a token that spells it and is where it begins,   *)
(* or passes whitespace.  But for numbers, the cursor is moved on along    *)
(* the line by the length of the piece.                                    *)
(***************************************************************************)

TakesPiece(s, ic, l) ==
  LET text == Text(s, ic.pointer, l.cur.pointer)
  IN  l.ok => /\ l.cur \in Cursor
              /\ ic.pointer < l.cur.pointer /\ l.cur.pointer <= Len(s)
              /\ \/ /\ l.token = nil /\ ToSet(text) \subseteq Whitespace
                    /\ l.cur = PassWhitespace(ic, Char(s, ic.pointer))
                    /\ l.cur.pointer = ic.pointer + 1
                 \/ /\ l.token \in Tokens /\ Spells(text, l.token)
                    /\ l.token.loc = Location(ic)
                    /\ l.token.kind = "numeric" \/ OnLine(ic, l.cur)

\* Where a lexer is tried there is a character.
LEMMA CursorShape ==
  ASSUME NEW s \in Seq(Character), NEW ic \in At(s)
  PROVE  /\ ic \in Cursor /\ ic.pointer \in Nat /\ Len(s) \in Nat
         /\ ic.pointer < Len(s) /\ ic.pointer \in 0 .. Len(s)
BY DEF At, Cursor

\* What Token makes
LEMMA TokenShape ==
  ASSUME NEW value \in Seq(Character), NEW kind \in Kinds, NEW ic \in Cursor
  PROVE  /\ Token(value, kind, ic) \in Tokens
         /\ Token(value, kind, ic).value = value /\ Token(value, kind, ic).kind = kind
         /\ Token(value, kind, ic).loc = Location(ic)
BY DEF Token, Tokens, Location, Cursor

\* A lexer that has accepted has taken a piece if its token is right.
LEMMA AcceptTakes ==
  ASSUME NEW s, NEW ic, NEW value \in Seq(Character), NEW kind \in Kinds, ic \in Cursor,
         NEW jc \in Cursor, ic.pointer < jc.pointer, jc.pointer <= Len(s),
         Spells(Text(s, ic.pointer, jc.pointer), Token(value, kind, ic)),
         kind = "numeric" \/ OnLine(ic, jc)
  PROVE  TakesPiece(s, ic, Accept(Token(value, kind, ic), jc))
<1> DEFINE token == Token(value, kind, ic)
<1>1. token \in Tokens /\ token.kind = kind /\ token.loc = Location(ic)
  BY TokenShape
<1> HIDE DEF token
<1>2. Accept(token, jc).cur = jc /\ Accept(token, jc).token = token
  BY DEF Accept
<1>3. Spells(Text(s, ic.pointer, jc.pointer), token)
  BY DEF token
<1>4. TakesPiece(s, ic, Accept(token, jc))
  BY <1>1, <1>2, <1>3 DEF TakesPiece
<1> QED
  BY <1>4 DEF token

\* A lexer that rejects takes nothing.
LEMMA RejectTakes ==
  ASSUME NEW s, NEW ic
  PROVE  TakesPiece(s, ic, Reject)
BY DEF TakesPiece, Reject

\* What longestMatch has found is what the text spells, but for case.
LEMMA ReadsAtSpells ==
  ASSUME NEW s \in Seq(Character), NEW p \in Nat, NEW o \in Seq(Character), ReadsAt(s, p, o)
  PROVE  ToLower(Text(s, p, p + Len(o))) = o
<1>1. p \in 0 .. Len(s) /\ p + Len(o) \in p .. Len(s) /\ (p + Len(o)) - p = Len(o)
  BY DEF ReadsAt
<1> DEFINE value == ToLower(Text(s, p, p + Len(o)))
<1>2. /\ value \in Seq(Character) /\ Len(value) = Len(o)
      /\ \A i \in 1 .. Len(o) : value[i] = Low(s[p + i])
  BY <1>1, ReadShape
<1> HIDE DEF value
<1>3. \A i \in 1 .. Len(o) : value[i] = o[i]
  BY <1>2 DEF ReadsAt
<1>4. value = o
  BY <1>2, <1>3
<1> QED
  BY <1>4 DEF value

\* lexKeyword
LEMMA KeywordTakes ==
  ASSUME NEW s \in Seq(Character), NEW ic \in At(s)
  PROVE  TakesPiece(s, ic, LexKeyword(s, ic))
<1> DEFINE match == LongestMatch(s, ic, Keywords)
           kind == CASE match \in {<<"t","r","u","e">>, <<"f","a","l","s","e">>} -> "bool"
                     [] match = <<"n","u","l","l">> -> "null"
                     [] OTHER -> "keyword"
           jc == Advance(ic, Len(match))
<1>1. match = <<>> \/ (match \in Keywords /\ ReadsAt(s, ic.pointer, match))
  <2>1. Keywords \in SUBSET (Seq(Character) \ {<<>>})
    BY LexerAssumption
  <2> QED
    BY <2>1, LongestMatchLongest
<1>2. LexKeyword(s, ic) = IF match = <<>> THEN Reject ELSE Accept(Token(match, kind, ic), jc)
  BY DEF LexKeyword
<1>3. kind \in {"bool", "null", "keyword"}
  <2> HIDE DEF match
  <2> QED
    OBVIOUS
<1> HIDE DEF match, kind
<1>4. CASE match = <<>>
  BY <1>2, <1>4, RejectTakes
<1>5. CASE match # <<>>
  <2>1. match \in Seq(Character) /\ Len(match) > 0 /\ Len(match) \in Nat
    BY <1>1, <1>5, LexerAssumption
  <2>2. jc \in Cursor /\ jc.pointer = ic.pointer + Len(match)
    BY <2>1, CursorShape, AdvanceShape
  <2>3. ic.pointer < jc.pointer /\ jc.pointer <= Len(s)
    BY <1>1, <1>5, <2>1, <2>2, CursorShape DEF ReadsAt
  <2>4. ToLower(Text(s, ic.pointer, jc.pointer)) = match
    BY <1>1, <1>5, <2>1, <2>2, CursorShape, ReadsAtSpells
  <2>5. kind \in Kinds /\ kind \notin {"string", "numeric", "symbol", "identifier"}
    BY <1>3 DEF Kinds
  <2>6. Token(match, kind, ic).value = match /\ Token(match, kind, ic).kind = kind
    BY <2>1, <2>5, CursorShape, TokenShape
  <2>7. Spells(Text(s, ic.pointer, jc.pointer), Token(match, kind, ic))
    BY <2>4, <2>5, <2>6 DEF Spells
  <2>8. OnLine(ic, jc)
    BY <2>1, CursorShape, AdvanceOnLine
  <2>9. TakesPiece(s, ic, Accept(Token(match, kind, ic), jc))
    <3> HIDE DEF jc
    <3> QED
      BY <2>1, <2>2, <2>3, <2>5, <2>7, <2>8, CursorShape, AcceptTakes
  <2> QED
    BY <1>2, <1>5, <2>9
<1> QED
  BY <1>4, <1>5

\* Whitespace is passed one character at a time.
LEMMA WhitespaceTakes ==
  ASSUME NEW s \in Seq(Character), NEW ic \in At(s), Char(s, ic.pointer) \in Whitespace
  PROVE  TakesPiece(s, ic, Accept(nil, PassWhitespace(ic, Char(s, ic.pointer))))
<1> DEFINE c == Char(s, ic.pointer)
           jc == PassWhitespace(ic, c)
           t == Text(s, ic.pointer, jc.pointer)
<1>1. jc \in Cursor /\ jc.pointer = ic.pointer + 1
  <2>1. ic \in Cursor /\ Advance(ic, 1) \in Cursor /\ Advance(ic, 1).pointer = ic.pointer + 1
    BY CursorShape, AdvanceShape
  <2> DEFINE kc == Advance(ic, 1)
             lc == [kc EXCEPT !.line = @ + 1, !.col = 0]
  <2>2. \A a \in Nat : /\ [kc EXCEPT !.line = a, !.col = 0] \in Cursor
                       /\ [kc EXCEPT !.line = a, !.col = 0].pointer = kc.pointer
    <3> HIDE DEF kc
    <3> QED
      BY <2>1 DEF Cursor, kc
  <2>3. kc.line + 1 \in Nat
    <3> HIDE DEF kc
    <3> QED
      BY <2>1 DEF Cursor, kc
  <2>4. lc \in Cursor /\ lc.pointer = kc.pointer
    <3> HIDE DEF kc
    <3> QED
      BY Zenon, <2>2, <2>3
  <2>5. jc = IF c = "\n" THEN lc ELSE kc
    BY DEF PassWhitespace
  <2> HIDE DEF kc, lc, jc
  <2> QED
    BY <2>1, <2>4, <2>5 DEF kc
<1>2. /\ t \in Seq(Character) /\ Len(t) = 1 /\ t[1] = c
  <2>1. ic.pointer \in 0 .. Len(s) /\ jc.pointer \in ic.pointer .. Len(s)
    <3> HIDE DEF jc
    <3> QED
      BY <1>1, CursorShape
  <2>2. /\ t \in Seq(Character) /\ Len(t) = jc.pointer - ic.pointer
        /\ \A i \in 1 .. (jc.pointer - ic.pointer) : t[i] = s[ic.pointer + i]
    BY <2>1, TextShape
  <2>3. jc.pointer - ic.pointer = 1
    <3> HIDE DEF jc
    <3> QED
      BY <1>1, CursorShape
  <2>4. c = s[ic.pointer + 1]
    BY DEF Char
  <2> HIDE DEF t, jc, c
  <2> QED
    BY <2>2, <2>3, <2>4
<1>3. ToSet(t) \subseteq Whitespace
  <2> HIDE DEF t, c
  <2>1. DOMAIN t = {1}
    BY <1>2
  <2>2. c \in Whitespace
    BY DEF c
  <2> QED
    BY <1>2, <2>1, <2>2 DEF ToSet
<1>4. ic.pointer < jc.pointer /\ jc.pointer <= Len(s)
  <2> HIDE DEF jc
  <2> QED
    BY <1>1, CursorShape
<1>5. Accept(nil, jc).cur = jc /\ Accept(nil, jc).token = nil
  BY DEF Accept
<1>8. jc = PassWhitespace(ic, Char(s, ic.pointer))
  OBVIOUS
<1> DEFINE l == Accept(nil, jc)
<1>6. ToSet(Text(s, ic.pointer, l.cur.pointer)) \subseteq Whitespace
  <2> HIDE DEF jc, c
  <2> QED
    BY <1>3, <1>5
<1>7. TakesPiece(s, ic, l)
  <2> HIDE DEF jc, c, l
  <2> QED
    BY <1>1, <1>4, <1>5, <1>6, <1>8 DEF TakesPiece, l
<1> QED
  BY <1>7

\* A symbol is spelt the same in either case.
LEMMA SymbolSpelt ==
  ASSUME NEW s \in Seq(Character), NEW p \in Nat, NEW o \in Symbols, ReadsAt(s, p, o)
  PROVE  Text(s, p, p + Len(o)) = o
<1>1. o \in Seq(Character) /\ Len(o) \in Nat
  BY LexerAssumption
<1>2. p \in 0 .. Len(s) /\ p + Len(o) \in p .. Len(s) /\ (p + Len(o)) - p = Len(o)
  BY <1>1 DEF ReadsAt
<1> DEFINE t == Text(s, p, p + Len(o))
<1>3. /\ t \in Seq(Character) /\ Len(t) = Len(o)
      /\ \A i \in 1 .. Len(o) : t[i] = s[p + i]
  BY <1>2, TextShape
<1>4. ASSUME NEW i \in 1 .. Len(o) PROVE o[i] = s[p + i]
  <2>1. o[i] = Low(s[p + i])
    BY <1>1 DEF ReadsAt
  <2>2. \A c \in DOMAIN lower : o[i] # lower[c]
    <3>1. i \in DOMAIN o
      BY <1>1
    <3> QED
      BY <3>1, LexerAssumption
  <2> QED
    BY <2>1, <2>2 DEF Low
<1> HIDE DEF t
<1>5. t = o
  BY <1>1, <1>3, <1>4
<1> QED
  BY <1>5 DEF t

\* lexSymbol
LEMMA SymbolTakes ==
  ASSUME NEW s \in Seq(Character), NEW ic \in At(s)
  PROVE  TakesPiece(s, ic, LexSymbol(s, ic))
<1> DEFINE c == Char(s, ic.pointer)
           match == LongestMatch(s, ic, Symbols)
           value == IF match = <<"!", "=">> THEN <<"<", ">">> ELSE match
           jc == Advance(ic, Len(match))
<1>1. match = <<>> \/ (match \in Symbols /\ ReadsAt(s, ic.pointer, match))
  <2>1. Symbols \in SUBSET (Seq(Character) \ {<<>>})
    BY LexerAssumption
  <2> QED
    BY <2>1, LongestMatchLongest
<1>2. LexSymbol(s, ic) = IF c \in Whitespace THEN Accept(nil, PassWhitespace(ic, c))
                         ELSE IF match = <<>> THEN Reject
                         ELSE Accept(Token(value, "symbol", ic), jc)
  BY DEF LexSymbol
<1> HIDE DEF match
<1>3. CASE c \in Whitespace
  BY <1>2, <1>3, WhitespaceTakes
<1>4. CASE c \notin Whitespace /\ match = <<>>
  BY <1>2, <1>4, RejectTakes
<1>5. CASE c \notin Whitespace /\ match # <<>>
  <2>1. match \in Seq(Character) /\ Len(match) > 0 /\ Len(match) \in Nat /\ match \in Symbols
    BY <1>1, <1>5, LexerAssumption
  <2>2. jc \in Cursor /\ jc.pointer = ic.pointer + Len(match)
    BY <2>1, CursorShape, AdvanceShape
  <2>3. ic.pointer < jc.pointer /\ jc.pointer <= Len(s)
    BY <1>1, <1>5, <2>1, <2>2, CursorShape DEF ReadsAt
  <2>4. Text(s, ic.pointer, jc.pointer) = match
    BY <1>1, <1>5, <2>1, <2>2, CursorShape, SymbolSpelt
  <2>5. "symbol" \in Kinds
    BY DEF Kinds
  <2>6. value \in Seq(Character)
    <3>1. "<" \in Character /\ ">" \in Character
      BY DEF Character
    <3>2. <<"<", ">">> \in Seq(Character)
      BY <3>1
    <3> QED
      BY <2>1, <3>2
  <2>7. Token(value, "symbol", ic).value = value /\ Token(value, "symbol", ic).kind = "symbol"
    <3> HIDE DEF value
    <3> QED
      BY <2>5, <2>6, CursorShape, TokenShape
  <2>8. value = match \/ (match = <<"!", "=">> /\ value = <<"<", ">">>)
    OBVIOUS
  <2>9. Spells(Text(s, ic.pointer, jc.pointer), Token(value, "symbol", ic))
    <3> HIDE DEF value, jc
    <3> QED
      BY <2>4, <2>7, <2>8 DEF Spells
  <2>10. OnLine(ic, jc)
    BY <2>1, CursorShape, AdvanceOnLine
  <2>11. TakesPiece(s, ic, Accept(Token(value, "symbol", ic), jc))
    <3> HIDE DEF jc, value
    <3> QED
      BY <2>2, <2>3, <2>5, <2>6, <2>9, <2>10, CursorShape, AcceptTakes
  <2> QED
    BY <1>2, <1>5, <2>11
<1> QED
  BY <1>3, <1>4, <1>5

\* lexCharacterDelimited, of strings and of quoted identifiers
LEMMA DelimitedTakes ==
  ASSUME NEW s \in Seq(Character), NEW ic \in At(s), NEW delimiter \in Character,
         NEW kind \in Kinds,
         \A value \in Seq(Character) : Spells(Quoted(delimiter, value), Token(value, kind, ic))
  PROVE  TakesPiece(s, ic, LexCharacterDelimited(s, ic, delimiter, kind))
<1>1. CASE ~LexCharacterDelimited(s, ic, delimiter, kind).ok
  BY <1>1 DEF TakesPiece
<1>2. CASE LexCharacterDelimited(s, ic, delimiter, kind).ok
  <2>1. \E value \in Seq(Character), jc \in Cursor :
          /\ LexCharacterDelimited(s, ic, delimiter, kind) = Accept(Token(value, kind, ic), jc)
          /\ ic.pointer < jc.pointer /\ jc.pointer <= Len(s)
          /\ Text(s, ic.pointer, jc.pointer) = Quoted(delimiter, value)
          /\ OnLine(ic, jc)
    BY <1>2, DelimitedWhole
  <2>2. PICK value \in Seq(Character), jc \in Cursor :
          /\ LexCharacterDelimited(s, ic, delimiter, kind) = Accept(Token(value, kind, ic), jc)
          /\ ic.pointer < jc.pointer /\ jc.pointer <= Len(s)
          /\ Text(s, ic.pointer, jc.pointer) = Quoted(delimiter, value)
          /\ OnLine(ic, jc)
    BY Zenon, <2>1
  <2>3. ic \in Cursor
    BY CursorShape
  <2>4. Spells(Text(s, ic.pointer, jc.pointer), Token(value, kind, ic))
    BY <2>2
  <2>5. TakesPiece(s, ic, Accept(Token(value, kind, ic), jc))
    BY <2>2, <2>3, <2>4, AcceptTakes
  <2> QED
    BY Zenon, <2>2, <2>5
<1> QED
  BY <1>1, <1>2

\* lexString
LEMMA StringTakes ==
  ASSUME NEW s \in Seq(Character), NEW ic \in At(s)
  PROVE  TakesPiece(s, ic, LexString(s, ic))
<1>1. "'" \in Character /\ "string" \in Kinds
  BY DEF Character, Kinds
<1>2. ASSUME NEW value \in Seq(Character)
      PROVE  Spells(Quoted("'", value), Token(value, "string", ic))
  <2>1. Token(value, "string", ic).value = value /\ Token(value, "string", ic).kind = "string"
    BY <1>1, CursorShape, TokenShape
  <2> QED
    BY <2>1 DEF Spells
<1>3. TakesPiece(s, ic, LexCharacterDelimited(s, ic, "'", "string"))
  BY <1>1, <1>2, DelimitedTakes
<1> QED
  BY <1>3 DEF LexString

\* lexNumeric
LEMMA NumericTakes ==
  ASSUME NEW s \in Seq(Character), NEW ic \in At(s)
  PROVE  TakesPiece(s, ic, LexNumeric(s, ic))
<1>1. PICK end \in NumericStates :
        /\ LexNumeric(s, ic) =
             IF end.ok
             THEN Accept(Token(Text(s, ic.pointer, end.cur.pointer), "numeric", ic), end.cur)
             ELSE Reject
        /\ end.ok => ic.pointer < end.cur.pointer /\ end.cur.pointer <= Len(s)
  BY NumericWithin
<1> DEFINE jc == end.cur
           value == Text(s, ic.pointer, jc.pointer)
<1>2. CASE ~end.ok
  BY <1>1, <1>2, RejectTakes
<1>3. CASE end.ok
  <2>1. jc \in Cursor /\ jc.pointer \in Nat /\ ic.pointer < jc.pointer /\ jc.pointer <= Len(s)
    BY <1>1, <1>3 DEF NumericStates, Cursor
  <2>2. jc.pointer \in ic.pointer .. Len(s)
    <3> HIDE DEF jc
    <3> QED
      BY <2>1, CursorShape
  <2>3. value \in Seq(Character) /\ "numeric" \in Kinds
    <3> HIDE DEF jc
    <3> QED
      BY <2>2, CursorShape, TextShape DEF Kinds
  <2>4. LexNumeric(s, ic) = Accept(Token(value, "numeric", ic), jc)
    BY <1>1, <1>3
  <2> HIDE DEF value, jc
  <2>5. Token(value, "numeric", ic).value = value /\ Token(value, "numeric", ic).kind = "numeric"
    BY <2>3, CursorShape, TokenShape
  <2>6. Spells(Text(s, ic.pointer, jc.pointer), Token(value, "numeric", ic))
    BY <2>5 DEF Spells, value
  <2>7. TakesPiece(s, ic, Accept(Token(value, "numeric", ic), jc))
    BY <2>1, <2>3, <2>6, CursorShape, AcceptTakes
  <2> QED
    BY <2>4, <2>7
<1> QED
  BY <1>2, <1>3

\* A plain identifier is the word that begins at the cursor.
LEMMA IdentifierTakes ==
  ASSUME NEW s \in Seq(Character), NEW ic \in At(s)
  PROVE  TakesPiece(s, ic, LexIdentifier(s, ic))
<1> DEFINE quoted == LexCharacterDelimited(s, ic, "\"", "identifier")
           inWord == Letters \cup Digits \cup {"$", "_"}
           ends == {p \in (ic.pointer + 1) .. Len(s) :
                      \A q \in ic.pointer .. (p - 1) : Char(s, q) \in inWord}
           value == Text(s, ic.pointer, Max(ends))
           jc == Advance(ic, Len(value))
<1>1. LexIdentifier(s, ic) =
        IF quoted.ok THEN quoted
        ELSE IF Char(s, ic.pointer) \notin Letters THEN Reject
        ELSE Accept(Token(ToLower(value), "identifier", ic), jc)
  BY DEF LexIdentifier
<1>2. CASE quoted.ok
  <2>1. "\"" \in Character /\ "identifier" \in Kinds
    BY DEF Character, Kinds
  <2>2. ASSUME NEW v \in Seq(Character)
        PROVE  Spells(Quoted("\"", v), Token(v, "identifier", ic))
    <3> PICK token, text : token = Token(v, "identifier", ic) /\ text = Quoted("\"", v)
      OBVIOUS
    <3>1. token.value = v /\ token.kind = "identifier"
      BY ONLY token = Token(v, "identifier", ic) DEF Token
    <3>2. Spells(text, token)
      BY ONLY <3>1, text = Quoted("\"", v) DEF Spells
    <3> QED
      BY <3>2
  <2>3. \A v \in Seq(Character) : Spells(Quoted("\"", v), Token(v, "identifier", ic))
    BY <2>2
  <2>4. TakesPiece(s, ic, LexCharacterDelimited(s, ic, "\"", "identifier"))
    BY ONLY s \in Seq(Character), ic \in At(s), <2>1, <2>3, DelimitedTakes
  <2>5. TakesPiece(s, ic, quoted)
    BY ONLY <2>4
  <2> QED
    BY <1>1, <1>2, <2>5
<1>3. CASE ~quoted.ok /\ Char(s, ic.pointer) \notin Letters
  BY <1>1, <1>3, RejectTakes
<1>4. CASE ~quoted.ok /\ Char(s, ic.pointer) \in Letters
  <2>1. ic.pointer + 1 \in ends
    <3>1. ic.pointer + 1 \in (ic.pointer + 1) .. Len(s)
      BY CursorShape
    <3>2. ASSUME NEW q \in ic.pointer .. ((ic.pointer + 1) - 1) PROVE Char(s, q) \in inWord
      <4>1. q = ic.pointer
        BY CursorShape
      <4> QED
        BY <1>4, <4>1
    <3> QED
      BY <3>1, <3>2
  <2>2. Max(ends) \in ends
    <3>1. ends \in SUBSET ((ic.pointer + 1) .. Len(s)) /\ ends # {}
      BY <2>1
    <3>2. ic.pointer + 1 \in Int /\ Len(s) \in Int
      BY CursorShape
    <3> HIDE DEF ends
    <3> QED
      BY <3>1, <3>2, GreatestInteger
  <2>3. Max(ends) \in (ic.pointer + 1) .. Len(s)
    BY <2>2
  <2> DEFINE e == Max(ends)
  <2> HIDE DEF ends, e
  <2>4. e \in ic.pointer .. Len(s) /\ e \in Nat /\ ic.pointer < e /\ e <= Len(s)
    BY <2>3, CursorShape DEF e
  <2>5. value \in Seq(Character) /\ Len(value) = e - ic.pointer
    BY <2>4, CursorShape, TextShape DEF e
  <2> HIDE DEF value
  <2>6. Len(value) \in Nat /\ ic.pointer + Len(value) = e
    BY <2>4, <2>5, CursorShape
  <2>7. jc \in Cursor /\ jc.pointer = e
    BY <2>6, CursorShape, AdvanceShape
  <2>8. ToLower(value) \in Seq(Character) /\ "identifier" \in Kinds
    BY <2>5, LowerShape DEF Kinds
  <2>9. Text(s, ic.pointer, jc.pointer) = value
    BY <2>7 DEF value, e
  <2>13. OnLine(ic, jc)
    BY <2>6, CursorShape, AdvanceOnLine
  <2> HIDE DEF jc
  <2>10. Token(ToLower(value), "identifier", ic).value = ToLower(value)
         /\ Token(ToLower(value), "identifier", ic).kind = "identifier"
    BY <2>8, CursorShape, TokenShape
  <2>11. Spells(Text(s, ic.pointer, jc.pointer), Token(ToLower(value), "identifier", ic))
    BY <2>9, <2>10 DEF Spells
  <2>12. TakesPiece(s, ic, Accept(Token(ToLower(value), "identifier", ic), jc))
    BY <2>4, <2>7, <2>8, <2>11, <2>13, CursorShape, AcceptTakes
  <2> QED
    BY <1>1, <1>4, <2>12
<1> QED
  BY <1>2, <1>3, <1>4

\* Whichever of the lexers accepts
LEMMA LexedTakes ==
  ASSUME NEW s \in Seq(Character), NEW ic \in At(s), NEW i \in 1 .. 5
  PROVE  TakesPiece(s, ic, Lexed(s, ic)[i])
<1>1. /\ Lexed(s, ic)[1] = LexKeyword(s, ic) /\ Lexed(s, ic)[2] = LexSymbol(s, ic)
      /\ Lexed(s, ic)[3] = LexString(s, ic) /\ Lexed(s, ic)[4] = LexNumeric(s, ic)
      /\ Lexed(s, ic)[5] = LexIdentifier(s, ic)
  BY DEF Lexed
<1>2. i = 1 \/ i = 2 \/ i = 3 \/ i = 4 \/ i = 5
  OBVIOUS
<1> QED
  BY <1>1, <1>2, KeywordTakes, SymbolTakes, StringTakes, NumericTakes, IdentifierTakes

\* The lexer that wins is the first that accepts.
LEMMA FirstAccepts ==
  ASSUME NEW s, NEW ic
  PROVE  LET i == FirstAccepting(Lexed(s, ic))
         IN  \/ i = 0 /\ \A j \in 1 .. 5 : ~Lexed(s, ic)[j].ok
             \/ /\ i \in 1 .. 5 /\ Lexed(s, ic)[i].ok
                /\ \A j \in 1 .. (i - 1) : ~Lexed(s, ic)[j].ok
<1> DEFINE lexed == Lexed(s, ic)
           I == {j \in 1 .. Len(lexed) : lexed[j].ok}
<1>1. FirstAccepting(lexed) = IF I # {} THEN Min(I) ELSE 0
  BY Zenon DEF FirstAccepting, SelectInSeq
<1>2. Len(lexed) = 5
  BY DEF Lexed
<1> HIDE DEF lexed
<1>3. CASE I = {}
  BY <1>1, <1>2, <1>3 DEF lexed
<1>4. CASE I # {}
  <2>1. I \in SUBSET Nat
    BY <1>2
  <2>2. Min(I) \in I /\ \A j \in I : Min(I) <= j
    <3> HIDE DEF I
    <3> QED
      BY <1>4, <2>1, LeastNatural
  <2>3. \A j \in 1 .. (Min(I) - 1) : ~lexed[j].ok
    <3> SUFFICES ASSUME NEW j \in 1 .. (Min(I) - 1), lexed[j].ok PROVE FALSE
      OBVIOUS
    <3>1. Min(I) \in 1 .. 5
      BY <1>2, <2>2
    <3>2. j \in I
      BY <1>2, <3>1
    <3>3. Min(I) <= j
      BY <2>2, <3>2
    <3> QED
      BY <3>1, <3>3
  <2> QED
    BY <1>1, <1>2, <1>4, <2>2, <2>3 DEF lexed
<1> QED
  BY <1>3, <1>4

------------------------------------------------------------------------------
(***************************************************************************)
(* The loop of lex.                                                        *)
(***************************************************************************)

\* NothingLost, of any state of the loop
Accounted(s, toks, sps, p) ==
  /\ \A k \in DOMAIN toks : Spells(Text(s, sps[k].from, sps[k].to), toks[k])
  /\ \A k \in 0 .. Len(sps) :
       LET from == IF k = 0 THEN 0 ELSE sps[k].to
           to   == IF k = Len(sps) THEN p ELSE sps[k + 1].from
       IN  from <= to /\ ToSet(Text(s, from, to)) \subseteq Whitespace

Spans == [from: Nat, to: Nat]

LexInv ==
  /\ source \in Sources
  /\ cur \in Cursor /\ cur.pointer <= Len(source)
  /\ tokens \in Seq(Tokens) /\ spans \in Seq(Spans) /\ Len(tokens) = Len(spans)
  /\ Accounted(source, tokens, spans, cur.pointer)
  /\ status = "done" => cur.pointer = Len(source)


\* A piece is whitespace if each of its characters is.
LEMMA WhitespaceText ==
  ASSUME NEW s \in Seq(Character), NEW p \in 0 .. Len(s), NEW q \in p .. Len(s)
  PROVE  ToSet(Text(s, p, q)) \subseteq Whitespace
           <=> \A i \in 1 .. (q - p) : s[p + i] \in Whitespace
<1> DEFINE t == Text(s, p, q)
<1>1. /\ t \in Seq(Character) /\ Len(t) = q - p
      /\ \A i \in 1 .. (q - p) : t[i] = s[p + i]
  BY TextShape
<1> HIDE DEF t
<1>2. DOMAIN t = 1 .. (q - p)
  BY <1>1
<1>3. ToSet(t) \subseteq Whitespace <=> \A i \in 1 .. (q - p) : t[i] \in Whitespace
  BY <1>2, Zenon DEF ToSet
<1> QED
  BY <1>1, <1>3 DEF t

\* Whitespace after whitespace
LEMMA WhitespaceJoins ==
  ASSUME NEW s \in Seq(Character), NEW p \in Nat, NEW q \in Nat, NEW r \in Nat,
         p <= q, q <= r, r <= Len(s),
         ToSet(Text(s, p, q)) \subseteq Whitespace, ToSet(Text(s, q, r)) \subseteq Whitespace
  PROVE  ToSet(Text(s, p, r)) \subseteq Whitespace
<1>1. /\ p \in 0 .. Len(s) /\ q \in p .. Len(s) /\ q \in 0 .. Len(s)
      /\ r \in q .. Len(s) /\ r \in p .. Len(s)
  OBVIOUS
<1>2. \A i \in 1 .. (q - p) : s[p + i] \in Whitespace
  BY <1>1, WhitespaceText
<1>3. \A i \in 1 .. (r - q) : s[q + i] \in Whitespace
  BY <1>1, WhitespaceText
<1>4. ASSUME NEW i \in 1 .. (r - p) PROVE s[p + i] \in Whitespace
  <2>1. CASE i <= q - p
    BY <1>2, <2>1
  <2>2. CASE i > q - p
    <3>1. i - (q - p) \in 1 .. (r - q) /\ q + (i - (q - p)) = p + i
      BY <2>2
    <3> QED
      BY <1>3, <3>1
  <2> QED
    BY <2>1, <2>2
<1> QED
  BY <1>1, <1>4, WhitespaceText

\* After whitespace, what has been read is accounted for still.
LEMMA AccountedOn ==
  ASSUME NEW s \in Seq(Character), NEW toks \in Seq(Tokens), NEW sps \in Seq(Spans),
         Len(toks) = Len(sps), NEW p \in Nat, NEW q \in Nat, p <= q, q <= Len(s),
         Accounted(s, toks, sps, p), ToSet(Text(s, p, q)) \subseteq Whitespace
  PROVE  Accounted(s, toks, sps, q)
<1> DEFINE from(k) == IF k = 0 THEN 0 ELSE sps[k].to
           to(k) == IF k = Len(sps) THEN p ELSE sps[k + 1].from
           to2(k) == IF k = Len(sps) THEN q ELSE sps[k + 1].from
<1>1. \A k \in DOMAIN toks : Spells(Text(s, sps[k].from, sps[k].to), toks[k])
  BY DEF Accounted
<1>2. \A k \in 0 .. Len(sps) : from(k) <= to(k) /\ ToSet(Text(s, from(k), to(k))) \subseteq Whitespace
  BY Zenon DEF Accounted
<1>3. ASSUME NEW k \in 0 .. Len(sps)
      PROVE  from(k) <= to2(k) /\ ToSet(Text(s, from(k), to2(k))) \subseteq Whitespace
  <2>1. CASE k # Len(sps)
    <3>1. to2(k) = to(k)
      BY <2>1
    <3> HIDE DEF to, to2, from
    <3> QED
      BY <1>2, <3>1
  <2>2. CASE k = Len(sps)
    <3>1. to(k) = p /\ to2(k) = q
      BY <2>2
    <3>2. from(k) \in Nat
      <4>1. CASE k = 0
        BY <4>1
      <4>2. CASE k # 0
        <5>1. sps[k] \in Spans
          BY <2>2, <4>2
        <5> QED
          BY <4>2, <5>1 DEF Spans
      <4> QED
        BY <4>1, <4>2
    <3> HIDE DEF to, to2, from
    <3>3. from(k) <= p /\ ToSet(Text(s, from(k), p)) \subseteq Whitespace
      BY <1>2, <3>1
    <3>4. ToSet(Text(s, from(k), q)) \subseteq Whitespace
      BY <3>2, <3>3, WhitespaceJoins
    <3> QED
      BY <3>1, <3>2, <3>3, <3>4
  <2> QED
    BY <2>1, <2>2
<1> QED
  BY Zenon, <1>1, <1>3 DEF Accounted

\* A token that spells what it was taken from is accounted for.
LEMMA AccountedToken ==
  ASSUME NEW s \in Seq(Character), NEW toks \in Seq(Tokens), NEW sps \in Seq(Spans),
         Len(toks) = Len(sps), NEW p \in Nat, NEW q \in Nat, p <= q, q <= Len(s),
         NEW token \in Tokens, NEW span \in Spans, span.from = p, span.to = q,
         Accounted(s, toks, sps, p), Spells(Text(s, p, q), token)
  PROVE  Accounted(s, Append(toks, token), Append(sps, span), q)
<1> DEFINE n == Len(sps)
           from(k) == IF k = 0 THEN 0 ELSE sps[k].to
           to(k) == IF k = n THEN p ELSE sps[k + 1].from
           toks2 == Append(toks, token)
           sps2 == Append(sps, span)
           from2(k) == IF k = 0 THEN 0 ELSE sps2[k].to
           to2(k) == IF k = Len(sps2) THEN q ELSE sps2[k + 1].from
<1>1. \A k \in DOMAIN toks : Spells(Text(s, sps[k].from, sps[k].to), toks[k])
  BY DEF Accounted
<1>2. \A k \in 0 .. n : from(k) <= to(k) /\ ToSet(Text(s, from(k), to(k))) \subseteq Whitespace
  BY Zenon DEF Accounted
<1>3. /\ n \in Nat /\ Len(sps2) = n + 1 /\ DOMAIN toks2 = 1 .. (n + 1) /\ DOMAIN toks = 1 .. n
      /\ toks2[n + 1] = token /\ sps2[n + 1] = span
      /\ \A k \in 1 .. n : toks2[k] = toks[k] /\ sps2[k] = sps[k]
  OBVIOUS
<1>4. ASSUME NEW k \in DOMAIN toks2 PROVE Spells(Text(s, sps2[k].from, sps2[k].to), toks2[k])
  <2> HIDE DEF toks2, sps2, n
  <2>1. CASE k = n + 1
    BY <1>3, <2>1
  <2>2. CASE k # n + 1
    <3>1. k \in 1 .. n
      BY <1>3, <2>2
    <3> QED
      BY <1>1, <1>3, <3>1
  <2> QED
    BY <2>1, <2>2
<1>5. ASSUME NEW k \in 0 .. Len(sps2)
      PROVE  from2(k) <= to2(k) /\ ToSet(Text(s, from2(k), to2(k))) \subseteq Whitespace
  <2>1. CASE k = n + 1
    <3>1. from2(k) = q /\ to2(k) = q
      <4> HIDE DEF sps2, n
      <4> QED
        BY <1>3, <2>1
    <3>2. ToSet(Text(s, q, q)) \subseteq Whitespace
      <4>1. q \in 0 .. Len(s) /\ q \in q .. Len(s) /\ 1 .. (q - q) = {}
        OBVIOUS
      <4> QED
        BY <4>1, WhitespaceText
    <3> HIDE DEF from2, to2
    <3> QED
      BY <3>1, <3>2
  <2>2. CASE k # n + 1
    <3>1. k \in 0 .. n
      <4> HIDE DEF sps2, n
      <4> QED
        BY <1>3, <2>2
    <3>2. from2(k) = from(k)
      <4> HIDE DEF sps2, n
      <4> QED
        BY <1>3, <3>1
    <3>3. to2(k) = to(k)
      <4>1. CASE k = n
        <5> HIDE DEF sps2, n
        <5> QED
          BY <1>3, <4>1
      <4>2. CASE k # n
        <5>1. k + 1 \in 1 .. n
          <6> HIDE DEF n
          <6> QED
            BY <1>3, <3>1, <4>2
        <5> HIDE DEF sps2, n
        <5> QED
          BY <1>3, <3>1, <4>2, <5>1
      <4> QED
        BY <4>1, <4>2
    <3> HIDE DEF from, to, from2, to2, n
    <3> QED
      BY <1>2, <3>1, <3>2, <3>3
  <2> QED
    BY <2>1, <2>2
<1> QED
  <2> HIDE DEF toks2, sps2
  <2>1. Accounted(s, toks2, sps2, q)
    BY Zenon, <1>4, <1>5 DEF Accounted
  <2> QED
    BY <2>1 DEF toks2, sps2

\* The invariant holds at first.
LEMMA LexInvInit ==
  ASSUME Init
  PROVE  LexInv
<1>1. /\ source \in Sources /\ cur = [pointer |-> 0, line |-> 0, col |-> 0]
      /\ tokens = <<>> /\ spans = <<>> /\ status = "lexing"
  BY DEF Init
<1>2. source \in Seq(Character) /\ Len(source) \in Nat
  BY <1>1, LexerAssumption
<1>3. cur \in Cursor /\ cur.pointer = 0
  BY <1>1 DEF Cursor
<1>4. tokens \in Seq(Tokens) /\ spans \in Seq(Spans) /\ Len(tokens) = 0 /\ Len(spans) = 0
  BY <1>1
<1>5. ToSet(Text(source, 0, 0)) \subseteq Whitespace
  <2>1. 0 \in 0 .. Len(source) /\ 1 .. (0 - 0) = {}
    BY <1>2
  <2> QED
    BY <1>2, <2>1, WhitespaceText
<1>6. Accounted(source, tokens, spans, 0)
  <2>1. DOMAIN tokens = {} /\ 0 .. Len(spans) = {0}
    BY <1>4
  <2>2. ASSUME NEW k \in 0 .. Len(spans)
        PROVE  LET from == IF k = 0 THEN 0 ELSE spans[k].to
                   to   == IF k = Len(spans) THEN 0 ELSE spans[k + 1].from
               IN  from <= to /\ ToSet(Text(source, from, to)) \subseteq Whitespace
    BY <1>4, <1>5, <2>1
  <2> QED
    BY <2>1, <2>2, Zenon DEF Accounted
<1> QED
  BY <1>1, <1>2, <1>3, <1>4, <1>6 DEF LexInv

\* What the accepting lexer has taken
LEMMA StepTakes ==
  ASSUME LexInv, Step
  PROVE  /\ source \in Seq(Character) /\ cur \in At(source) /\ cur.pointer \in Nat
         /\ UNCHANGED <<source, status>> /\ status = "lexing"
         /\ cur' \in Cursor /\ cur'.pointer \in Nat
         /\ cur.pointer < cur'.pointer /\ cur'.pointer <= Len(source)
         /\ \/ /\ UNCHANGED <<tokens, spans>>
               /\ ToSet(Text(source, cur.pointer, cur'.pointer)) \subseteq Whitespace
               /\ cur' = PassWhitespace(cur, Char(source, cur.pointer))
               /\ cur'.pointer = cur.pointer + 1
            \/ \E token \in Tokens :
                 /\ tokens' = Append(tokens, token)
                 /\ spans' = Append(spans, [from |-> cur.pointer, to |-> cur'.pointer])
                 /\ Spells(Text(source, cur.pointer, cur'.pointer), token)
                 /\ token.loc = Location(cur)
                 /\ token.kind = "numeric" \/ OnLine(cur, cur')
<1> DEFINE i == FirstAccepting(Lexed(source, cur))
           l == Lexed(source, cur)[i]
<1>1. /\ source \in Seq(Character) /\ cur \in At(source) /\ cur.pointer \in Nat
  BY LexerAssumption DEF LexInv, Step, Lexing, At, Cursor
<1>2. /\ i # 0 /\ cur' = l.cur
      /\ IF l.token = nil
         THEN UNCHANGED <<tokens, spans>>
         ELSE /\ tokens' = Append(tokens, l.token)
              /\ spans' = Append(spans, [from |-> cur.pointer, to |-> l.cur.pointer])
      /\ UNCHANGED <<source, status>> /\ status = "lexing"
  BY Zenon DEF Step, Lexing
<1>3. i \in 1 .. 5 /\ l.ok
  BY <1>2, FirstAccepts, Zenon
<1>4. TakesPiece(source, cur, l)
  <2> HIDE DEF i
  <2> QED
    BY <1>1, <1>3, LexedTakes
<1> HIDE DEF l, i
<1>5. /\ l.cur \in Cursor /\ cur.pointer < l.cur.pointer /\ l.cur.pointer <= Len(source)
      /\ \/ /\ l.token = nil
            /\ ToSet(Text(source, cur.pointer, l.cur.pointer)) \subseteq Whitespace
            /\ l.cur = PassWhitespace(cur, Char(source, cur.pointer))
            /\ l.cur.pointer = cur.pointer + 1
         \/ /\ l.token \in Tokens /\ Spells(Text(source, cur.pointer, l.cur.pointer), l.token)
            /\ l.token.loc = Location(cur)
            /\ l.token.kind = "numeric" \/ OnLine(cur, l.cur)
  BY <1>3, <1>4, Zenon DEF TakesPiece
<1>6. cur' \in Cursor /\ cur'.pointer \in Nat
  BY <1>2, <1>5 DEF Cursor
<1>7. nil \notin Tokens
  BY LexerAssumption
<1> QED
  BY <1>1, <1>2, <1>5, <1>6, <1>7, Zenon

\* A turn of the loop keeps the invariant.
LEMMA LexInvStep ==
  ASSUME LexInv, Step
  PROVE  LexInv'
<1>1. /\ source \in Seq(Character) /\ cur.pointer \in Nat
      /\ UNCHANGED <<source, status>> /\ status = "lexing"
      /\ cur' \in Cursor /\ cur'.pointer \in Nat
      /\ cur.pointer < cur'.pointer /\ cur'.pointer <= Len(source)
      /\ \/ /\ UNCHANGED <<tokens, spans>>
            /\ ToSet(Text(source, cur.pointer, cur'.pointer)) \subseteq Whitespace
         \/ \E token \in Tokens :
              /\ tokens' = Append(tokens, token)
              /\ spans' = Append(spans, [from |-> cur.pointer, to |-> cur'.pointer])
              /\ Spells(Text(source, cur.pointer, cur'.pointer), token)
  BY StepTakes
<1>2. /\ source \in Sources /\ tokens \in Seq(Tokens) /\ spans \in Seq(Spans)
      /\ Len(tokens) = Len(spans) /\ Accounted(source, tokens, spans, cur.pointer)
  BY DEF LexInv
<1>3. cur.pointer <= cur'.pointer
  BY <1>1
<1>4. CASE /\ UNCHANGED <<tokens, spans>>
           /\ ToSet(Text(source, cur.pointer, cur'.pointer)) \subseteq Whitespace
  <2>1. Accounted(source, tokens, spans, cur'.pointer)
    BY <1>1, <1>2, <1>3, <1>4, AccountedOn
  <2> QED
    BY <1>1, <1>2, <1>4, <2>1 DEF LexInv
<1>5. CASE \E token \in Tokens :
             /\ tokens' = Append(tokens, token)
             /\ spans' = Append(spans, [from |-> cur.pointer, to |-> cur'.pointer])
             /\ Spells(Text(source, cur.pointer, cur'.pointer), token)
  <2>1. PICK token \in Tokens :
          /\ tokens' = Append(tokens, token)
          /\ spans' = Append(spans, [from |-> cur.pointer, to |-> cur'.pointer])
          /\ Spells(Text(source, cur.pointer, cur'.pointer), token)
    BY <1>5
  <2> DEFINE span == [from |-> cur.pointer, to |-> cur'.pointer]
  <2>2. span \in Spans /\ span.from = cur.pointer /\ span.to = cur'.pointer
    BY <1>1 DEF Spans
  <2>3. spans' = Append(spans, span)
    BY <2>1
  <2> HIDE DEF span
  <2>4. Accounted(source, Append(tokens, token), Append(spans, span), cur'.pointer)
    BY <1>1, <1>2, <1>3, <2>1, <2>2, AccountedToken
  <2>5. Accounted(source, tokens, spans, cur.pointer)'
    BY <1>1, <2>1, <2>3, <2>4
  <2>6. /\ Append(tokens, token) \in Seq(Tokens) /\ Append(spans, span) \in Seq(Spans)
        /\ Len(Append(tokens, token)) = Len(Append(spans, span))
    BY <1>2, <2>2
  <2> QED
    BY <1>1, <1>2, <2>1, <2>3, <2>5, <2>6 DEF LexInv
<1> QED
  BY <1>1, <1>4, <1>5

\* So do all steps.
LEMMA LexInvNext ==
  ASSUME LexInv, [Next]_vars
  PROVE  LexInv'
<1>1. CASE Step
  BY <1>1, LexInvStep
<1>2. CASE Fail
  BY <1>2 DEF LexInv, Fail, Accounted
<1>3. CASE Finish
  <2>1. cur.pointer = Len(source)
    <3>1. cur.pointer \in Nat /\ Len(source) \in Nat
      BY LexerAssumption DEF LexInv, Cursor
    <3> QED
      BY <1>3, <3>1 DEF LexInv, Finish
  <2> QED
    BY <1>3, <2>1 DEF LexInv, Finish, Accounted
<1>4. CASE UNCHANGED vars
  BY <1>4 DEF LexInv, vars, Accounted
<1> QED
  BY <1>1, <1>2, <1>3, <1>4 DEF Next

(***************************************************************************)
(* The invariant of the loop of lex: what has been read is accounted for,  *)
(* and when lex is done it has come to the end of the text.                *)
(***************************************************************************)
THEOREM LexInvAlways == Spec => []LexInv
<1>1. Init => LexInv
  BY LexInvInit
<1>2. LexInv /\ [Next]_vars => LexInv'
  BY LexInvNext
<1> QED
  BY <1>1, <1>2, PTL DEF Spec

(***************************************************************************)
(* NothingLost: the tokens, in order and with only whitespace between      *)
(* them, are the text up to the cursor, for any text, keywords, symbols    *)
(* and alphabet.  (lex, lexer.go)                                          *)
(***************************************************************************)
THEOREM NoTextLost == Spec => []NothingLost
<1>1. LexInv => NothingLost
  BY DEF LexInv, Accounted, NothingLost
<1> QED
  BY <1>1, LexInvAlways, PTL

\* Each turn of the loop gets further, and not beyond the end.
GetsFurther == Step => cur.pointer < cur'.pointer /\ cur'.pointer <= Len(source)

(***************************************************************************)
(* The step that the end of lex rests on: no lexer accepts without taking  *)
(* a character, and none goes beyond the end of the text.                  *)
(***************************************************************************)
THEOREM LexGetsFurther == Spec => [][GetsFurther]_vars
<1>1. LexInv /\ [Next]_vars => [GetsFurther]_vars
  BY StepTakes DEF GetsFurther
<1> QED
  BY <1>1, LexInvAlways, PTL DEF Spec

(***************************************************************************)
(* LongestMatchRight: the longest of the options is found whatever others  *)
(* begin the same.  (longestMatch)                                         *)
(***************************************************************************)
THEOREM LongestIsFound == Spec => []LongestMatchRight
<1>1. ASSUME LexInv PROVE LongestMatchRight
  <2> SUFFICES ASSUME Lexing, NEW options \in {Keywords, Symbols}
               PROVE  LET match == LongestMatch(source, cur, options)
                          rest == ToLower(Text(source, cur.pointer, Len(source)))
                          fits == {o \in options : IsPrefix(o, rest)}
                      IN  IF fits = {} THEN match = <<>>
                          ELSE match \in fits /\ \A o \in fits : Len(o) <= Len(match)
    BY DEF LongestMatchRight
  <2> DEFINE match == LongestMatch(source, cur, options)
             rest == ToLower(Text(source, cur.pointer, Len(source)))
             fits == {o \in options : IsPrefix(o, rest)}
  <2>1. source \in Seq(Character) /\ cur \in At(source)
    BY <1>1, LexerAssumption DEF LexInv, Lexing, At, Cursor
  <2>2. options \in SUBSET (Seq(Character) \ {<<>>})
    BY LexerAssumption
  <2>3. /\ cur.pointer \in Nat /\ Len(source) \in Nat /\ cur.pointer \in 0 .. Len(source)
        /\ Len(source) \in cur.pointer .. Len(source)
    BY <2>1, CursorShape
  <2>4. /\ rest \in Seq(Character) /\ Len(rest) = Len(source) - cur.pointer
        /\ \A i \in 1 .. (Len(source) - cur.pointer) : rest[i] = Low(source[cur.pointer + i])
    BY <2>1, <2>3, ReadShape
  <2>5. /\ match = <<>> \/ (match \in options /\ ReadsAt(source, cur.pointer, match))
        /\ \A o \in options : ReadsAt(source, cur.pointer, o) => Len(o) <= Len(match)
    BY <2>1, <2>2, LongestMatchLongest
  <2> HIDE DEF rest, match
  <2>6. ASSUME NEW o \in options PROVE ReadsAt(source, cur.pointer, o) <=> IsPrefix(o, rest)
    <3>1. o \in Seq(Character) /\ Len(o) \in Nat
      BY <2>2
    <3>2. IsPrefix(o, rest) <=> Len(o) <= Len(rest) /\ \A i \in 1 .. Len(o) : o[i] = rest[i]
      BY <2>4, <3>1, PrefixMeans
    <3>3. Len(o) <= Len(rest) <=> cur.pointer + Len(o) <= Len(source)
      BY <2>3, <2>4, <3>1
    <3>4. ASSUME Len(o) <= Len(rest)
          PROVE  \A i \in 1 .. Len(o) : rest[i] = Low(source[cur.pointer + i])
      BY <2>3, <2>4, <3>1, <3>4
    <3> QED
      BY <3>2, <3>3, <3>4 DEF ReadsAt
  <2> SUFFICES IF fits = {} THEN match = <<>>
               ELSE match \in fits /\ \A o \in fits : Len(o) <= Len(match)
    BY Zenon DEF match, rest
  <2>7. CASE fits = {}
    BY <2>5, <2>6, <2>7
  <2>8. CASE fits # {}
    <3>1. PICK o \in options : ReadsAt(source, cur.pointer, o)
      BY <2>6, <2>8
    <3>2. match # <<>>
      <4>1. o \in Seq(Character) /\ o # <<>> /\ Len(o) > 0 /\ Len(o) <= Len(match)
        BY <2>2, <2>5, <3>1
      <4> QED
        BY <4>1
    <3>3. match \in fits
      BY <2>5, <2>6, <3>2
    <3> QED
      BY <2>5, <2>6, <2>8, <3>3
  <2> QED
    BY <2>7, <2>8
<1> QED
  BY <1>1, LexInvAlways, PTL

------------------------------------------------------------------------------
(***************************************************************************)
(* Locations.                                                              *)
(***************************************************************************)

Breaks(s, p) == {q \in 0 .. (p - 1) : Char(s, q) = "\n"}

\* TrueLocation, in any text
Place(s, p) ==
  [line |-> Cardinality(Breaks(s, p)),
   col  |-> IF Breaks(s, p) = {} THEN p ELSE p - 1 - Max(Breaks(s, p))]

\* The line breaks before a position are finitely many, and one is the last.
LEMMA BreaksShape ==
  ASSUME NEW s, NEW p \in Nat
  PROVE  /\ IsFiniteSet(Breaks(s, p)) /\ Cardinality(Breaks(s, p)) \in Nat
         /\ Breaks(s, p) # {} => /\ Max(Breaks(s, p)) \in Breaks(s, p)
                                 /\ Max(Breaks(s, p)) \in Int
                                 /\ \A q \in Breaks(s, p) : Max(Breaks(s, p)) >= q
<1> DEFINE B == Breaks(s, p)
<1>1. B \in SUBSET (0 .. (p - 1))
  BY DEF Breaks
<1>2. 0 \in Int /\ p - 1 \in Int
  OBVIOUS
<1> HIDE DEF B
<1>3. IsFiniteSet(0 .. (p - 1))
  BY <1>2, FS_Interval
<1>4. IsFiniteSet(B) /\ Cardinality(B) \in Nat
  BY <1>1, <1>3, FS_Subset, FS_CardinalityType
<1>5. B # {} => Max(B) \in B /\ \A q \in B : Max(B) >= q
  BY <1>1, <1>2, GreatestInteger
<1>6. B # {} => Max(B) \in Int
  <2>1. \A q \in B : q \in Int
    BY <1>1
  <2> QED
    BY <1>5, <2>1
<1> QED
  BY <1>4, <1>5, <1>6 DEF B

\* Without a line break in between, the column grows with the position.
LEMMA PlaceOn ==
  ASSUME NEW s, NEW p \in Nat, NEW q \in Nat, p <= q,
         \A i \in p .. (q - 1) : Char(s, i) # "\n"
  PROVE  /\ Place(s, q).line = Place(s, p).line
         /\ Place(s, q).col = Place(s, p).col + (q - p)
<1>1. Breaks(s, q) = Breaks(s, p)
  <2>1. ASSUME NEW i \in 0 .. (q - 1), Char(s, i) = "\n" PROVE i \in 0 .. (p - 1)
    BY <2>1
  <2>2. \A i \in 0 .. (p - 1) : i \in 0 .. (q - 1)
    OBVIOUS
  <2> QED
    BY <2>1, <2>2 DEF Breaks
<1> DEFINE B == Breaks(s, p)
           m == Max(B)
<1>2. B # {} => m \in Int
  BY BreaksShape
<1>3. /\ Place(s, q).line = Cardinality(B) /\ Place(s, p).line = Cardinality(B)
      /\ Place(s, q).col = IF B = {} THEN q ELSE q - 1 - m
      /\ Place(s, p).col = IF B = {} THEN p ELSE p - 1 - m
  BY <1>1 DEF Place
<1> HIDE DEF B, m
<1> QED
  BY <1>2, <1>3

\* After a line break comes the beginning of the next line.
LEMMA PlaceBreak ==
  ASSUME NEW s, NEW p \in Nat, Char(s, p) = "\n"
  PROVE  Place(s, p + 1).line = Place(s, p).line + 1 /\ Place(s, p + 1).col = 0
<1> DEFINE B == Breaks(s, p)
           C == Breaks(s, p + 1)
<1>1. C = B \cup {p} /\ p \notin B
  <2>1. 0 .. ((p + 1) - 1) = (0 .. (p - 1)) \cup {p} /\ p \notin 0 .. (p - 1)
    OBVIOUS
  <2> QED
    BY <2>1 DEF Breaks
<1>2. Cardinality(C) = Cardinality(B) + 1
  <2>1. IsFiniteSet(B)
    BY BreaksShape
  <2> HIDE DEF B, C
  <2> QED
    BY <1>1, <2>1, FS_AddElement
<1>3. Max(C) = p
  <2>1. /\ C # {} /\ p \in C /\ \A q \in C : q <= p /\ q \in Int
    BY <1>1 DEF Breaks
  <2>2. Max(C) \in C /\ Max(C) >= p
    <3>1. p + 1 \in Nat
      OBVIOUS
    <3> QED
      BY <2>1, <3>1, BreaksShape
  <2> DEFINE m == Max(C)
  <2>3. m \in C /\ m >= p
    BY <2>2
  <2> HIDE DEF C, m
  <2>4. m = p
    BY <2>1, <2>3
  <2> QED
    BY <2>4 DEF m
<1>4. /\ Place(s, p + 1).line = Cardinality(C) /\ Place(s, p).line = Cardinality(B)
      /\ Place(s, p + 1).col = IF C = {} THEN p + 1 ELSE (p + 1) - 1 - Max(C)
  BY DEF Place
<1>5. C # {}
  BY <1>1
<1> HIDE DEF B, C
<1> QED
  BY <1>2, <1>3, <1>4, <1>5

\* A text between delimiters, character by character
LEMMA QuotedShape ==
  ASSUME NEW d \in Character, NEW v \in Seq(Character)
  PROVE  /\ Quoted(d, v) \in Seq(Character) /\ Len(Quoted(d, v)) = Len(v) + 2
         /\ Quoted(d, v)[1] = d /\ Quoted(d, v)[Len(v) + 2] = d
         /\ \A i \in 1 .. Len(v) : Quoted(d, v)[i + 1] = v[i]
BY DEF Quoted

\* A character that is in neither the text nor the delimiter
LEMMA QuotedWithout ==
  ASSUME NEW d \in Character, NEW v \in Seq(Character), NEW c, d # c,
         \A i \in 1 .. Len(v) : v[i] # c
  PROVE  \A i \in 1 .. Len(Quoted(d, v)) : Quoted(d, v)[i] # c
<1> PICK u, n : u = Quoted(d, v) /\ n = Len(v)
  OBVIOUS
<1>1. /\ n \in Nat /\ Len(u) = n + 2 /\ u[1] = d /\ u[n + 2] = d
      /\ \A i \in 1 .. n : u[i + 1] = v[i]
  <2>1. /\ Len(Quoted(d, v)) = Len(v) + 2
        /\ Quoted(d, v)[1] = d /\ Quoted(d, v)[Len(v) + 2] = d
        /\ \A i \in 1 .. Len(v) : Quoted(d, v)[i + 1] = v[i]
    BY ONLY d \in Character, v \in Seq(Character), QuotedShape
  <2>2. n \in Nat
    OBVIOUS
  <2> QED
    BY ONLY <2>1, <2>2, u = Quoted(d, v) /\ n = Len(v)
<1>2. d # c /\ \A i \in 1 .. n : v[i] # c
  OBVIOUS
<1>3. ASSUME NEW i \in 1 .. (n + 2) PROVE u[i] # c
  <2>3. u[1] # c /\ u[n + 2] # c
    BY ONLY <1>1, <1>2, Zenon
  <2>1. CASE i = 1 \/ i = n + 2
    BY ONLY <2>1, <2>3, Zenon
  <2>2. CASE i # 1 /\ i # n + 2
    <3>1. i - 1 \in 1 .. n /\ (i - 1) + 1 = i
      BY ONLY <1>1, <2>2, i \in 1 .. (n + 2)
    <3>2. u[(i - 1) + 1] = v[i - 1]
      BY ONLY <1>1, <3>1
    <3> QED
      BY ONLY <1>2, <3>1, <3>2
  <2> QED
    BY <2>1, <2>2
<1> QED
  BY <1>1, <1>3

\* A text with a line break makes a token that has one.
LEMMA NoBreakIn ==
  ASSUME NEW text \in Seq(Character), NEW token \in Tokens, Spells(text, token),
         ~DriftsAfter(token)
  PROVE  \A i \in 1 .. Len(text) : text[i] # "\n"
<1> DEFINE v == token.value
<1>1. v \in Seq(Character) /\ token.kind # "numeric" /\ \A i \in 1 .. Len(v) : v[i] # "\n"
  BY DEF Tokens, DriftsAfter, ToSet
<1>2. ASSUME text = v PROVE \A i \in 1 .. Len(text) : text[i] # "\n"
  BY <1>1, <1>2
<1>3. ASSUME ToLower(text) = v PROVE \A i \in 1 .. Len(text) : text[i] # "\n"
  <2>1. "\n" \notin DOMAIN lower
    BY LexerAssumption
  <2>2. Len(v) = Len(text) /\ \A i \in 1 .. Len(text) : v[i] = Low(text[i])
    BY <1>3, LowerShape
  <2> QED
    BY <1>1, <2>1, <2>2 DEF Low
<1>4. ASSUME NEW d \in {"'", "\""}, text = Quoted(d, v)
      PROVE  \A i \in 1 .. Len(text) : text[i] # "\n"
  <2>1. d \in Character /\ d # "\n"
    BY DEF Character
  <2>2. \A i \in 1 .. Len(Quoted(d, v)) : Quoted(d, v)[i] # "\n"
    BY <1>1, <2>1, QuotedWithout, Zenon
  <2> QED
    BY <1>4, <2>2, Zenon
<1>5. ASSUME text = <<"!", "=">> PROVE \A i \in 1 .. Len(text) : text[i] # "\n"
  BY <1>5
<1>6. \/ text = v \/ ToLower(text) = v \/ (\E d \in {"'", "\""} : text = Quoted(d, v))
      \/ text = <<"!", "=">>
  BY Zenon DEF Spells
<1> HIDE DEF v
<1> QED
  BY <1>2, <1>3, <1>4, <1>5, <1>6

NoDrift(toks, n) == \A j \in 1 .. n : ~DriftsAfter(toks[j])

\* LocationExact, and the cursor where the next token will be said to be
Located(s, toks, sps, ic) ==
  /\ NoDrift(toks, Len(toks)) => Location(ic) = Place(s, ic.pointer)
  /\ \A k \in 1 .. Len(toks) :
       NoDrift(toks, k - 1) => toks[k].loc = Place(s, sps[k].from)

\* Two locations are the same by line and column.
LEMMA LocationMeans ==
  ASSUME NEW s, NEW ic, NEW p
  PROVE  Location(ic) = Place(s, p)
           <=> ic.line = Place(s, p).line /\ ic.col = Place(s, p).col
BY DEF Location, Place

\* Moved along the line over a text without a line break, the cursor is right.
LEMMA CursorOn ==
  ASSUME NEW s, NEW ic \in Cursor, NEW jc \in Cursor, OnLine(ic, jc),
         ic.pointer <= jc.pointer,
         \A i \in ic.pointer .. (jc.pointer - 1) : Char(s, i) # "\n",
         Location(ic) = Place(s, ic.pointer)
  PROVE  Location(jc) = Place(s, jc.pointer)
<1> DEFINE p == ic.pointer
           q == jc.pointer
<1>1. /\ p \in Nat /\ q \in Nat /\ ic.col \in Nat /\ jc.col \in Nat
      /\ jc.line = ic.line /\ jc.col + p = ic.col + q
  BY DEF Cursor, OnLine
<1>2. Place(s, q).line = Place(s, p).line /\ Place(s, q).col = Place(s, p).col + (q - p)
  <2> HIDE DEF p, q
  <2>1. p <= q /\ \A i \in p .. (q - 1) : Char(s, i) # "\n"
    BY DEF p, q
  <2> QED
    BY <1>1, <2>1, PlaceOn
<1>3. ic.line = Place(s, p).line /\ ic.col = Place(s, p).col
  BY LocationMeans
<1> HIDE DEF p, q
<1>4. jc.line = Place(s, q).line /\ jc.col = Place(s, q).col
  BY <1>1, <1>2, <1>3
<1> QED
  BY <1>4, LocationMeans DEF q

\* Whitespace leaves the cursor right.
LEMMA CursorPasses ==
  ASSUME NEW s, NEW ic \in Cursor, NEW jc \in Cursor,
         jc = PassWhitespace(ic, Char(s, ic.pointer)), jc.pointer = ic.pointer + 1,
         Location(ic) = Place(s, ic.pointer)
  PROVE  Location(jc) = Place(s, jc.pointer)
<1> DEFINE p == ic.pointer
<1>1. p \in Nat /\ ic.line \in Nat /\ ic.col \in Nat /\ (p + 1) - 1 = p
  BY DEF Cursor
<1>2. CASE Char(s, p) = "\n"
  <2>1. jc.line = ic.line + 1 /\ jc.col = 0
    <3> DEFINE kc == Advance(ic, 1)
    <3>1. kc \in Cursor /\ OnLine(ic, kc)
      BY AdvanceShape, AdvanceOnLine
    <3>2. kc.line = ic.line
      BY <3>1 DEF OnLine
    <3>3. jc = [kc EXCEPT !.line = @ + 1, !.col = 0]
      BY <1>2 DEF PassWhitespace
    <3> HIDE DEF kc
    <3>4. \A a : [kc EXCEPT !.line = a, !.col = 0].line = a
                 /\ [kc EXCEPT !.line = a, !.col = 0].col = 0
      BY <3>1 DEF Cursor
    <3> QED
      BY <3>2, <3>3, <3>4
  <2>2. Place(s, p + 1).line = Place(s, p).line + 1 /\ Place(s, p + 1).col = 0
    BY <1>1, <1>2, PlaceBreak
  <2>3. ic.line = Place(s, p).line
    BY LocationMeans
  <2>4. jc.line = Place(s, p + 1).line /\ jc.col = Place(s, p + 1).col
    BY <2>1, <2>2, <2>3
  <2> QED
    BY <2>4, LocationMeans
<1>3. CASE Char(s, p) # "\n"
  <2>1. jc = Advance(ic, 1)
    BY <1>3 DEF PassWhitespace
  <2>2. OnLine(ic, jc)
    BY <2>1, AdvanceOnLine
  <2>3. \A i \in p .. (jc.pointer - 1) : Char(s, i) # "\n"
    BY <1>1, <1>3
  <2>4. ic.pointer <= jc.pointer
    BY <1>1
  <2> QED
    BY <2>2, <2>3, <2>4, CursorOn
<1> QED
  BY <1>2, <1>3

\* A token that does not drift leaves the cursor right.
LEMMA CursorTakes ==
  ASSUME NEW s \in Seq(Character), NEW ic \in At(s), NEW jc \in Cursor,
         ic.pointer < jc.pointer, jc.pointer <= Len(s), NEW token \in Tokens,
         Spells(Text(s, ic.pointer, jc.pointer), token),
         token.kind = "numeric" \/ OnLine(ic, jc), ~DriftsAfter(token),
         Location(ic) = Place(s, ic.pointer)
  PROVE  Location(jc) = Place(s, jc.pointer)
<1> DEFINE p == ic.pointer
           q == jc.pointer
           t == Text(s, p, q)
<1>1. ic \in Cursor /\ p \in Nat /\ q \in Nat /\ p <= q /\ OnLine(ic, jc)
  BY CursorShape DEF Cursor, DriftsAfter
<1>2. p \in 0 .. Len(s) /\ q \in p .. Len(s)
  BY <1>1
<1>3. /\ t \in Seq(Character) /\ Len(t) = q - p
      /\ \A i \in 1 .. (q - p) : t[i] = s[p + i]
  BY <1>2, TextShape
<1>4. \A i \in 1 .. Len(t) : t[i] # "\n"
  BY <1>3, NoBreakIn
<1> HIDE DEF t
<1>5. ASSUME NEW i \in p .. (q - 1) PROVE Char(s, i) # "\n"
  <2> HIDE DEF p, q
  <2>1. i + 1 - p \in 1 .. (q - p) /\ p + (i + 1 - p) = i + 1
    BY <1>1
  <2>2. t[i + 1 - p] = s[i + 1] /\ t[i + 1 - p] # "\n"
    BY <1>3, <1>4, <2>1
  <2> QED
    BY <2>2, Zenon DEF Char
<1> QED
  BY <1>1, <1>5, CursorOn

\* A turn of the loop keeps locations exact.
LEMMA LocatedStep ==
  ASSUME LexInv, Located(source, tokens, spans, cur), Step
  PROVE  Located(source, tokens, spans, cur)'
<1>1. /\ source \in Seq(Character) /\ cur \in At(source)
      /\ UNCHANGED source /\ cur' \in Cursor
      /\ cur.pointer < cur'.pointer /\ cur'.pointer <= Len(source)
      /\ \/ /\ UNCHANGED <<tokens, spans>>
            /\ cur' = PassWhitespace(cur, Char(source, cur.pointer))
            /\ cur'.pointer = cur.pointer + 1
         \/ \E token \in Tokens :
              /\ tokens' = Append(tokens, token)
              /\ spans' = Append(spans, [from |-> cur.pointer, to |-> cur'.pointer])
              /\ Spells(Text(source, cur.pointer, cur'.pointer), token)
              /\ token.loc = Location(cur)
              /\ token.kind = "numeric" \/ OnLine(cur, cur')
  BY StepTakes
<1>2. cur \in Cursor /\ tokens \in Seq(Tokens) /\ spans \in Seq(Spans) /\ Len(tokens) = Len(spans)
  BY DEF LexInv
<1> DEFINE n == Len(tokens)
<1>3. /\ NoDrift(tokens, n) => Location(cur) = Place(source, cur.pointer)
      /\ \A k \in 1 .. n : NoDrift(tokens, k - 1) => tokens[k].loc = Place(source, spans[k].from)
  BY DEF Located
<1>4. CASE /\ UNCHANGED <<tokens, spans>>
           /\ cur' = PassWhitespace(cur, Char(source, cur.pointer))
           /\ cur'.pointer = cur.pointer + 1
  <2>1. ASSUME NoDrift(tokens, n) PROVE Location(cur') = Place(source, cur'.pointer)
    <3>1. Location(cur) = Place(source, cur.pointer)
      BY <1>3, <2>1
    <3> QED
      BY <1>1, <1>2, <1>4, <3>1, CursorPasses
  <2> QED
    BY <1>1, <1>3, <1>4, <2>1, Zenon DEF Located
<1>5. CASE \E token \in Tokens :
              /\ tokens' = Append(tokens, token)
              /\ spans' = Append(spans, [from |-> cur.pointer, to |-> cur'.pointer])
              /\ Spells(Text(source, cur.pointer, cur'.pointer), token)
              /\ token.loc = Location(cur)
              /\ token.kind = "numeric" \/ OnLine(cur, cur')
  <2>1. PICK token \in Tokens :
              /\ tokens' = Append(tokens, token)
              /\ spans' = Append(spans, [from |-> cur.pointer, to |-> cur'.pointer])
              /\ Spells(Text(source, cur.pointer, cur'.pointer), token)
              /\ token.loc = Location(cur)
              /\ token.kind = "numeric" \/ OnLine(cur, cur')
    BY <1>5
  <2>2. /\ n \in Nat /\ Len(tokens') = n + 1 /\ tokens'[n + 1] = token
        /\ spans'[n + 1].from = cur.pointer
        /\ \A k \in 1 .. n : tokens'[k] = tokens[k] /\ spans'[k] = spans[k]
    BY <1>2, <2>1
  <2> HIDE DEF n
  <2>3. \A m \in 0 .. n : NoDrift(tokens', m) <=> NoDrift(tokens, m)
    <3> SUFFICES ASSUME NEW m \in 0 .. n PROVE NoDrift(tokens', m) <=> NoDrift(tokens, m)
      OBVIOUS
    <3>1. \A j \in 1 .. m : j \in 1 .. n
      BY <2>2
    <3> QED
      BY <2>2, <3>1, Zenon DEF NoDrift
  <2>4. ASSUME NoDrift(tokens', n + 1) PROVE Location(cur') = Place(source, cur'.pointer)
    <3>1. NoDrift(tokens', n) /\ ~DriftsAfter(token)
      BY <2>2, <2>4 DEF NoDrift
    <3>2. n \in 0 .. n
      BY <2>2
    <3>3. Location(cur) = Place(source, cur.pointer)
      BY <1>3, <2>3, <3>1, <3>2
    <3> QED
      BY <1>1, <2>1, <3>1, <3>3, CursorTakes
  <2>5. ASSUME NEW k \in 1 .. (n + 1), NoDrift(tokens', k - 1)
        PROVE  tokens'[k].loc = Place(source, spans'[k].from)
    <3>1. k - 1 \in 0 .. n
      BY <2>2
    <3>2. NoDrift(tokens, k - 1)
      BY <2>3, <2>5, <3>1
    <3>3. CASE k = n + 1
      <4>1. k - 1 = n
        BY <2>2, <3>3
      <4>2. Location(cur) = Place(source, cur.pointer)
        BY <1>3, <3>2, <4>1
      <4> QED
        BY <2>1, <2>2, <3>3, <4>2
    <3>4. CASE k # n + 1
      <4>1. k \in 1 .. n
        BY <2>2, <3>4
      <4> QED
        BY <1>3, <2>2, <3>2, <4>1
    <3> QED
      BY <3>3, <3>4
  <2> QED
    BY <1>1, <2>2, <2>4, <2>5, Zenon DEF Located
<1> QED
  BY <1>1, <1>4, <1>5

(***************************************************************************)
(* LocationExact: before any number and any quoted line break, and at the  *)
(* first of them, the locations of the tokens are where they are in the    *)
(* text.  (the line and col that the lexers keep in the cursor)            *)
(***************************************************************************)
THEOREM LocationsExact == Spec => []LocationExact
<1> DEFINE Inv == Located(source, tokens, spans, cur)
<1>1. ASSUME Init PROVE Inv
  <2>1. /\ source \in Sources /\ cur = [pointer |-> 0, line |-> 0, col |-> 0]
        /\ tokens = <<>>
    BY <1>1 DEF Init
  <2>2. Breaks(source, 0) = {} /\ Cardinality({}) = 0
    BY FS_EmptySet DEF Breaks
  <2>3. Location(cur) = Place(source, cur.pointer)
    <3>1. cur.pointer = 0 /\ cur.line = 0 /\ cur.col = 0
      BY <2>1
    <3>2. Place(source, 0).line = 0 /\ Place(source, 0).col = 0
      BY <2>2, Zenon DEF Place
    <3> QED
      BY <3>1, <3>2, LocationMeans
  <2>4. 1 .. Len(tokens) = {}
    BY <2>1
  <2> QED
    BY <2>3, <2>4, Zenon DEF Located
<1>2. ASSUME LexInv, Inv, [Next]_vars PROVE Inv'
  <2>1. CASE Step
    BY <1>2, <2>1, LocatedStep
  <2>2. CASE Fail \/ Finish \/ UNCHANGED vars
    BY <1>2, <2>2 DEF Fail, Finish, vars, Located
  <2> QED
    BY <1>2, <2>1, <2>2 DEF Next
<1>3. ASSUME LexInv, Inv PROVE LocationExact
  <2>1. DOMAIN tokens = 1 .. Len(tokens)
    BY <1>3 DEF LexInv
  <2>2. \A p : TrueLocation(p) = Place(source, p)
    BY Zenon DEF TrueLocation, Place, Breaks
  <2> QED
    BY <1>3, <2>1, <2>2, Zenon DEF LocationExact, Located, NoDrift
<1> HIDE DEF Inv
<1>4. Init => Inv
  BY <1>1
<1>5. LexInv /\ Inv /\ [Next]_vars => Inv'
  BY <1>2
<1>6. LexInv /\ Inv => LocationExact
  BY <1>3
<1> QED
  BY <1>4, <1>5, <1>6, LexInvAlways, PTL DEF Spec
=============================================================================
