------------------------------- MODULE Lexer -------------------------------
(***************************************************************************)
(* lexer.go: the loop of lex and the lexers it tries in turn at the cursor.*)
(* A source is a sequence of characters, each a string of length one.  The *)
(* cursor's pointer counts from 0, as in the code.                         *)
(***************************************************************************)
EXTENDS Integers, SequencesExt

CONSTANTS
  nil,
  Sources,          \* the texts given to lex
  Letters, Digits,  \* the characters that are letters and digits
  lower,            \* the lower case of each upper case letter
  Keywords, Symbols \* sequences of characters

\* Any character.  Those that Lexer itself puts into texts are listed, because
\* TLAPS does not know what strings there are in STRING.
Character == STRING \cup {"'", "\"", "<", ">"}

Kinds == {"keyword", "symbol", "string", "numeric", "identifier", "bool", "null"}

Tokens == [value: Seq(Character), kind: Kinds, loc: [line: Nat, col: Nat]]

\* Symbols have no lower case letters, and line breaks are no letters.
ASSUME LexerAssumption ==
  /\ Sources \subseteq Seq(Character)
  /\ DOMAIN lower \subseteq Letters /\ lower \in [DOMAIN lower -> Character]
  /\ Keywords \cup Symbols \subseteq Seq(Character) \ {<<>>}
  /\ \A o \in Symbols : \A i \in DOMAIN o : \A c \in DOMAIN lower : o[i] # lower[c]
  /\ "\n" \notin Letters
  /\ nil \notin Tokens

Whitespace == {" ", "\t", "\n"}

VARIABLES
  source,
  cur,      \* the cursor: pointer, line, col
  tokens,
  spans,    \* history: where each token begins, and where the next may
  status    \* "lexing", "done" or "failed"

vars == <<source, cur, tokens, spans, status>>

Char(s, p) == s[p + 1]

ToLower(s) == [i \in DOMAIN s |-> IF s[i] \in DOMAIN lower THEN lower[s[i]] ELSE s[i]]

Text(s, from, to) == SubSeq(s, from + 1, to)

(***************************************************************************)
(* A loop over the characters from position p on: what Turn(st, q) makes   *)
(* of st at each position q, beginning with base.  (The singleton makes    *)
(* TLC evaluate st once.)                                                  *)
(***************************************************************************)
Scan(s, p, base, Turn(_, _)) ==
  LET scan[q \in p .. Len(s)] ==
        IF q = p THEN base
        ELSE CHOOSE r \in {Turn(st, q - 1) : st \in {scan[q - 1]}} : TRUE
  IN  scan[Len(s)]

\* n characters further on the same line
Advance(ic, n) == [ic EXCEPT !.pointer = @ + n, !.col = @ + n]

Location(ic) == [line |-> ic.line, col |-> ic.col]

Token(value, kind, ic) == [value |-> value, kind |-> kind, loc |-> Location(ic)]

Accept(token, ic) == [ok |-> TRUE, token |-> token, cur |-> ic]
Reject            == [ok |-> FALSE, token |-> nil, cur |-> nil]

(***************************************************************************)
(* longestMatch.  The options are struck off as they are matched or cease  *)
(* to share the text read so far; matching goes on for the longer ones.    *)
(***************************************************************************)
\* Faulty: the first match ends the search
NarrowFirst(options, st, value) ==
  LET left == options \ st.skipList
  IN  [skipList |-> IF value \in left THEN options
                    ELSE st.skipList \cup {o \in left : ~IsPrefix(value, o)},
       match    |-> IF value \in left THEN value ELSE st.match]

Narrow(options, st, value) ==
  LET left == options \ st.skipList
  IN  [skipList |-> st.skipList \cup {o \in left : o = value \/ ~IsPrefix(value, o)},
       match    |-> IF value \in left /\ Len(value) > Len(st.match)
                    THEN value ELSE st.match]

LongestMatch(s, ic, options) ==
  Scan(s, ic.pointer, [skipList |-> {}, match |-> <<>>],
       LAMBDA st, p : Narrow(options, st, ToLower(Text(s, ic.pointer, p + 1)))).match

LexKeyword(s, ic) ==
  LET match == LongestMatch(s, ic, Keywords)
      kind  == CASE match \in {<<"t","r","u","e">>, <<"f","a","l","s","e">>} -> "bool"
                 [] match = <<"n","u","l","l">> -> "null"
                 [] OTHER -> "keyword"
  IN  IF match = <<>> THEN Reject
      ELSE Accept(Token(match, kind, ic), Advance(ic, Len(match)))

(***************************************************************************)
(* lexSymbol.  Whitespace is accepted without a token.                     *)
(***************************************************************************)
\* Faulty: a new line does not begin at column 0; a space is not passed
PassWhitespaceOn(ic, c) ==
  IF c = "\n" THEN [Advance(ic, 1) EXCEPT !.line = @ + 1] ELSE Advance(ic, 1)

PassWhitespaceNever(ic, c) ==
  IF c = "\n" THEN [Advance(ic, 1) EXCEPT !.line = @ + 1, !.col = 0] ELSE ic

PassWhitespace(ic, c) ==
  IF c = "\n" THEN [Advance(ic, 1) EXCEPT !.line = @ + 1, !.col = 0] ELSE Advance(ic, 1)

LexSymbol(s, ic) ==
  LET c     == Char(s, ic.pointer)
      match == LongestMatch(s, ic, Symbols)
  IN  IF c \in Whitespace THEN Accept(nil, PassWhitespace(ic, c))
      ELSE IF match = <<>> THEN Reject
      ELSE Accept(Token(IF match = <<"!", "=">> THEN <<"<", ">">> ELSE match, "symbol", ic),
                  Advance(ic, Len(match)))

(***************************************************************************)
(* lexNumeric, character by character: digits, one period, and an exponent *)
(* that may have a sign and after which no period may come.  The character *)
(* that ends the number has been counted in the column by then.            *)
(***************************************************************************)
Scanned(st, n) == [st EXCEPT !.cur = Advance(@, n)]

\* Faulty: the character that ends the number is passed over
EndNumberAfter(st) == [st EXCEPT !.going = FALSE, !.cur.col = @ + 1, !.cur.pointer = @ + 1]

EndNumber(st) == [st EXCEPT !.going = FALSE, !.cur.col = @ + 1]

Rejected(st) == [st EXCEPT !.going = FALSE, !.ok = FALSE]

NumericStep(s, ic, st, p) ==
  LET c      == Char(s, p)
      signed == Char(s, p + 1) \in {"-", "+"}
  IN  IF ~st.going \/ p < st.cur.pointer THEN st
      ELSE IF p = ic.pointer
      THEN IF c \in Digits \cup {"."}
           THEN [Scanned(st, 1) EXCEPT !.periodFound = c = "."]
           ELSE Rejected(st)
      ELSE CASE c = "." -> IF st.periodFound THEN Rejected(st)
                           ELSE [Scanned(st, 1) EXCEPT !.periodFound = TRUE]
             [] c = "e" -> IF st.expMarkerFound \/ p = Len(s) - 1 THEN Rejected(st)
                           ELSE [Scanned(st, IF signed THEN 2 ELSE 1) EXCEPT
                                   !.periodFound = TRUE, !.expMarkerFound = TRUE]
             [] c \in Digits -> Scanned(st, 1)
             [] OTHER -> EndNumber(st)

LexNumeric(s, ic) ==
  LET end == Scan(s, ic.pointer, [going |-> TRUE, ok |-> TRUE, cur |-> ic,
                                  periodFound |-> FALSE, expMarkerFound |-> FALSE],
                  LAMBDA st, p : NumericStep(s, ic, st, p))
  IN  IF end.ok
      THEN Accept(Token(Text(s, ic.pointer, end.cur.pointer), "numeric", ic), end.cur)
      ELSE Reject

(***************************************************************************)
(* lexCharacterDelimited.  A delimiter is escaped by another one; both are *)
(* kept in the value.                                                      *)
(***************************************************************************)
\* Faulty: one of them is kept
EscapedOnce(delimiter) == <<delimiter>>

Escaped(delimiter) == <<delimiter, delimiter>>

DelimitedStep(s, delimiter, st, p) ==
  LET c       == Char(s, p)
      doubled == p + 1 < Len(s) /\ Char(s, p + 1) = delimiter
  IN  IF st.closed \/ p < st.cur.pointer THEN st
      ELSE IF c # delimiter THEN [Scanned(st, 1) EXCEPT !.value = Append(@, c)]
      ELSE IF doubled THEN [Scanned(st, 2) EXCEPT !.value = @ \o Escaped(delimiter)]
      ELSE [Scanned(st, 1) EXCEPT !.closed = TRUE]

LexCharacterDelimited(s, ic, delimiter, kind) ==
  LET first == Advance(ic, 1)
      end   == Scan(s, first.pointer, [closed |-> FALSE, cur |-> first, value |-> <<>>],
                    LAMBDA st, p : DelimitedStep(s, delimiter, st, p))
  IN  IF Char(s, ic.pointer) = delimiter /\ end.closed
      THEN Accept(Token(end.value, kind, ic), end.cur)
      ELSE Reject

LexString(s, ic) == LexCharacterDelimited(s, ic, "'", "string")

\* lexIdentifier: a quoted identifier keeps its case, a plain one does not
LexIdentifier(s, ic) ==
  LET quoted == LexCharacterDelimited(s, ic, "\"", "identifier")
      inWord == Letters \cup Digits \cup {"$", "_"}
      ends   == {p \in (ic.pointer + 1) .. Len(s) :
                   \A q \in ic.pointer .. (p - 1) : Char(s, q) \in inWord}
      value  == Text(s, ic.pointer, Max(ends))
  IN  IF quoted.ok THEN quoted
      ELSE IF Char(s, ic.pointer) \notin Letters THEN Reject
      ELSE Accept(Token(ToLower(value), "identifier", ic), Advance(ic, Len(value)))

(***************************************************************************)
(* The loop of lex.                                                        *)
(***************************************************************************)
\* What each lexer makes of the source at a cursor, in the order of trial
Lexed(s, ic) ==
  <<LexKeyword(s, ic), LexSymbol(s, ic), LexString(s, ic),
    LexNumeric(s, ic), LexIdentifier(s, ic)>>

FirstAccepting(lexed) == SelectInSeq(lexed, LAMBDA l : l.ok)

Lexing == status = "lexing" /\ cur.pointer < Len(source)

Step ==
  /\ Lexing
  /\ \E lexed \in {Lexed(source, cur)} :
       \E i \in {FirstAccepting(lexed)} \ {0} :
         /\ cur' = lexed[i].cur
         /\ IF lexed[i].token = nil
            THEN UNCHANGED <<tokens, spans>>
            ELSE /\ tokens' = Append(tokens, lexed[i].token)
                 /\ spans' = Append(spans, [from |-> cur.pointer,
                                            to   |-> lexed[i].cur.pointer])
  /\ UNCHANGED <<source, status>>

Fail ==
  /\ Lexing
  /\ FirstAccepting(Lexed(source, cur)) = 0
  /\ status' = "failed"
  /\ UNCHANGED <<source, cur, tokens, spans>>

Finish ==
  /\ status = "lexing" /\ cur.pointer >= Len(source)
  /\ status' = "done"
  /\ UNCHANGED <<source, cur, tokens, spans>>

Init ==
  /\ source \in Sources
  /\ cur = [pointer |-> 0, line |-> 0, col |-> 0]
  /\ tokens = <<>>
  /\ spans = <<>>
  /\ status = "lexing"

Next == Step \/ Fail \/ Finish

\* The loop runs by itself.
Spec == Init /\ [][Next]_vars /\ WF_vars(Next)

(***************************************************************************)
(* The text GenerateCode prints for a token (ast.go): identifiers and      *)
(* strings are put between delimiters, the rest stands for itself.         *)
(***************************************************************************)
Quoted(delimiter, value) == <<delimiter>> \o value \o <<delimiter>>

Printed(token) ==
  CASE token.kind = "identifier" -> Quoted("\"", token.value)
    [] token.kind = "string"     -> Quoted("'", token.value)
    [] OTHER                     -> token.value

------------------------------------------------------------------------------
(***************************************************************************)
(* Properties.                                                             *)
(***************************************************************************)
\* The source between two positions is the text of this token
Spells(text, token) ==
  CASE token.kind = "string"  -> text = Quoted("'", token.value)
    [] token.kind = "numeric" -> text = token.value
    [] token.kind = "symbol"  -> \/ text = token.value
                                 \/ text = <<"!", "=">> /\ token.value = <<"<", ">">>
    [] token.kind = "identifier" -> \/ text = Quoted("\"", token.value)
                                    \/ ToLower(text) = token.value
    [] OTHER -> ToLower(text) = token.value

(***************************************************************************)
(* Nothing of the source is lost or read twice: up to the cursor it is the *)
(* texts of the tokens, in order, with only whitespace between them.       *)
(***************************************************************************)
NothingLost ==
  /\ \A k \in DOMAIN tokens : Spells(Text(source, spans[k].from, spans[k].to), tokens[k])
  /\ \A k \in 0 .. Len(spans) :
       LET from == IF k = 0 THEN 0 ELSE spans[k].to
           to   == IF k = Len(spans) THEN cur.pointer ELSE spans[k + 1].from
       IN  from <= to /\ ToSet(Text(source, from, to)) \subseteq Whitespace

(***************************************************************************)
(* What GenerateCode prints for a token lexes to that token again, doubled *)
(* delimiters, exponents cut short and words that begin with a keyword     *)
(* included.  (lexCharacterDelimited, lexNumeric; \p prints such text)     *)
(***************************************************************************)
Relexes ==
  \A k \in DOMAIN tokens :
    LET code  == Append(Printed(tokens[k]), " ")
        lexed == Lexed(code, [pointer |-> 0, line |-> 0, col |-> 0])
        i     == FirstAccepting(lexed)
    IN  /\ i # 0
        /\ lexed[i].token.value = tokens[k].value
        /\ lexed[i].token.kind = tokens[k].kind
        /\ lexed[i].cur.pointer = Len(code) - 1

(***************************************************************************)
(* longestMatch finds the longest option the text begins with, whatever    *)
(* other options it passes on the way ("INT vs INTO", lexer.go:152).       *)
(***************************************************************************)
LongestMatchRight ==
  Lexing =>
    \A options \in {Keywords, Symbols} :
      LET match == LongestMatch(source, cur, options)
          rest  == ToLower(Text(source, cur.pointer, Len(source)))
          fits  == {o \in options : IsPrefix(o, rest)}
      IN  IF fits = {} THEN match = <<>>
          ELSE match \in fits /\ \A o \in fits : Len(o) <= Len(match)

\* The line of a position, and its distance from the beginning of the line
TrueLocation(p) ==
  LET before == {q \in 0 .. (p - 1) : Char(source, q) = "\n"}
  IN  [line |-> Cardinality(before),
       col  |-> IF before = {} THEN p ELSE p - 1 - Max(before)]

(***************************************************************************)
(* Up to the first number or quoted line break, that token included, each  *)
(* token is said to be on the line and in the column where it is.  What    *)
(* comes after one is left out, on later lines too.                        *)
(***************************************************************************)
DriftsAfter(token) == token.kind = "numeric" \/ "\n" \in ToSet(token.value)

LocationExact ==
  \A k \in DOMAIN tokens :
    (\A j \in 1 .. (k - 1) : ~DriftsAfter(tokens[j])) =>
      tokens[k].loc = TrueLocation(spans[k].from)

(***************************************************************************)
(* Every text is split or refused: each turn of the loop gets further.     *)
(***************************************************************************)
LexEnds == <>(status # "lexing")
==============================================================================
