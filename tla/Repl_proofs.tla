----------------------------- MODULE Repl_proofs -----------------------------
(***************************************************************************)
(* Theorems about Repl: whatever lines are typed, the loop only calls the  *)
(* backend, and carries a line out in order although it may pass on the    *)
(* wrong statement.                                                        *)
(***************************************************************************)
EXTENDS Repl, MemoryBackend_proofs

(***************************************************************************)
(* What the first statement of a line has achieved once it was carried     *)
(* out.  It is why the backend refuses to be given it once more.           *)
(***************************************************************************)
Achieved(st) ==
  LET n == st.stmt.table
  IN  /\ st.kind = "create table" => Exists(n)
      /\ st.kind = "drop table" => ~Exists(n)
      /\ st.kind = "create index" => Exists(n) /\ HasIndex(tables[n], st.stmt.name)

(***************************************************************************)
(* The statements before the next have been carried out, and no others.    *)
(* The first of them still holds, since after it only INSERTs and SELECTs  *)
(* have been carried out.                                                  *)
(***************************************************************************)
LoopInv ==
  /\ line = nil \/ line \in Lines
  /\ stage = "running" => line # nil /\ line.kind = "statements"
  /\ line # nil /\ line.kind = "statements" =>
       /\ next \in 1 .. Len(line.stmts) + 1
       /\ carriedOut = IF line.parseOnly THEN <<>> ELSE SubSeq(line.stmts, 1, next - 1)
       /\ screen.kind = "ok" => next = Len(line.stmts) + 1
       /\ stage = "running" /\ ~line.parseOnly /\ next > 1 => Achieved(line.stmts[1])

------------------------------------------------------------------------------
(***************************************************************************)
(* The loop as a client of the backend.                                    *)
(***************************************************************************)

\* The statement whose turn it is, and the first one, are statements.
LEMMA LineShape ==
  ASSUME LoopInv, stage = "running", line # nil, line.kind = "statements",
         next <= Len(line.stmts)
  PROVE  /\ line \in Lines /\ line.stmts \in Seq(Statements)
         /\ Current \in Statements /\ line.stmts[1] \in Statements
<1>1. line \in Lines /\ line.stmts \in Seq(Statements)
  BY LinesAssumption DEF LoopInv
<1>2. next \in 1 .. Len(line.stmts) /\ 1 \in 1 .. Len(line.stmts)
  BY <1>1 DEF LoopInv
<1> QED
  BY <1>1, <1>2 DEF Current

\* What is passed on is a statement of the kind whose method is called.
LEMMA PassedShape ==
  ASSUME LoopInv, stage = "running", line # nil, line.kind = "statements",
         next <= Len(line.stmts), Passed # nil
  PROVE  [kind |-> Current.kind, stmt |-> Passed] \in Statements
<1>1. Current \in Statements /\ line.stmts[1] \in Statements
  BY LineShape
<1>2. \/ Passed = Current.stmt
      \/ Passed = line.stmts[1].stmt /\ line.stmts[1].kind = Current.kind
  BY DEF Passed
<1>3. /\ Current = [kind |-> Current.kind, stmt |-> Current.stmt]
      /\ line.stmts[1] = [kind |-> line.stmts[1].kind, stmt |-> line.stmts[1].stmt]
  BY <1>1, StatementShape
<1> QED
  BY <1>1, <1>2, <1>3

\* A call of a method is a step of the backend.
LEMMA CallIsStep ==
  ASSUME NEW kind, NEW s, [kind |-> kind, stmt |-> s] \in Statements, Call(kind, s)
  PROVE  Next
<1>1. /\ kind = "create table" => s \in CreateTables
      /\ kind = "drop table" => s \in DropTables
      /\ kind = "create index" => s \in CreateIndexes
      /\ kind = "insert" => s \in Inserts
      /\ kind = "select" => s \in Selects
  BY StatementShape
<1> QED
  BY <1>1 DEF Call, Next

\* The loop does nothing to the backend but call it.
LEMMA LoopStep == LoopInv /\ [ReplNext]_allVars => [Next]_vars
<1> SUFFICES ASSUME LoopInv, ReplNext PROVE [Next]_vars
  BY DEF allVars
<1>1. CASE ExecuteStatement
  <2>1. CASE Passed # nil /\ Call(Current.kind, Passed)
    <3>1. [kind |-> Current.kind, stmt |-> Passed] \in Statements
      BY <1>1, <2>1, PassedShape DEF ExecuteStatement, LoopInv
    <3> QED
      BY <2>1, <3>1, CallIsStep
  <2> QED
    BY <1>1, <2>1 DEF ExecuteStatement
<1> QED
  BY <1>1 DEF ReplNext, RunLine, ReadStatements, ReadOther, Describe, ReadLine,
              PrintStatement, FinishLine

------------------------------------------------------------------------------
(***************************************************************************)
(* What calls do to what the first statement of the line has achieved.     *)
(***************************************************************************)

\* A refusal leaves an error behind.
LEMMA RefuseFails ==
  ASSUME NEW s, NEW err, Refuse(s, err), err # NoError
  PROVE  Failed(reply'.err)
BY ReplyError DEF Refuse, Failed

\* Given the first statement again, the backend refuses.
LEMMA RefusedAgain ==
  ASSUME NEW st \in Statements, st.kind \notin {"insert", "select"},
         Achieved(st), Call(st.kind, st.stmt)
  PROVE  Failed(reply'.err)
<1> DEFINE s == st.stmt
<1>1. CASE st.kind = "create table"
  <2>1. Refuse(s, "ErrTableAlreadyExists")
    BY <1>1 DEF Achieved, Call, CreateTable
  <2> QED
    BY <2>1, RefuseFails DEF NoError
<1>2. CASE st.kind = "drop table"
  <2>1. Refuse(s, "ErrTableDoesNotExist")
    BY <1>2 DEF Achieved, Call, DropTable
  <2> QED
    BY <2>1, RefuseFails DEF NoError
<1>3. CASE st.kind = "create index"
  <2>1. Exists(s.table) /\ HasIndex(tables[s.table], s.name) /\ CreateIndex(s)
    BY <1>3 DEF Achieved, Call
  <2>2. Refuse(s, "ErrIndexAlreadyExists")
    BY <2>1 DEF CreateIndex
  <2> QED
    BY <2>2, RefuseFails DEF NoError
<1> QED
  BY <1>1, <1>2, <1>3 DEF Statements

\* A first statement that returned no error has achieved what it asked for.
LEMMA FirstAchieves ==
  ASSUME IndexInv, NEW st \in Statements, Call(st.kind, st.stmt), ~Failed(reply'.err)
  PROVE  Achieved(st)'
<1> DEFINE s == st.stmt
           n == s.table
<1>1. reply'.err = NoError /\ (\A q, err : Reply(q, err).err = err)
  BY ReplyError DEF Failed
<1>2. DOMAIN tables = TableNames
  BY DEF IndexInv, TypeOK
<1>3. CASE st.kind = "create table"
  <2>1. s \in CreateTables /\ n \in TableNames /\ CreateTable(s)
    BY <1>3, StatementShape, StatementsAssumption DEF Call
  <2>2. BadColumns(s.cols) = {} \/ ColumnError(s.cols, Min(BadColumns(s.cols))) # NoError
    <3>1. BadColumns(s.cols) \subseteq Nat
      BY <2>1, StatementsAssumption DEF BadColumns
    <3> QED
      BY <3>1, LeastNatural DEF BadColumns
  <2>3. BadColumns(s.cols) = {} /\ tables' = [tables EXCEPT ![n] = NewTable(n, s.cols)]
    BY <1>1, <2>1, <2>2, RefuseFails DEF CreateTable, Failed, NoError
  <2>4. tables'[n] \in Table
    BY <1>2, <2>1, <2>3, NewTableShape
  <2> QED
    BY <1>3, <2>4, NoneAssumption DEF Achieved, Exists
<1>4. CASE st.kind = "drop table"
  <2>1. s \in DropTables /\ n \in TableNames /\ DropTable(s)
    BY <1>4, StatementShape, StatementsAssumption DEF Call
  <2>2. tables' = [tables EXCEPT ![n] = none]
    BY <1>1, <2>1 DEF DropTable, Refuse, NoError
  <2> QED
    BY <1>2, <1>4, <2>1, <2>2 DEF Achieved, Exists
<1>5. CASE st.kind = "create index"
  <2>1. s \in CreateIndexes /\ n \in TableNames /\ CreateIndex(s)
    BY <1>5, StatementShape, StatementsAssumption DEF Call
  <2> DEFINE t == tables[n]
             bad == BadRows(t, s)
             u == [t EXCEPT !.indexes = Append(@, NewIndex(s))]
  <2>2. bad # {} => FillError(t, s, Min(bad)) # NoError
    <3>1. ASSUME bad # {} PROVE FillError(t, s, Min(bad)) # NoError
      <4>1. Exists(n) /\ bad \subseteq Nat
        <5>1. Exists(n)
          BY <1>1, <2>1, RefuseFails DEF CreateIndex, Failed, NoError
        <5> QED
          BY <2>1, <5>1, TableShape DEF BadRows, IndexInv
      <4>2. Min(bad) \in bad
        BY <3>1, <4>1, LeastNatural
      <4> QED
        BY <4>2 DEF BadRows
    <3> QED
      BY <3>1
  <2>3. Exists(n) /\ tables' = [tables EXCEPT ![n] = u]
    <3> HIDE DEF bad
    <3>1. /\ ~Refuse(s, "ErrTableDoesNotExist") /\ ~Refuse(s, "ErrIndexAlreadyExists")
          /\ ~Refuse(s, Panic)
      BY <1>1, RefuseFails DEF Failed, NoError, Panic
    <3>2. Exists(n) /\ tables' = [tables EXCEPT ![n].indexes = Append(@, NewIndex(s))]
      BY <2>1, <3>1 DEF CreateIndex
    <3> QED
      BY <3>2
  <2>4. NewIndex(s) \in Index /\ NewIndex(s).name = s.name
    BY <2>1, StatementsAssumption DEF NewIndex, Index
  <2>5. t \in Table /\ t.indexes \in Seq(Index)
    BY <2>1, <2>3, TableShape DEF IndexInv
  <2>6. u \in Table /\ u.indexes = Append(t.indexes, NewIndex(s))
    BY <2>4, <2>5, WithIndex
  <2>7. HasIndex(u, s.name)
    <3> DEFINE k == Len(t.indexes) + 1
    <3>1. k \in DOMAIN u.indexes /\ u.indexes[k] = NewIndex(s)
      <4> HIDE DEF t, u
      <4> QED
        BY <2>4, <2>5, <2>6
    <3> QED
      BY <2>4, <3>1 DEF HasIndex
  <2>8. tables'[n] = u
    BY <1>2, <2>1, <2>3
  <2> HIDE DEF u
  <2>9. Exists(n)' /\ HasIndex(tables'[n], s.name)
    BY <2>6, <2>7, <2>8, NoneAssumption DEF Exists
  <2> QED
    BY <1>5, <2>9 DEF Achieved, HasIndex
<1>6. CASE st.kind \in {"insert", "select"}
  BY <1>6 DEF Achieved
<1> QED
  BY <1>3, <1>4, <1>5, <1>6 DEF Statements

\* An INSERT or a SELECT drops no table and no index.
LEMMA InsertKeeps ==
  ASSUME IndexInv, NEW s \in Inserts, Insert(s)
  PROVE  \A q \in TableNames : /\ Exists(q)' <=> Exists(q)
                               /\ Exists(q) => tables'[q].indexes = tables[q].indexes
<1> DEFINE n == s.table
           t == tables[n]
           row == RowOf(s.values)
<1>1. CASE UNCHANGED tables
  BY <1>1 DEF Exists
<1>2. ASSUME Exists(n), NEW rows,
             rows = Append(t.rows, row) \/ rows = DropRow(Append(t.rows, row)),
             tables' = [tables EXCEPT ![n].rows = rows]
      PROVE  \A q \in TableNames : /\ Exists(q)' <=> Exists(q)
                                   /\ Exists(q) => tables'[q].indexes = tables[q].indexes
  <2>1. n \in TableNames /\ row \in Row /\ DOMAIN tables = TableNames
    BY StatementsAssumption DEF Row, IndexInv, TypeOK
  <2>2. t \in Table /\ t.rows \in Seq(Row)
    BY <1>2, <2>1, TableShape DEF IndexInv
  <2>3. rows \in Seq(Row)
    <3> HIDE DEF t, row
    <3> QED
      BY <1>2, <2>1, <2>2 DEF DropRow
  <2> DEFINE u == [t EXCEPT !.rows = rows]
  <2>4. u \in Table /\ u.indexes = t.indexes
    BY <2>2, <2>3, WithRows
  <2>5. tables' = [tables EXCEPT ![n] = u]
    BY <1>2
  <2> HIDE DEF u
  <2> QED
    BY <1>2, <2>1, <2>4, <2>5, NoneAssumption DEF Exists
<1>3. \/ UNCHANGED tables
      \/ /\ Exists(n)
         /\ \/ tables' = [tables EXCEPT ![n].rows = Append(@, row)]
            \/ tables' = [tables EXCEPT ![n].rows = DropRow(Append(@, row))]
  BY Zenon DEF Insert, Refuse
<1> HIDE DEF row
<1> QED
  BY <1>1, <1>2, <1>3

\* What the first statement has achieved lasts, for it is called again only to
\* be refused.
LEMMA AchievedKept ==
  ASSUME IndexInv, NEW st \in Statements, Achieved(st),
         NEW kind \in {"insert", "select"}, NEW s, [kind |-> kind, stmt |-> s] \in Statements,
         Call(kind, s)
  PROVE  Achieved(st)'
<1>1. CASE kind = "insert"
  <2>1. s \in Inserts /\ Insert(s)
    BY <1>1, StatementShape DEF Call
  <2>2. st.kind \in {"create table", "drop table", "create index"} =>
          st.stmt.table \in TableNames
    BY StatementShape, StatementsAssumption
  <2> QED
    BY <2>1, <2>2, InsertKeeps DEF Achieved, HasIndex
<1>2. CASE kind = "select"
  BY <1>2 DEF Call, Select, Achieved, Exists
<1> QED
  BY <1>1, <1>2

------------------------------------------------------------------------------
(***************************************************************************)
(* The steps of the loop.                                                  *)
(***************************************************************************)

\* Reading a line begins anew.
LEMMA ReadInv ==
  ASSUME NEW l \in Lines, ReadStatements(l) \/ ReadOther(l) \/ Describe(l)
  PROVE  LoopInv'
<1>1. /\ line' = l /\ next' = 1 /\ carriedOut' = <<>>
      /\ stage' = "running" => l.kind = "statements"
      /\ l # nil
  BY LinesAssumption DEF ReadStatements, ReadOther, Describe, ReadLine
<1>2. l.kind = "statements" => screen'.kind = "nothing" /\ l.stmts \in Seq(Statements)
  BY LinesAssumption DEF ReadStatements, ReadOther, Describe, Screen
<1> QED
  BY <1>1, <1>2 DEF LoopInv

\* A call that returned no error carried out the line's own next statement.
LEMMA CarriedOutOwn ==
  ASSUME LoopInv, ExecuteStatement, Passed # nil, Call(Current.kind, Passed),
         ~Failed(reply'.err)
  PROVE  /\ [kind |-> Current.kind, stmt |-> Passed] = line.stmts[next]
         /\ next > 1 => Current.kind \in {"insert", "select"}
<1>1. /\ Current \in Statements /\ line.stmts[1] \in Statements
      /\ line.stmts \in Seq(Statements) /\ next \in 1 .. Len(line.stmts)
  BY LineShape DEF LoopInv, ExecuteStatement
<1>2. Current = [kind |-> Current.kind, stmt |-> Current.stmt]
  BY <1>1, StatementShape
<1>3. CASE Current.kind \in {"insert", "select"}
  BY <1>2, <1>3 DEF Passed, Current
<1>4. CASE Current.kind \notin {"insert", "select"}
  <2>1. line.stmts[1].kind = Current.kind /\ Passed = line.stmts[1].stmt
    BY <1>4 DEF Passed
  <2>2. next = 1
    <3>1. SUFFICES ASSUME next > 1 PROVE FALSE
      BY <1>1
    <3>2. Achieved(line.stmts[1])
      BY <3>1 DEF LoopInv, ExecuteStatement
    <3>3. Call(line.stmts[1].kind, line.stmts[1].stmt)
      BY <2>1
    <3> QED
      BY <1>1, <1>4, <2>1, <3>2, <3>3, RefusedAgain
  <2> QED
    BY <1>2, <2>1, <2>2 DEF Current
<1> QED
  BY <1>3, <1>4

\* Carrying out a statement of the line, or failing to.
LEMMA ExecuteInv ==
  ASSUME IndexInv, LoopInv, ExecuteStatement
  PROVE  LoopInv'
<1>1. /\ line # nil /\ line.kind = "statements" /\ line \in Lines
      /\ ~line.parseOnly /\ stage = "running" /\ UNCHANGED line
      /\ Current \in Statements /\ line.stmts[1] \in Statements
      /\ line.stmts \in Seq(Statements) /\ next \in 1 .. Len(line.stmts)
      /\ carriedOut = SubSeq(line.stmts, 1, next - 1)
  BY LineShape DEF LoopInv, ExecuteStatement
<1>2. CASE Crash
  BY <1>1, <1>2 DEF LoopInv, Crash
<1>3. CASE /\ stage' = "prompt"
           /\ screen' = [kind |-> "failure", err |-> reply'.err]
           /\ UNCHANGED <<next, carriedOut>>
  BY <1>1, <1>3 DEF LoopInv
<1>4. CASE /\ Passed # nil /\ Call(Current.kind, Passed) /\ ~Failed(reply'.err)
           /\ next' = next + 1
           /\ carriedOut' = Append(carriedOut, [kind |-> Current.kind, stmt |-> Passed])
           /\ screen' = [kind |-> "result", rows |-> reply'.rows]
  <2>1. /\ [kind |-> Current.kind, stmt |-> Passed] = line.stmts[next]
        /\ next > 1 => Current.kind \in {"insert", "select"}
    BY <1>4, CarriedOutOwn
  <2>2. carriedOut' = SubSeq(line.stmts, 1, next)
    BY <1>1, <1>4, <2>1
  <2>3. Achieved(line.stmts[1])'
    <3>1. CASE next = 1
      <4>1. /\ line.stmts[1] = [kind |-> Current.kind, stmt |-> Passed]
            /\ Call(line.stmts[1].kind, line.stmts[1].stmt)
        BY <1>4, <2>1, <3>1
      <4>2. Achieved(line.stmts[1])'
        BY <1>1, <1>4, <4>1, FirstAchieves
      <4> QED
        BY <4>2
    <3>2. CASE next > 1
      <4>1. Achieved(line.stmts[1])
        BY <1>1, <3>2 DEF LoopInv
      <4>2. [kind |-> Current.kind, stmt |-> Passed] \in Statements
        BY <1>1, <2>1
      <4> QED
        BY <1>1, <1>4, <2>1, <3>2, <4>1, <4>2, AchievedKept
    <3> QED
      BY <1>1, <3>1, <3>2
  <2> QED
    BY <1>1, <1>4, <2>2, <2>3 DEF LoopInv
<1> QED
  BY <1>2, <1>3, <1>4 DEF ExecuteStatement

\* Printing the statement instead of carrying it out.
LEMMA PrintInv ==
  ASSUME LoopInv, PrintStatement \/ FinishLine
  PROVE  LoopInv'
<1>1. /\ line # nil /\ line.kind = "statements" /\ line \in Lines
      /\ stage = "running" /\ UNCHANGED <<line, carriedOut>>
      /\ line.stmts \in Seq(Statements) /\ line.parseOnly \in BOOLEAN
      /\ next \in 1 .. Len(line.stmts) + 1
  BY LinesAssumption DEF LoopInv, PrintStatement, FinishLine, Crash
<1>2. CASE PrintStatement
  BY <1>1, <1>2 DEF LoopInv, PrintStatement, Crash
<1>3. CASE FinishLine
  BY <1>1, <1>3 DEF LoopInv, FinishLine, Screen
<1> QED
  BY <1>2, <1>3

\* Every step of the loop.
LEMMA LoopNextInv == IndexInv /\ LoopInv /\ [ReplNext]_allVars => IndexInv' /\ LoopInv'
<1> SUFFICES ASSUME IndexInv, LoopInv, [ReplNext]_allVars PROVE IndexInv' /\ LoopInv'
  OBVIOUS
<1>1. IndexInv'
  BY LoopStep, NextInv
<1>2. CASE UNCHANGED allVars
  BY <1>1, <1>2 DEF allVars, replVars, vars, LoopInv, Achieved, Exists
<1>3. CASE ReplNext
  BY <1>1, <1>3, ReadInv, ExecuteInv, PrintInv DEF ReplNext, RunLine
<1> QED
  BY <1>2, <1>3

\* Before the first line.
LEMMA LoopInitInv == ReplInit => IndexInv /\ LoopInv
<1>1. ReplInit => LoopInv
  BY DEF ReplInit, LoopInv
<1> QED
  BY <1>1, InitInv DEF ReplInit

\* Whatever is typed, the backend only does what its own specification allows,
\* so that all that is proved of it holds under the loop as well.
THEOREM LoopCallsBackend == ReplSpec => Spec
<1>1. ReplInit => Init
  BY DEF ReplInit
<1> QED
  BY <1>1, LoopInitInv, LoopNextInv, LoopStep, PTL DEF ReplSpec, Spec

(***************************************************************************)
(* What a line has carried out is its own beginning, in order, and "ok" is *)
(* printed only when that is all of it.                                    *)
(***************************************************************************)
THEOREM LinesInOrder == ReplSpec => []LineCarriedOut
<1>1. LoopInv => LineCarriedOut
  <2> SUFFICES ASSUME LoopInv, line # nil, line.kind = "statements"
               PROVE  /\ IsPrefix(carriedOut, line.stmts)
                      /\ screen.kind = "ok" /\ ~line.parseOnly => carriedOut = line.stmts
    BY DEF LineCarriedOut
  <2>1. /\ line.stmts \in Seq(Statements) /\ next \in 1 .. Len(line.stmts) + 1
        /\ carriedOut = IF line.parseOnly THEN <<>> ELSE SubSeq(line.stmts, 1, next - 1)
        /\ screen.kind = "ok" => next = Len(line.stmts) + 1
    BY LinesAssumption DEF LoopInv
  <2>2. \A m \in 0 .. Len(line.stmts) : IsPrefix(SubSeq(line.stmts, 1, m), line.stmts)
    BY <2>1 DEF IsPrefix
  <2>3. SubSeq(line.stmts, 1, 0) = <<>> /\ SubSeq(line.stmts, 1, Len(line.stmts)) = line.stmts
    BY <2>1
  <2>4. CASE line.parseOnly
    <3>1. carriedOut = SubSeq(line.stmts, 1, 0) /\ 0 \in 0 .. Len(line.stmts)
      BY <2>1, <2>3, <2>4
    <3> QED
      BY <2>2, <2>4, <3>1
  <2>5. CASE ~line.parseOnly
    <3>1. carriedOut = SubSeq(line.stmts, 1, next - 1) /\ next - 1 \in 0 .. Len(line.stmts)
      BY <2>1, <2>5
    <3>2. IsPrefix(carriedOut, line.stmts)
      BY <2>2, <3>1
    <3>3. ASSUME screen.kind = "ok" PROVE carriedOut = line.stmts
      <4>1. next - 1 = Len(line.stmts)
        BY <2>1, <3>3
      <4> QED
        BY <2>3, <3>1, <4>1
    <3> QED
      BY <3>2, <3>3
  <2> QED
    BY <2>4, <2>5
<1> QED
  BY <1>1, LoopInitInv, LoopNextInv, PTL DEF ReplSpec
=============================================================================
