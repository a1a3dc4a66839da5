-------------------------------- MODULE Repl --------------------------------
(***************************************************************************)
(* The interactive loop of repl.go over the in-memory backend: a line is   *)
(* read and parsed, then its statements are dispatched one by one to the   *)
(* backend, until one fails.  Each action of the backend is a call here.   *)
(*                                                                         *)
(* A line is what reading and parsing give:                                *)
(*   [kind |-> "statements", parseOnly |-> b, stmts |-> statements]        *)
(*   [kind |-> "describe", name |-> n]         \d n                        *)
(*   [kind |-> "list"]                         \dt, or \d alone            *)
(*   [kind |-> "error"]                        not read, or not parsed     *)
(*   [kind |-> "quit"]                         quit, exit, \q, end of file *)
(* and a statement is [kind |-> "insert", stmt |-> s], and so on.          *)
(***************************************************************************)
EXTENDS MemoryBackend

CONSTANTS
  Lines,
  MaxLines     \* bound: lines read

ASSUME LinesAssumption ==
  /\ nil \notin Lines
  /\ \A l \in Lines : l.kind = "statements" =>
       l.parseOnly \in BOOLEAN /\ l.stmts \in Seq(Statements)

VARIABLES
  stage,       \* "prompt", "running" a line, "quit", or "crashed"
  line,        \* the line being run, or the last one
  next,        \* the position in it of the next statement
  carriedOut,  \* history: the statements of the line that returned no error
  screen,      \* what the line has printed last
  linesRead

replVars == <<stage, line, next, carriedOut, screen, linesRead>>
allVars  == <<vars, replVars>>

Screen(kind) == [kind |-> kind]

(***************************************************************************)
(* Reading a line.  Whatever is not a line of statements is answered at    *)
(* once; \p makes the loop print the statements instead of running them.   *)
(***************************************************************************)
ReadLine(l) ==
  /\ stage = "prompt"
  /\ linesRead < MaxLines
  /\ linesRead' = linesRead + 1
  /\ line' = l
  /\ next' = 1
  /\ carriedOut' = <<>>
  /\ UNCHANGED vars

ReadStatements(l) ==
  /\ l.kind = "statements"
  /\ ReadLine(l)
  /\ stage' = "running"
  /\ screen' = Screen("nothing")

ReadOther(l) ==
  /\ l.kind \in {"error", "quit", "list"}
  /\ ReadLine(l)
  /\ stage' = IF l.kind = "quit" THEN "quit" ELSE "prompt"
  /\ screen' = IF l.kind = "list"
               THEN [kind |-> "tables", names |-> {n \in TableNames : Exists(n)}]
               ELSE Screen(l.kind)

(***************************************************************************)
(* debugTable.  The loop looking for the table keeps the address of its    *)
(* own variable, of which there is one for all turns (go 1.13 in go.mod),  *)
(* and goes on to the end: what is described is the table that GetTables   *)
(* lists last, and it lists a map, in any order.                           *)
(***************************************************************************)
Description(n, t) ==
  [kind |-> "table", name |-> n, columns |-> t.columns, types |-> t.columnTypes,
   notNull |-> NotNullColumns(t), indexes |-> t.indexes]

Describe(l) ==
  /\ l.kind = "describe"
  /\ ReadLine(l)
  /\ stage' = "prompt"
  /\ \/ /\ ~Exists(l.name)
        /\ screen' = Screen("not found")
     \/ /\ Exists(l.name)
        /\ \E last \in TableNames :
             /\ Exists(last)
             /\ screen' = Description(l.name, tables[last])

(***************************************************************************)
(* Running a line.  For three kinds of statement it is the first of the    *)
(* line that is passed on, ast.Statements[0], and not the one whose turn   *)
(* it is; a first statement of another kind has a nil pointer there.       *)
(***************************************************************************)
Current == line.stmts[next]

Passed ==
  LET first == line.stmts[1]
  IN  IF Current.kind \in {"insert", "select"} THEN Current.stmt
      ELSE IF first.kind = Current.kind THEN first.stmt ELSE nil

Call(kind, s) ==
  \/ kind = "create table" /\ CreateTable(s)
  \/ kind = "drop table"   /\ DropTable(s)
  \/ kind = "create index" /\ CreateIndex(s)
  \/ kind = "insert"       /\ Insert(s)
  \/ kind = "select"       /\ Select(s)

\* Faulty: a table that is there already is no error
FailedLax(err) == err \notin {NoError, "ErrTableAlreadyExists"}

\* if err != nil { ...; continue repl }
Failed(err) == err # NoError

Crash == stage' = "crashed" /\ UNCHANGED <<next, carriedOut, screen>>

ExecuteStatement ==
  /\ stage = "running" /\ ~line.parseOnly /\ next <= Len(line.stmts)
  /\ \/ /\ Passed = nil
        /\ Crash
        /\ UNCHANGED vars
     \/ /\ Passed # nil
        /\ Call(Current.kind, Passed)
        /\ \/ /\ reply'.err = Panic
              /\ Crash
           \/ /\ reply'.err # Panic /\ Failed(reply'.err)
              /\ stage' = "prompt"
              /\ screen' = [kind |-> "failure", err |-> reply'.err]
              /\ UNCHANGED <<next, carriedOut>>
           \/ /\ ~Failed(reply'.err)
              /\ next' = next + 1
              /\ carriedOut' = Append(carriedOut, [kind |-> Current.kind, stmt |-> Passed])
              /\ screen' = [kind |-> "result", rows |-> reply'.rows]
              /\ UNCHANGED stage
  /\ UNCHANGED <<line, linesRead>>

\* GenerateCode of a SELECT with an OFFSET asks its LIMIT for the text
PrintPanics(st) ==
  st.kind = "select" /\ st.stmt.offset # nil /\ st.stmt.limit = nil

\* Faulty: the same statement again and again
PrintStatementAgain ==
  /\ stage = "running" /\ line.parseOnly /\ next <= Len(line.stmts)
  /\ screen' = [kind |-> "code", of |-> Current]
  /\ UNCHANGED <<vars, stage, next, carriedOut, line, linesRead>>

PrintStatement ==
  /\ stage = "running" /\ line.parseOnly /\ next <= Len(line.stmts)
  /\ \/ PrintPanics(Current) /\ Crash
     \/ /\ ~PrintPanics(Current)
        /\ screen' = [kind |-> "code", of |-> Current]
        /\ next' = next + 1
        /\ UNCHANGED <<stage, carriedOut>>
  /\ UNCHANGED <<vars, line, linesRead>>

FinishLine ==
  /\ stage = "running" /\ next > Len(line.stmts)
  /\ stage' = "prompt"
  /\ screen' = Screen("ok")
  /\ UNCHANGED <<vars, line, next, carriedOut, linesRead>>

ReplInit ==
  /\ Init
  /\ stage = "prompt"
  /\ line = nil
  /\ next = 1
  /\ carriedOut = <<>>
  /\ screen = Screen("nothing")
  /\ linesRead = 0

RunLine == ExecuteStatement \/ PrintStatement \/ FinishLine

ReplNext ==
  \/ \E l \in Lines : ReadStatements(l)
  \/ \E l \in Lines : ReadOther(l)
  \/ \E l \in Lines : Describe(l)
  \/ RunLine

(***************************************************************************)
(* A line once read is run by the loop itself, which waits for nothing.    *)
(* That a next line is typed is not assumed.                               *)
(***************************************************************************)
ReplSpec == ReplInit /\ [][ReplNext]_allVars /\ WF_allVars(RunLine)

------------------------------------------------------------------------------
(***************************************************************************)
(* Properties.                                                             *)
(***************************************************************************)

(***************************************************************************)
(* What a line has carried out is, at any time, its own first statements,  *)
(* in order, although the loop passes on the first CREATE or DROP in place *)
(* of a later one: the backend refuses to do the same twice.  So "ok" is   *)
(* printed only when all of the line has been carried out.                 *)
(***************************************************************************)
LineCarriedOut ==
  line # nil /\ line.kind = "statements" =>
    /\ IsPrefix(carriedOut, line.stmts)
    /\ screen.kind = "ok" /\ ~line.parseOnly => carriedOut = line.stmts

(***************************************************************************)
(* Every line read comes to an end: the loop is back at its prompt, or the *)
(* process has ended.  (the loop over ast.Statements)                      *)
(***************************************************************************)
LinesEnd == stage = "running" ~> stage # "running"

(***************************************************************************)
(* What \d n prints under the name n is the table n.                       *)
(***************************************************************************)
DescribesNamed ==
  screen.kind = "table" => screen = Description(screen.name, tables[screen.name])
==============================================================================
