----------------------------- MODULE Rows_proofs -----------------------------
(***************************************************************************)
(* What the backend stores and answers, row by row.                        *)
(*                                                                         *)
(* Answers, whatever is stored and whatever the indexes say: the trees are *)
(* finite, so that a walk of one comes to an end; narrowing keeps to the   *)
(* rows of the table; and the loop over what is left answers with          *)
(* projections of rows that the WHERE clause is true of.                   *)
(*                                                                         *)
(* Stored rows, when no table names a column twice: none has a nil in a    *)
(* column reported NOT NULL.                                               *)
(***************************************************************************)
EXTENDS MemoryBackend_proofs, FiniteSetTheorems

(***************************************************************************)
(* What a function makes of a finite set is finite.                        *)
(***************************************************************************)
LEMMA FiniteImage ==
  ASSUME NEW S, IsFiniteSet(S), NEW f, DOMAIN f = S
  PROVE  IsFiniteSet({f[x] : x \in S})
<1> DEFINE T == {f[x] : x \in S}
           g == [x \in S |-> f[x]]
<1>1. g \in [S -> T] /\ \A y \in T : \E x \in S : g[x] = y
  OBVIOUS
<1>2. g \in Surjection(S, T)
  BY <1>1 DEF Surjection
<1> HIDE DEF g, T
<1>3. IsFiniteSet(T)
  BY <1>2, FS_Surjection
<1> QED
  BY <1>3 DEF T

------------------------------------------------------------------------------
(***************************************************************************)
(* Every tree is finite: a statement enters the keys of one row, or those  *)
(* of the rows there are.                                                  *)
(***************************************************************************)
FiniteTrees == \A n \in TableNames : \A x \in IndexNames : IsFiniteSet(trees[n][x])

\* What the first m indexes add to the trees of a table leaves them finite.
LEMMA AddedFinite ==
  ASSUME FiniteTrees, NEW n \in TableNames, NEW row, NEW rowIndex, NEW m \in Int
  PROVE  \A x \in IndexNames : IsFiniteSet(Added(n, row, rowIndex, m)[x])
<1> SUFFICES ASSUME NEW x \in IndexNames
             PROVE  IsFiniteSet(Added(n, row, rowIndex, m)[x])
  OBVIOUS
<1> DEFINE t == tables[n]
           some == {k \in 1 .. m : t.indexes[k].name = x}
           entry == [k \in some |-> TreeItem(IndexKey(t, row, t.indexes[k].exp).value,
                                             rowIndex, Cardinality(trees[n][x]))]
<1>1. IsFiniteSet(some)
  <2>1. IsFiniteSet(1 .. m)
    BY FS_Interval
  <2>2. some \in SUBSET (1 .. m)
    OBVIOUS
  <2> HIDE DEF some
  <2> QED
    BY <2>1, <2>2, FS_Subset
<1>2. Added(n, row, rowIndex, m)[x] = trees[n][x] \cup {entry[k] : k \in some}
  BY Zenon DEF Added
<1>3. IsFiniteSet({entry[k] : k \in some})
  <2>1. DOMAIN entry = some
    OBVIOUS
  <2> HIDE DEF entry, some
  <2> QED
    BY <1>1, <2>1, FiniteImage
<1>4. IsFiniteSet(trees[n][x])
  BY DEF FiniteTrees
<1> HIDE DEF entry, some
<1>5. IsFiniteSet(trees[n][x] \cup {entry[k] : k \in some})
  BY ONLY <1>3, <1>4, FS_Union
<1> QED
  BY ONLY <1>2, <1>5

\* The tree of a new index, filled from the first m rows, is finite.
LEMMA FilledFinite ==
  ASSUME NEW t, NEW exp, NEW m \in Int
  PROVE  IsFiniteSet(Filled(t, exp, m))
<1> DEFINE entry == [i \in 1 .. m |->
                       TreeItem(IndexKey(t, t.rows[i], exp).value, i - 1, i - 1)]
<1>1. Filled(t, exp, m) = {entry[i] : i \in 1 .. m}
  BY DEF Filled
<1>2. IsFiniteSet(1 .. m)
  BY FS_Interval
<1>3. DOMAIN entry = 1 .. m
  OBVIOUS
<1> HIDE DEF entry
<1> QED
  BY <1>1, <1>2, <1>3, FiniteImage

\* Trees stay finite when those of one table are replaced by finite ones.
LEMMA ReplacedFinite ==
  ASSUME TypeOK, FiniteTrees, NEW n \in TableNames, NEW f,
         trees' = [trees EXCEPT ![n] = f],
         \A x \in IndexNames : IsFiniteSet(f[x])
  PROVE  FiniteTrees'
<1>1. n \in DOMAIN trees
  BY DEF TypeOK
<1>2. \A q \in TableNames : \A x \in IndexNames :
        trees'[q][x] = IF q = n THEN f[x] ELSE trees[q][x]
  BY <1>1 DEF TypeOK
<1> QED
  BY <1>2 DEF FiniteTrees

\* The first of the rows or indexes that refuse, as a number
LEMMA FirstIsInteger ==
  ASSUME NEW m \in Nat, NEW bad \in SUBSET (1 .. m), bad # {}
  PROVE  Min(bad) - 1 \in Int
<1>1. bad \in SUBSET Nat
  OBVIOUS
<1>2. Min(bad) \in bad
  BY <1>1, LeastNatural
<1>3. \A y \in bad : y - 1 \in Int
  OBVIOUS
<1> QED
  BY <1>2, <1>3

\* CREATE INDEX makes one tree, from the rows of the table or the first of them.
LEMMA CreateIndexFinite ==
  ASSUME IndexInv, FiniteTrees, NEW s \in CreateIndexes, CreateIndex(s)
  PROVE  FiniteTrees'
<1> DEFINE n == s.table
           t == tables[n]
<1>1. n \in TableNames /\ s.name \in IndexNames
  BY StatementsAssumption
<1>2. ASSUME NEW m \in Int, trees' = [trees EXCEPT ![n][s.name] = Filled(t, s.exp, m)]
      PROVE  FiniteTrees'
  <2> DEFINE f == [trees[n] EXCEPT ![s.name] = Filled(t, s.exp, m)]
  <2>1. trees' = [trees EXCEPT ![n] = f]
    BY <1>2
  <2>2. IsFiniteSet(Filled(t, s.exp, m))
    BY FilledFinite
  <2>3. \A x \in IndexNames : f[x] = IF x = s.name THEN Filled(t, s.exp, m) ELSE trees[n][x]
    BY <1>1 DEF IndexInv, TypeOK
  <2>4. \A x \in IndexNames : IsFiniteSet(f[x])
    <3> HIDE DEF f, t, n
    <3> QED
      BY <1>1, <2>2, <2>3 DEF FiniteTrees
  <2> HIDE DEF f, t, n
  <2> QED
    BY <1>1, <2>1, <2>4, ReplacedFinite DEF IndexInv
<1>3. CASE trees' = trees
  BY <1>3 DEF FiniteTrees
<1>4. ASSUME Exists(n)
      PROVE  Len(t.rows) \in Nat /\ BadRows(t, s) \in SUBSET (1 .. Len(t.rows))
  <2>1. t.rows \in Seq(Row)
    BY <1>1, <1>4, TableShape DEF IndexInv
  <2> QED
    BY <2>1 DEF BadRows
<1> HIDE DEF n, t
<1>5. \/ trees' = trees
      \/ /\ Exists(n) /\ BadRows(t, s) # {}
         /\ trees' = [trees EXCEPT ![n][s.name] = Filled(t, s.exp, Min(BadRows(t, s)) - 1)]
      \/ /\ Exists(n)
         /\ trees' = [trees EXCEPT ![n][s.name] = Filled(t, s.exp, Len(t.rows))]
  BY Zenon DEF CreateIndex, Refuse, n, t
<1>6. ASSUME Exists(n), BadRows(t, s) # {}
      PROVE  Min(BadRows(t, s)) - 1 \in Int
  BY <1>4, <1>6, FirstIsInteger
<1> QED
  BY <1>2, <1>3, <1>4, <1>5, <1>6

\* INSERT adds one row to the trees of some of the table's indexes.
LEMMA InsertFinite ==
  ASSUME IndexInv, FiniteTrees, NEW s \in Inserts, Insert(s)
  PROVE  FiniteTrees'
<1> DEFINE n == s.table
           t == tables[n]
           row == RowOf(s.values)
<1>1. n \in TableNames
  BY StatementsAssumption
<1>2. ASSUME NEW m \in Int, trees' = [trees EXCEPT ![n] = Added(n, row, Len(t.rows), m)]
      PROVE  FiniteTrees'
  <2> HIDE DEF n, t, row
  <2>1. \A x \in IndexNames : IsFiniteSet(Added(n, row, Len(t.rows), m)[x])
    BY <1>1, AddedFinite
  <2> QED
    BY <1>1, <1>2, <2>1, ReplacedFinite DEF IndexInv
<1>3. CASE trees' = trees
  BY <1>3 DEF FiniteTrees
<1>4. ASSUME Exists(n)
      PROVE  Len(t.indexes) \in Nat /\ Refusals(n, row) \in SUBSET (1 .. Len(t.indexes))
  <2>1. t.indexes \in Seq(Index)
    BY <1>1, <1>4, TableShape DEF IndexInv
  <2> QED
    BY <2>1 DEF Refusals
<1> HIDE DEF n, t, row
<1>5. \/ trees' = trees
      \/ /\ Exists(n) /\ Refusals(n, row) # {}
         /\ trees' = [trees EXCEPT ![n] = Added(n, row, Len(t.rows), Min(Refusals(n, row)) - 1)]
      \/ /\ Exists(n)
         /\ trees' = [trees EXCEPT ![n] = Added(n, row, Len(t.rows), Len(t.indexes))]
  BY Zenon DEF Insert, Refuse, n, t, row
<1>6. ASSUME Exists(n), Refusals(n, row) # {}
      PROVE  Min(Refusals(n, row)) - 1 \in Int
  BY <1>4, <1>6, FirstIsInteger
<1> QED
  BY <1>2, <1>3, <1>4, <1>5, <1>6

\* The trees of a table that is created or dropped are empty.
LEMMA EmptiedFinite ==
  ASSUME IndexInv, FiniteTrees, NEW n \in TableNames,
         trees' = [trees EXCEPT ![n] = [x \in IndexNames |-> {}]] \/ trees' = trees
  PROVE  FiniteTrees'
<1>1. CASE trees' = trees
  BY <1>1 DEF FiniteTrees
<1>2. CASE trees' = [trees EXCEPT ![n] = [x \in IndexNames |-> {}]]
  <2> DEFINE f == [x \in IndexNames |-> {}]
  <2>1. \A x \in IndexNames : f[x] = {}
    OBVIOUS
  <2>2. \A x \in IndexNames : IsFiniteSet(f[x])
    BY <2>1, FS_EmptySet
  <2>3. trees' = [trees EXCEPT ![n] = f]
    BY <1>2
  <2> HIDE DEF f
  <2> QED
    BY <2>2, <2>3, ReplacedFinite DEF IndexInv
<1> QED
  BY <1>1, <1>2

\* No statement makes a tree infinite.
LEMMA StepFinite ==
  ASSUME IndexInv, FiniteTrees, [Next]_vars
  PROVE  FiniteTrees'
<1>1. ASSUME NEW s \in CreateTables, CreateTable(s) PROVE FiniteTrees'
  <2>1. s.table \in TableNames
    BY StatementsAssumption
  <2>2. \/ trees' = trees
        \/ trees' = [trees EXCEPT ![s.table] = [x \in IndexNames |-> {}]]
    BY <1>1, Zenon DEF CreateTable, Refuse
  <2> QED
    BY <2>1, <2>2, EmptiedFinite
<1>2. ASSUME NEW s \in DropTables, DropTable(s) PROVE FiniteTrees'
  <2>1. s.table \in TableNames
    BY StatementsAssumption
  <2>2. \/ trees' = trees
        \/ trees' = [trees EXCEPT ![s.table] = [x \in IndexNames |-> {}]]
    BY <1>2, Zenon DEF DropTable, Refuse
  <2> QED
    BY <2>1, <2>2, EmptiedFinite
<1>3. ASSUME NEW s \in Selects, Select(s) PROVE FiniteTrees'
  BY <1>3 DEF Select, FiniteTrees
<1>4. CASE UNCHANGED vars
  BY <1>4 DEF vars, FiniteTrees
<1> QED
  BY <1>1, <1>2, <1>3, <1>4, CreateIndexFinite, InsertFinite DEF Next

\* Whatever is stored and refused, no tree is ever infinite.
THEOREM TreesFinite == Spec => []FiniteTrees
<1>1. Init => FiniteTrees
  <2> SUFFICES ASSUME Init PROVE FiniteTrees
    OBVIOUS
  <2>1. \A n \in TableNames : \A x \in IndexNames : trees[n][x] = {}
    BY DEF Init
  <2> QED
    BY <2>1, FS_EmptySet DEF FiniteTrees
<1>2. IndexInv /\ FiniteTrees /\ [Next]_vars => FiniteTrees'
  BY StepFinite
<1>3. Spec => []IndexInv
  BY IndexesSound
<1> QED
  BY <1>1, <1>2, <1>3, PTL DEF Spec

------------------------------------------------------------------------------
(***************************************************************************)
(* Evaluation comes to an end: expressions are finite trees.  The value of *)
(* an expression and the list of its conjuncts are found the same way, from *)
(* those of its parts, and are taken together here.                        *)
(***************************************************************************)
Leaf(columns, types, row, e) == <<EvaluateLiteralCell(columns, types, row, e), <<>>>>

Node(e, x, y) ==
  <<EvaluateBinaryCell(e.op, x[1], y[1]),
    IF IsLiteral(e) \/ e.op = "or" THEN <<>>
    ELSE IF e.op = "and" THEN x[2] \o y[2]
    ELSE <<e>>>>

\* What f gives for the parts of e makes this for e.
Derived(columns, types, row, f, e) ==
  IF IsLiteral(e) THEN Leaf(columns, types, row, e) ELSE Node(e, f[e.a], f[e.b])

\* f is right for all expressions no deeper than d.
RightTo(d, f, columns, types, row) ==
  \A e \in Exprs : Depth[e] <= d => f[e] = Derived(columns, types, row, f, e)

\* Some function is right to each depth.
LEMMA RightExists ==
  ASSUME NEW columns, NEW types, NEW row, NEW d \in Nat
  PROVE  \E f : RightTo(d, f, columns, types, row)
<1> DEFINE T(f, e) == Derived(columns, types, row, f, e)
           Right(f, m) == \A e \in Exprs : Depth[e] <= m => f[e] = T(f, e)
           Q == {m \in 0 .. d : \E f : Right(f, m)}
<1>1. \A f, g : \A e \in Exprs :
        (~IsLiteral(e) => f[e.a] = g[e.a] /\ f[e.b] = g[e.b]) => T(f, e) = T(g, e)
  BY Zenon DEF Derived
<1>2. \A e \in Exprs :
        /\ Depth[e] \in Nat
        /\ ~IsLiteral(e) => /\ e.a \in Exprs /\ e.b \in Exprs
                            /\ Depth[e.a] \in Nat /\ Depth[e.b] \in Nat
                            /\ Depth[e.a] < Depth[e] /\ Depth[e.b] < Depth[e]
  BY FiniteAssumption, ExprsAssumption DEF IsLiteral
<1> HIDE DEF T
<1>3. 0 \in Q
  <2> DEFINE g == [e \in Exprs |-> T(0, e)]
  <2>1. ASSUME NEW e \in Exprs, Depth[e] <= 0 PROVE g[e] = T(g, e)
    <3>1. IsLiteral(e)
      BY <1>2, <2>1
    <3>2. T(0, e) = T(g, e)
      BY <1>1, <3>1
    <3> QED
      BY <3>2
  <2> HIDE DEF g
  <2>2. Right(g, 0)
    BY <2>1
  <2> QED
    BY <2>2
<1>4. ASSUME NEW m \in 0 .. (d - 1), m \in Q PROVE m + 1 \in Q
  <2>1. PICK f : Right(f, m)
    BY <1>4
  <2> DEFINE g == [e \in Exprs |-> T(f, e)]
  <2>2. \A e \in Exprs : g[e] = T(f, e)
    OBVIOUS
  <2> HIDE DEF g
  <2>3. ASSUME NEW e \in Exprs, Depth[e] <= m + 1 PROVE g[e] = T(g, e)
    <3>1. ~IsLiteral(e) => Depth[e.a] <= m /\ Depth[e.b] <= m
      BY <1>2, <2>3
    <3>2. ~IsLiteral(e) => g[e.a] = f[e.a] /\ g[e.b] = f[e.b]
      BY <1>2, <2>1, <2>2, <3>1
    <3> QED
      BY <1>1, <2>2, <3>2
  <2>4. Right(g, m + 1)
    BY <2>3
  <2> HIDE DEF Right
  <2> QED
    BY <2>4
<1>5. d \in Q
  <2> HIDE DEF Q
  <2>1. \A m \in 0 .. d : m \in Q
    BY <1>3, <1>4, Upwards
  <2> QED
    BY <2>1
<1>6. PICK f : Right(f, d)
  BY <1>5
<1> QED
  BY <1>6 DEF RightTo, T

\* Two functions that are right to a depth agree up to it.
LEMMA RightAgree ==
  ASSUME NEW columns, NEW types, NEW row, NEW d \in Nat, NEW f, NEW g,
         RightTo(d, f, columns, types, row), RightTo(d, g, columns, types, row)
  PROVE  \A e \in Exprs : Depth[e] <= d => f[e] = g[e]
<1> DEFINE T(h, e) == Derived(columns, types, row, h, e)
           Q == {m \in 0 .. d : \A e \in Exprs : Depth[e] <= m => f[e] = g[e]}
<1>1. \A e \in Exprs :
        (~IsLiteral(e) => f[e.a] = g[e.a] /\ f[e.b] = g[e.b]) => T(f, e) = T(g, e)
  BY Zenon DEF Derived
<1>2. \A e \in Exprs :
        /\ Depth[e] \in Nat
        /\ ~IsLiteral(e) => /\ e.a \in Exprs /\ e.b \in Exprs
                            /\ Depth[e.a] \in Nat /\ Depth[e.b] \in Nat
                            /\ Depth[e.a] < Depth[e] /\ Depth[e.b] < Depth[e]
  BY FiniteAssumption, ExprsAssumption DEF IsLiteral
<1>3. \A e \in Exprs : Depth[e] <= d => f[e] = T(f, e) /\ g[e] = T(g, e)
  BY DEF RightTo
<1> HIDE DEF T
<1>4. 0 \in Q
  <2>1. ASSUME NEW e \in Exprs, Depth[e] <= 0 PROVE f[e] = g[e]
    BY <1>1, <1>2, <1>3, <2>1
  <2> QED
    BY <2>1
<1>5. ASSUME NEW m \in 0 .. (d - 1), m \in Q PROVE m + 1 \in Q
  <2>1. ASSUME NEW e \in Exprs, Depth[e] <= m + 1 PROVE f[e] = g[e]
    <3>1. ~IsLiteral(e) => Depth[e.a] <= m /\ Depth[e.b] <= m
      BY <1>2, <2>1
    <3>2. ~IsLiteral(e) => f[e.a] = g[e.a] /\ f[e.b] = g[e.b]
      BY <1>2, <1>5, <3>1
    <3>3. Depth[e] <= d
      BY <1>2, <2>1
    <3> QED
      BY <1>1, <1>3, <3>2, <3>3
  <2> QED
    BY <2>1
<1>6. d \in Q
  <2> HIDE DEF Q
  <2>1. \A m \in 0 .. d : m \in Q
    BY <1>4, <1>5, Upwards
  <2> QED
    BY <2>1
<1> QED
  BY <1>6

\* One function is right for all expressions.
LEMMA RightForAll ==
  ASSUME NEW columns, NEW types, NEW row
  PROVE  \E f : \A e \in Exprs : f[e] = Derived(columns, types, row, f, e)
<1> DEFINE T(h, e) == Derived(columns, types, row, h, e)
           To(d) == CHOOSE f : RightTo(d, f, columns, types, row)
           g == [e \in Exprs |-> To(Depth[e])[e]]
<1>1. \A d \in Nat : RightTo(d, To(d), columns, types, row)
  BY RightExists
<1>2. \A e \in Exprs :
        /\ Depth[e] \in Nat
        /\ ~IsLiteral(e) => /\ e.a \in Exprs /\ e.b \in Exprs
                            /\ Depth[e.a] \in Nat /\ Depth[e.b] \in Nat
                            /\ Depth[e.a] < Depth[e] /\ Depth[e.b] < Depth[e]
  BY FiniteAssumption, ExprsAssumption DEF IsLiteral
<1>3. \A e \in Exprs : g[e] = To(Depth[e])[e]
  OBVIOUS
<1> HIDE DEF To, g
<1>4. ASSUME NEW e \in Exprs, NEW d \in Nat, Depth[e] <= d PROVE To(d)[e] = g[e]
  <2>1. RightTo(Depth[e], To(d), columns, types, row)
    BY <1>1, <1>2, <1>4 DEF RightTo
  <2>2. RightTo(Depth[e], To(Depth[e]), columns, types, row)
    BY <1>1, <1>2
  <2>3. To(d)[e] = To(Depth[e])[e]
    BY <1>2, <2>1, <2>2, RightAgree
  <2> QED
    BY <1>3, <2>3
<1>5. ASSUME NEW e \in Exprs PROVE g[e] = T(g, e)
  <2> DEFINE f == To(Depth[e])
  <2>1. g[e] = f[e] /\ f[e] = T(f, e)
    BY <1>1, <1>2, <1>3 DEF RightTo
  <2>2. ~IsLiteral(e) => f[e.a] = g[e.a] /\ f[e.b] = g[e.b]
    BY <1>2, <1>4
  <2> HIDE DEF f
  <2>3. T(f, e) = T(g, e)
    BY <2>2, Zenon DEF Derived
  <2> QED
    BY <2>1, <2>3
<1> QED
  BY <1>5

\* The recursions of evaluateCell and of linearizeExpressions
Evaluates(eval, columns, types, row) ==
  eval = [e \in Exprs |->
            IF IsLiteral(e) THEN EvaluateLiteralCell(columns, types, row, e)
            ELSE EvaluateBinaryCell(e.op, eval[e.a], eval[e.b])]

Linearizes(conjuncts) ==
  conjuncts = [e \in Exprs |->
                 IF IsLiteral(e) \/ e.op = "or" THEN <<>>
                 ELSE IF e.op = "and" THEN conjuncts[e.a] \o conjuncts[e.b]
                 ELSE <<e>>]

\* The value of an expression is made of the values of its parts.
LEMMA EvaluateByParts ==
  ASSUME NEW columns, NEW types, NEW row, NEW e \in Exprs
  PROVE  EvaluateCell(columns, types, row, e) =
           IF IsLiteral(e) THEN EvaluateLiteralCell(columns, types, row, e)
           ELSE EvaluateBinaryCell(e.op, EvaluateCell(columns, types, row, e.a),
                                         EvaluateCell(columns, types, row, e.b))
<1>1. PICK f : \A x \in Exprs : f[x] = Derived(columns, types, row, f, x)
  BY RightForAll
<1> DEFINE g == [x \in Exprs |-> f[x][1]]
<1>2. \A x \in Exprs : ~IsLiteral(x) => x.a \in Exprs /\ x.b \in Exprs
  BY ExprsAssumption DEF IsLiteral
<1>3. \A x \in Exprs :
        g[x] = IF IsLiteral(x) THEN EvaluateLiteralCell(columns, types, row, x)
               ELSE EvaluateBinaryCell(x.op, g[x.a], g[x.b])
  <2> TAKE x \in Exprs
  <2>1. g[x] = Derived(columns, types, row, f, x)[1]
    BY <1>1
  <2>2. ~IsLiteral(x) => g[x.a] = f[x.a][1] /\ g[x.b] = f[x.b][1]
    BY <1>2
  <2>3. \A y, z : Leaf(columns, types, row, x)[1] = EvaluateLiteralCell(columns, types, row, x)
                  /\ Node(x, y, z)[1] = EvaluateBinaryCell(x.op, y[1], z[1])
    BY DEF Leaf, Node
  <2> HIDE DEF g
  <2> QED
    BY <2>1, <2>2, <2>3 DEF Derived
<1>4. g = [x \in Exprs |-> g[x]]
  OBVIOUS
<1> HIDE DEF g
<1>5. Evaluates(g, columns, types, row)
  BY <1>3, <1>4 DEF Evaluates
<1> DEFINE eval == CHOOSE eval : Evaluates(eval, columns, types, row)
<1>6. Evaluates(eval, columns, types, row)
  BY <1>5
<1>7. \A x : EvaluateCell(columns, types, row, x) = eval[x]
  BY Zenon DEF EvaluateCell, Evaluates
<1> HIDE DEF eval
<1>8. eval[e] = IF IsLiteral(e) THEN EvaluateLiteralCell(columns, types, row, e)
                ELSE EvaluateBinaryCell(e.op, eval[e.a], eval[e.b])
  BY <1>6, Zenon DEF Evaluates
<1> QED
  BY <1>7, <1>8

\* The conjuncts of a WHERE clause are a list of expressions.
LEMMA ConjunctsListed ==
  ASSUME NEW where \in Exprs \cup {nil}
  PROVE  LinearizeExpressions(where) \in Seq(Exprs)
<1>1. PICK f : \A x \in Exprs : f[x] = Derived(<<>>, <<>>, noRow, f, x)
  BY RightForAll
<1> DEFINE g == [x \in Exprs |-> f[x][2]]
           Step(x, y, z) == IF IsLiteral(x) \/ x.op = "or" THEN <<>>
                           ELSE IF x.op = "and" THEN y \o z
                           ELSE <<x>>
<1>2. \A x \in Exprs : ~IsLiteral(x) => x.a \in Exprs /\ x.b \in Exprs
  BY ExprsAssumption DEF IsLiteral
<1>3. \A x, y, z : IsLiteral(x) => Step(x, y, z) = <<>>
  BY Zenon
<1>4. \A x \in Exprs : g[x] = Step(x, g[x.a], g[x.b])
  <2> TAKE x \in Exprs
  <2>1. g[x] = Derived(<<>>, <<>>, noRow, f, x)[2]
    BY <1>1
  <2>2. ~IsLiteral(x) => g[x.a] = f[x.a][2] /\ g[x.b] = f[x.b][2]
    BY <1>2
  <2>3. \A y, z : Leaf(<<>>, <<>>, noRow, x)[2] = <<>>
                  /\ Node(x, y, z)[2] = Step(x, y[2], z[2])
    <3> HIDE DEF Step
    <3>1. \A y, z : Node(x, y, z) =
            <<EvaluateBinaryCell(x.op, y[1], z[1]), Step(x, y[2], z[2])>>
      BY Zenon DEF Node, Step
    <3> QED
      BY <3>1 DEF Leaf
  <2> HIDE DEF g, Step
  <2> QED
    BY <1>3, <2>1, <2>2, <2>3 DEF Derived
<1>5. g = [x \in Exprs |-> g[x]]
  OBVIOUS
<1> HIDE DEF g
<1>6. Linearizes(g)
  <2> HIDE DEF Step
  <2>1. g = [x \in Exprs |-> Step(x, g[x.a], g[x.b])]
    BY <1>4, <1>5
  <2> QED
    BY <2>1, Zenon DEF Linearizes, Step
<1> DEFINE conjuncts == CHOOSE conjuncts : Linearizes(conjuncts)
<1>7. Linearizes(conjuncts)
  BY <1>6
<1>8. LinearizeExpressions(where) = IF where = nil THEN <<>> ELSE conjuncts[where]
  <2>1. CASE where = nil
    BY <2>1 DEF LinearizeExpressions
  <2>2. CASE where # nil
    BY <2>2, Zenon DEF LinearizeExpressions, Linearizes
  <2> QED
    BY <2>1, <2>2
<1> HIDE DEF conjuncts
<1>9. \A x \in Exprs : conjuncts[x] = Step(x, conjuncts[x.a], conjuncts[x.b])
  BY <1>7, Zenon DEF Linearizes
<1>10. \A x, y, z : \/ Step(x, y, z) = <<>> \/ Step(x, y, z) = <<x>>
                    \/ ~IsLiteral(x) /\ Step(x, y, z) = y \o z
  BY Zenon
<1> HIDE DEF Step
<1>11. ASSUME NEW d \in Nat
       PROVE  \A x \in Exprs : Depth[x] <= d => conjuncts[x] \in Seq(Exprs)
  <2> DEFINE Q == {m \in 0 .. d : \A x \in Exprs : Depth[x] <= m => conjuncts[x] \in Seq(Exprs)}
  <2>1. ASSUME NEW x \in Exprs,
               ~IsLiteral(x) => conjuncts[x.a] \in Seq(Exprs) /\ conjuncts[x.b] \in Seq(Exprs)
        PROVE  conjuncts[x] \in Seq(Exprs)
    <3>1. <<>> \in Seq(Exprs) /\ <<x>> \in Seq(Exprs)
      OBVIOUS
    <3>2. \A y, z \in Seq(Exprs) : y \o z \in Seq(Exprs)
      OBVIOUS
    <3>3. \/ conjuncts[x] = <<>> \/ conjuncts[x] = <<x>>
          \/ ~IsLiteral(x) /\ conjuncts[x] = conjuncts[x.a] \o conjuncts[x.b]
      <4> DEFINE y == conjuncts[x.a]
                 z == conjuncts[x.b]
      <4>1. conjuncts[x] = Step(x, y, z)
        BY <1>9
      <4> HIDE DEF y, z
      <4>2. \/ Step(x, y, z) = <<>> \/ Step(x, y, z) = <<x>>
            \/ ~IsLiteral(x) /\ Step(x, y, z) = y \o z
        BY <1>10
      <4>3. \/ conjuncts[x] = <<>> \/ conjuncts[x] = <<x>>
            \/ ~IsLiteral(x) /\ conjuncts[x] = y \o z
        BY <4>1, <4>2
      <4> QED
        BY <4>3 DEF y, z
    <3> QED
      BY <2>1, <3>1, <3>2, <3>3
  <2>2. \A x \in Exprs : /\ Depth[x] \in Nat
                         /\ ~IsLiteral(x) => Depth[x.a] < Depth[x] /\ Depth[x.b] < Depth[x]
                                             /\ Depth[x.a] \in Nat /\ Depth[x.b] \in Nat
    BY <1>2, FiniteAssumption
  <2>3. 0 \in Q
    <3>1. \A x \in Exprs : Depth[x] <= 0 => IsLiteral(x)
      BY <2>2
    <3> QED
      BY <2>1, <3>1
  <2>4. ASSUME NEW m \in 0 .. (d - 1), m \in Q PROVE m + 1 \in Q
    <3>1. ASSUME NEW x \in Exprs, Depth[x] <= m + 1 PROVE conjuncts[x] \in Seq(Exprs)
      <4>1. ~IsLiteral(x) => Depth[x.a] <= m /\ Depth[x.b] <= m
        BY <2>2, <3>1
      <4> QED
        BY <1>2, <2>1, <2>4, <4>1
    <3> QED
      BY <3>1
  <2>5. d \in Q
    <3> HIDE DEF Q
    <3>1. \A m \in 0 .. d : m \in Q
      BY <2>3, <2>4, Upwards
    <3> QED
      BY <3>1
  <2> QED
    BY <2>5
<1>12. where # nil => conjuncts[where] \in Seq(Exprs)
  <2>1. where # nil => where \in Exprs /\ Depth[where] \in Nat /\ Depth[where] <= Depth[where]
    BY FiniteAssumption
  <2> QED
    BY <1>11, <2>1
<1> QED
  BY <1>8, <1>12

------------------------------------------------------------------------------
(***************************************************************************)
(* Narrowing by an index fetches rows of the table, or panics.             *)
(***************************************************************************)

(***************************************************************************)
(* In a finite set with an order, each place is taken: some element has as *)
(* many before it as the place says.                                       *)
(***************************************************************************)
LEMMA RanksTaken ==
  ASSUME NEW S, IsFiniteSet(S), NEW R,
         \A x \in S : <<x, x>> \notin R,
         \A x, y, z \in S : <<x, y>> \in R /\ <<y, z>> \in R => <<x, z>> \in R,
         \A x, y \in S : x = y \/ <<x, y>> \in R \/ <<y, x>> \in R
  PROVE  \A i \in 1 .. Cardinality(S) :
           \E x \in S : Cardinality({y \in S : <<y, x>> \in R}) = i - 1
<1> DEFINE n == Cardinality(S)
           Before(x) == {y \in S : <<y, x>> \in R}
           rank == [x \in S |-> Cardinality(Before(x))]
<1>1. n \in Nat
  BY FS_CardinalityType
<1>2. \A x \in S : /\ IsFiniteSet(Before(x)) /\ Cardinality(Before(x)) \in Nat
                   /\ Cardinality(Before(x)) < n
  <2> TAKE x \in S
  <2>1. Before(x) \in SUBSET S /\ x \notin Before(x)
    OBVIOUS
  <2> HIDE DEF Before
  <2>2. /\ IsFiniteSet(Before(x)) /\ Cardinality(Before(x)) <= n
        /\ Cardinality(Before(x)) = n => Before(x) = S
    BY <2>1, FS_Subset
  <2>3. Cardinality(Before(x)) \in Nat
    BY <2>2, FS_CardinalityType
  <2> HIDE DEF n
  <2> QED
    BY <1>1, <2>1, <2>2, <2>3
<1>3. ASSUME NEW x \in S, NEW y \in S, <<x, y>> \in R
      PROVE  Cardinality(Before(x)) # Cardinality(Before(y))
  <2>1. Before(x) \in SUBSET Before(y)
    BY <1>3
  <2>2. x \in Before(y) /\ x \notin Before(x)
    BY <1>3
  <2> HIDE DEF Before
  <2> QED
    BY <1>2, <2>1, <2>2, FS_Subset
<1>4. rank \in Injection(S, 0 .. (n - 1))
  <2>1. rank \in [S -> 0 .. (n - 1)]
    <3> HIDE DEF Before, n
    <3> QED
      BY <1>1, <1>2
  <2>2. \A x, y \in S : rank[x] = rank[y] => x = y
    <3> HIDE DEF Before
    <3> QED
      BY <1>3
  <2> HIDE DEF rank, n
  <2> QED
    BY <2>1, <2>2 DEF Injection, IsInjective
<1>5. IsFiniteSet(0 .. (n - 1)) /\ Cardinality(0 .. (n - 1)) = n
  <2> HIDE DEF n
  <2>1. 0 \in Int /\ n - 1 \in Int /\ (IF 0 > n - 1 THEN 0 ELSE (n - 1) - 0 + 1) = n
    BY <1>1
  <2> QED
    BY <2>1, FS_Interval
<1>6. rank \in Surjection(S, 0 .. (n - 1))
  <2> HIDE DEF rank
  <2> QED
    BY <1>4, <1>5, FS_Injection
<1>7. \A i \in 1 .. n : \E x \in S : rank[x] = i - 1
  <2> HIDE DEF rank, n
  <2>1. \A i \in 1 .. n : i - 1 \in 0 .. (n - 1)
    BY <1>1
  <2> QED
    BY <1>6, <2>1 DEF Surjection
<1>8. \A x \in S : rank[x] = Cardinality(Before(x))
  OBVIOUS
<1> HIDE DEF rank
<1> QED
  BY <1>7, <1>8

\* The positions a walk collects are a sequence: the tree is finite.
LEMMA PositionsDomain ==
  ASSUME NEW tree, IsFiniteSet(tree), NEW op, NEW value
  PROVE  \E n \in Nat : DOMAIN Positions(tree, op, value) = 1 .. n
<1> DEFINE found == {ti \in tree : Collects(op, ti.value, value)}
<1>1. found \in SUBSET tree
  OBVIOUS
<1> HIDE DEF found
<1>2. Cardinality(found) \in Nat
  BY <1>1, FS_Subset, FS_CardinalityType
<1>3. DOMAIN Positions(tree, op, value) = 1 .. Cardinality(found)
  BY Zenon DEF Positions, Ranked, found
<1> QED
  BY <1>2, <1>3

\* So are the indexes that apply to a WHERE clause.
LEMMA ApplicableDomain ==
  ASSUME NEW indexes \in Seq(Index), NEW where \in Exprs \cup {nil}
  PROVE  \E n \in Nat :
           /\ DOMAIN GetApplicableIndexes(indexes, where) = 1 .. n
           /\ Len(GetApplicableIndexes(indexes, where)) = n
           /\ \A i \in 1 .. n :
                \E k \in DOMAIN indexes :
                  GetApplicableIndexes(indexes, where)[i].index = indexes[k]
<1> DEFINE conjuncts == LinearizeExpressions(where)
           all == {p \in (DOMAIN conjuncts) \X (DOMAIN indexes) :
                     ApplicableValue(indexes[p[2]].exp, conjuncts[p[1]]) # nil}
<1>1. conjuncts \in Seq(Exprs)
  BY ConjunctsListed
<1>2. IsFiniteSet(all)
  <2>1. IsFiniteSet(DOMAIN conjuncts) /\ IsFiniteSet(DOMAIN indexes)
    <3> HIDE DEF conjuncts
    <3>1. DOMAIN conjuncts = 1 .. Len(conjuncts) /\ Len(conjuncts) \in Int
      BY <1>1
    <3>2. DOMAIN indexes = 1 .. Len(indexes) /\ Len(indexes) \in Int
      OBVIOUS
    <3> QED
      BY <3>1, <3>2, FS_Interval
  <2>2. all \in SUBSET ((DOMAIN conjuncts) \X (DOMAIN indexes))
    OBVIOUS
  <2> HIDE DEF all, conjuncts
  <2> QED
    BY <2>1, <2>2, FS_Product, FS_Subset
<1> DEFINE n == Cardinality(all)
<1>3. n \in Nat
  BY <1>2, FS_CardinalityType
<1> DEFINE Earlier(p, q) == p[1] < q[1] \/ (p[1] = q[1] /\ p[2] < q[2])
           pairs == [i \in 1 .. n |->
                       CHOOSE x \in all : Cardinality({y \in all : Earlier(y, x)}) = i - 1]
           list == [i \in 1 .. n |-> [index |-> indexes[pairs[i][2]],
                                      exp |-> conjuncts[pairs[i][1]]]]
<1>4. GetApplicableIndexes(indexes, where) = list
  BY DEF GetApplicableIndexes, Ranked
<1>5. \A x \in all : /\ x[1] \in Nat /\ x[2] \in Nat /\ x = <<x[1], x[2]>>
                     /\ x[2] \in DOMAIN indexes
  <2>1. conjuncts \in Seq(Exprs) => DOMAIN conjuncts \in SUBSET Nat
    <3> HIDE DEF conjuncts
    <3> QED
      OBVIOUS
  <2>2. DOMAIN indexes \in SUBSET Nat
    OBVIOUS
  <2> HIDE DEF conjuncts
  <2> QED
    BY <1>1, <2>1, <2>2
<1>6. \A i \in 1 .. n : \E x \in all : Cardinality({y \in all : Earlier(y, x)}) = i - 1
  <2> DEFINE R == {p \in all \X all : Earlier(p[1], p[2])}
  <2>1. \A x, y \in all : <<y, x>> \in R <=> Earlier(y, x)
    OBVIOUS
  <2>2. /\ \A x \in all : ~Earlier(x, x)
        /\ \A x, y, z \in all : Earlier(x, y) /\ Earlier(y, z) => Earlier(x, z)
        /\ \A x, y \in all : x = y \/ Earlier(x, y) \/ Earlier(y, x)
    <3> HIDE DEF all
    <3> QED
      BY <1>5
  <2> HIDE DEF R, all, Earlier
  <2>3. /\ \A x \in all : <<x, x>> \notin R
        /\ \A x, y, z \in all : <<x, y>> \in R /\ <<y, z>> \in R => <<x, z>> \in R
        /\ \A x, y \in all : x = y \/ <<x, y>> \in R \/ <<y, x>> \in R
    BY <2>1, <2>2
  <2>4. \A i \in 1 .. n : \E x \in all : Cardinality({y \in all : <<y, x>> \in R}) = i - 1
    BY <1>2, <2>3, RanksTaken
  <2>5. \A x \in all : {y \in all : <<y, x>> \in R} = {y \in all : Earlier(y, x)}
    BY <2>1
  <2> QED
    BY <2>4, <2>5
<1>7. \A i \in 1 .. n : pairs[i] \in all
  <2> HIDE DEF all, Earlier, n
  <2> QED
    BY <1>6
<1>8. \A i \in 1 .. n : list[i].index = indexes[pairs[i][2]]
  <2> HIDE DEF pairs, conjuncts
  <2> QED
    OBVIOUS
<1> HIDE DEF pairs, all, n
<1>9. DOMAIN list = 1 .. n /\ Len(list) = n
  BY <1>3
<1> HIDE DEF list
<1> QED
  BY <1>3, <1>4, <1>5, <1>7, <1>8, <1>9

\* The rows an index finds are rows it was given.
LEMMA SubsetRows ==
  ASSUME NEW R, NEW rows \in Seq(R), NEW index, NEW tree, IsFiniteSet(tree), NEW exp
  PROVE  NewTableFromSubset(rows, index, tree, exp).rows \in Seq(R)
<1> DEFINE constant  == EvaluateConstant(ApplicableValue(index.exp, exp))
           positions == Positions(tree, exp.op, constant.value)
           found == [i \in DOMAIN positions |-> rows[positions[i] + 1]]
<1>1. PICK n \in Nat : DOMAIN positions = 1 .. n
  <2> HIDE DEF constant
  <2> QED
    BY PositionsDomain
<1>2. ASSUME \A i \in DOMAIN positions : positions[i] + 1 \in DOMAIN rows
      PROVE  found \in Seq(R)
  <2> HIDE DEF positions
  <2>1. \A i \in DOMAIN positions : rows[positions[i] + 1] \in R
    BY <1>2
  <2>2. found \in [1 .. n -> R]
    BY <1>1, <2>1
  <2> HIDE DEF found
  <2> QED
    BY <2>2
<1>3. \/ NewTableFromSubset(rows, index, tree, exp) = Subset(rows, FALSE)
      \/ NewTableFromSubset(rows, index, tree, exp) = Subset(<<>>, TRUE)
      \/ /\ NewTableFromSubset(rows, index, tree, exp) = Subset(found, FALSE)
         /\ \A i \in DOMAIN positions : positions[i] + 1 \in DOMAIN rows
  BY Zenon DEF NewTableFromSubset
<1>4. \A r, p : Subset(r, p).rows = r
  BY DEF Subset
<1>5. <<>> \in Seq(R)
  OBVIOUS
<1> HIDE DEF found, positions, constant
<1>6. CASE NewTableFromSubset(rows, index, tree, exp) = Subset(rows, FALSE)
  BY ONLY <1>4, <1>6, rows \in Seq(R), Zenon
<1>7. CASE NewTableFromSubset(rows, index, tree, exp) = Subset(<<>>, TRUE)
  BY ONLY <1>4, <1>5, <1>7, Zenon
<1>8. CASE /\ NewTableFromSubset(rows, index, tree, exp) = Subset(found, FALSE)
           /\ \A i \in DOMAIN positions : positions[i] + 1 \in DOMAIN rows
  BY ONLY <1>2, <1>4, <1>8, Zenon
<1> QED
  BY ONLY <1>3, <1>6, <1>7, <1>8, Zenon

\* f holds what the first m of the indexes have left of the rows.
NarrowedUpTo(f, m, rows, tree, list) ==
  f = [i \in 0 .. m |->
         IF i = 0 THEN Subset(rows, FALSE)
         ELSE IF f[i - 1].panicked THEN f[i - 1]
         ELSE LET p == list[i]
              IN  NewTableFromSubset(f[i - 1].rows, p.index, tree[p.index.name], p.exp)]

NarrowsUpTo(m, rows, tree, list) == \E f : NarrowedUpTo(f, m, rows, tree, list)

\* The loop over the applicable indexes comes to its end.
LEMMA NarrowedExists ==
  ASSUME NEW n \in Nat, NEW rows, NEW tree, NEW list
  PROVE  NarrowsUpTo(n, rows, tree, list)
<1> DEFINE Q == {m \in 0 .. n : NarrowsUpTo(m, rows, tree, list)}
           Turn(prev, i) ==
             IF prev.panicked THEN prev
             ELSE LET p == list[i]
                  IN  NewTableFromSubset(prev.rows, p.index, tree[p.index.name], p.exp)
<1>0. \A f, m : NarrowedUpTo(f, m, rows, tree, list) <=>
        f = [i \in 0 .. m |-> IF i = 0 THEN Subset(rows, FALSE) ELSE Turn(f[i - 1], i)]
  BY DEF NarrowedUpTo
<1> HIDE DEF Turn
<1>1. 0 \in Q
  <2> DEFINE f == [i \in 0 .. 0 |-> Subset(rows, FALSE)]
  <2>1. f = [i \in 0 .. 0 |-> IF i = 0 THEN Subset(rows, FALSE) ELSE Turn(f[i - 1], i)]
    OBVIOUS
  <2>2. NarrowedUpTo(f, 0, rows, tree, list)
    <3> HIDE DEF f
    <3> QED
      BY <1>0, <2>1
  <2> QED
    BY <2>2 DEF NarrowsUpTo
<1>2. ASSUME NEW m \in 0 .. (n - 1), m \in Q PROVE m + 1 \in Q
  <2>1. PICK f : NarrowedUpTo(f, m, rows, tree, list)
    BY <1>2 DEF NarrowsUpTo
  <2>2. f = [i \in 0 .. m |-> IF i = 0 THEN Subset(rows, FALSE) ELSE Turn(f[i - 1], i)]
    BY <1>0, <2>1
  <2> DEFINE g == [i \in 0 .. (m + 1) |-> IF i = m + 1 THEN Turn(f[m], m + 1) ELSE f[i]]
  <2>3. \A i \in 0 .. (m + 1) :
          g[i] = IF i = 0 THEN Subset(rows, FALSE) ELSE Turn(g[i - 1], i)
    <3> TAKE i \in 0 .. (m + 1)
    <3>1. CASE i = m + 1
      <4>1. g[i] = Turn(f[m], i) /\ g[i - 1] = f[m] /\ i # 0
        BY <3>1
      <4> HIDE DEF g
      <4> QED
        BY <4>1
    <3>2. CASE i \in 0 .. m
      <4>1. g[i] = f[i] /\ (i # 0 => g[i - 1] = f[i - 1])
        BY <3>2
      <4>2. f[i] = IF i = 0 THEN Subset(rows, FALSE) ELSE Turn(f[i - 1], i)
        BY <2>2, <3>2
      <4> HIDE DEF g
      <4> QED
        BY <4>1, <4>2
    <3>3. i = m + 1 \/ i \in 0 .. m
      OBVIOUS
    <3> HIDE DEF g
    <3> QED
      BY <3>1, <3>2, <3>3
  <2>4. DOMAIN g = 0 .. (m + 1) /\ g = [i \in DOMAIN g |-> g[i]]
    OBVIOUS
  <2>5. NarrowedUpTo(g, m + 1, rows, tree, list)
    <3> HIDE DEF g
    <3>1. g = [i \in 0 .. (m + 1) |->
                 IF i = 0 THEN Subset(rows, FALSE) ELSE Turn(g[i - 1], i)]
      BY <2>3, <2>4
    <3> QED
      BY <1>0, <3>1
  <2>6. m + 1 \in 0 .. n
    OBVIOUS
  <2> QED
    BY <2>5, <2>6 DEF NarrowsUpTo
<1>3. n \in Q
  <2> HIDE DEF Q
  <2>1. \A q \in 0 .. n : q \in Q
    BY <1>1, <1>2, Upwards
  <2> QED
    BY <2>1
<1> QED
  BY <1>3

(***************************************************************************)
(* What the indexes leave of a table are rows of the table, in some order, *)
(* perhaps not all of them and perhaps some of them more than once.        *)
(***************************************************************************)
LEMMA NarrowedRows ==
  ASSUME NEW t, t.rows \in Seq(ToSet(t.rows)), t.indexes \in Seq(Index),
         NEW tree, \A x \in IndexNames : IsFiniteSet(tree[x]),
         NEW where \in Exprs \cup {nil}
  PROVE  Narrowed(t, tree, where).rows \in Seq(ToSet(t.rows))
<1> DEFINE list == GetApplicableIndexes(t.indexes, where)
           R == ToSet(t.rows)
<1>1. PICK n \in Nat : /\ Len(list) = n
                       /\ \A i \in 1 .. n : \E k \in DOMAIN t.indexes :
                            list[i].index = t.indexes[k]
  BY ApplicableDomain
<1> DEFINE sub == CHOOSE sub : NarrowedUpTo(sub, n, t.rows, tree, list)
<1>2. Narrowed(t, tree, where) = sub[n]
  <2>1. Len(list) = n
    BY <1>1
  <2>2. Narrowed(t, tree, where) =
          LET g == CHOOSE g : NarrowedUpTo(g, Len(list), t.rows, tree, list)
          IN  g[Len(list)]
    BY Zenon DEF Narrowed, NarrowedUpTo
  <2> HIDE DEF list
  <2> QED
    BY <2>1, <2>2
<1> HIDE DEF list
<1>3. NarrowedUpTo(sub, n, t.rows, tree, list)
  BY NarrowedExists DEF NarrowsUpTo
<1> HIDE DEF sub
<1>4. \A i \in 1 .. n : IsFiniteSet(tree[list[i].index.name])
  <2> TAKE i \in 1 .. n
  <2>1. PICK k \in DOMAIN t.indexes : list[i].index = t.indexes[k]
    BY <1>1
  <2>2. t.indexes[k] \in Index
    OBVIOUS
  <2>3. list[i].index.name \in IndexNames
    BY <2>1, <2>2 DEF Index
  <2> QED
    BY <2>3
<1> DEFINE Q == {i \in 0 .. n : sub[i].rows \in Seq(R)}
<1>5. 0 \in Q
  <2>1. sub[0] = Subset(t.rows, FALSE)
    BY <1>3 DEF NarrowedUpTo
  <2> QED
    BY <2>1 DEF Subset
<1>6. ASSUME NEW i \in 0 .. (n - 1), i \in Q PROVE i + 1 \in Q
  <2>1. i + 1 \in 1 .. n /\ i + 1 \in 0 .. n /\ i + 1 # 0 /\ (i + 1) - 1 = i
    OBVIOUS
  <2>2. sub[i + 1] =
          IF sub[i].panicked THEN sub[i]
          ELSE NewTableFromSubset(sub[i].rows, list[i + 1].index,
                                  tree[list[i + 1].index.name], list[i + 1].exp)
    BY <1>3, <2>1 DEF NarrowedUpTo
  <2>3. sub[i].rows \in Seq(R)
    BY <1>6
  <2> HIDE DEF R
  <2>4. NewTableFromSubset(sub[i].rows, list[i + 1].index,
                           tree[list[i + 1].index.name], list[i + 1].exp).rows \in Seq(R)
    BY <1>4, <2>1, <2>3, SubsetRows
  <2> QED
    BY <2>1, <2>2, <2>3, <2>4
<1>7. n \in Q
  <2> HIDE DEF Q
  <2>1. n \in Int /\ 0 \in Int /\ n \in 0 .. n
    BY <1>1
  <2>2. \A i \in 0 .. (n - 1) : i \in Q => i + 1 \in Q
    BY ONLY <1>6
  <2>3. \A i \in 0 .. n : i \in Q
    BY ONLY <1>5, <2>1, <2>2, Upwards
  <2> QED
    BY ONLY <2>1, <2>3
<1> QED
  BY <1>2, <1>7

------------------------------------------------------------------------------
(***************************************************************************)
(* The loop over the rows.                                                 *)
(***************************************************************************)

\* f holds what the loop has come to after each of the first m rows.
ScannedUpTo(f, m, t, s, rows, window) ==
  f = [i \in 0 .. m |->
         IF i = 0
         THEN [done |-> window.err # NoError, err |-> window.err, rowIndex |-> -1,
               rows |-> <<>>, columns |-> <<>>]
         ELSE ScanRow(t, s.where, FinalItems(t, s.items), window, f[i - 1], rows[i])]

ScansUpTo(m, t, s, rows, window) == \E f : ScannedUpTo(f, m, t, s, rows, window)

\* It comes to its end.
LEMMA ScannedExists ==
  ASSUME NEW n \in Nat, NEW t, NEW s, NEW rows, NEW window
  PROVE  ScansUpTo(n, t, s, rows, window)
<1> DEFINE Q == {m \in 0 .. n : ScansUpTo(m, t, s, rows, window)}
           Turn(prev, i) == ScanRow(t, s.where, FinalItems(t, s.items), window, prev, rows[i])
           first == [done |-> window.err # NoError, err |-> window.err, rowIndex |-> -1,
                     rows |-> <<>>, columns |-> <<>>]
<1>0. \A f, m : ScannedUpTo(f, m, t, s, rows, window) <=>
        f = [i \in 0 .. m |-> IF i = 0 THEN first ELSE Turn(f[i - 1], i)]
  BY DEF ScannedUpTo
<1> HIDE DEF Turn, first
<1>1. 0 \in Q
  <2> DEFINE f == [i \in 0 .. 0 |-> first]
  <2>1. f = [i \in 0 .. 0 |-> IF i = 0 THEN first ELSE Turn(f[i - 1], i)]
    OBVIOUS
  <2>2. ScannedUpTo(f, 0, t, s, rows, window)
    <3> HIDE DEF f
    <3> QED
      BY <1>0, <2>1
  <2> QED
    BY <2>2 DEF ScansUpTo
<1>2. ASSUME NEW m \in 0 .. (n - 1), m \in Q PROVE m + 1 \in Q
  <2>1. PICK f : ScannedUpTo(f, m, t, s, rows, window)
    BY <1>2 DEF ScansUpTo
  <2>2. f = [i \in 0 .. m |-> IF i = 0 THEN first ELSE Turn(f[i - 1], i)]
    BY <1>0, <2>1
  <2> DEFINE g == [i \in 0 .. (m + 1) |-> IF i = m + 1 THEN Turn(f[m], m + 1) ELSE f[i]]
  <2>3. \A i \in 0 .. (m + 1) :
          g[i] = IF i = 0 THEN first ELSE Turn(g[i - 1], i)
    <3> TAKE i \in 0 .. (m + 1)
    <3>1. CASE i = m + 1
      <4>1. g[i] = Turn(f[m], i) /\ g[i - 1] = f[m] /\ i # 0
        BY <3>1
      <4> HIDE DEF g
      <4> QED
        BY <4>1
    <3>2. CASE i \in 0 .. m
      <4>1. g[i] = f[i] /\ (i # 0 => g[i - 1] = f[i - 1])
        BY <3>2
      <4>2. f[i] = IF i = 0 THEN first ELSE Turn(f[i - 1], i)
        BY <2>2, <3>2
      <4> HIDE DEF g
      <4> QED
        BY <4>1, <4>2
    <3>3. i = m + 1 \/ i \in 0 .. m
      OBVIOUS
    <3> HIDE DEF g
    <3> QED
      BY <3>1, <3>2, <3>3
  <2>4. DOMAIN g = 0 .. (m + 1) /\ g = [i \in DOMAIN g |-> g[i]]
    OBVIOUS
  <2>5. ScannedUpTo(g, m + 1, t, s, rows, window)
    <3> HIDE DEF g
    <3>1. g = [i \in 0 .. (m + 1) |->
                 IF i = 0 THEN first ELSE Turn(g[i - 1], i)]
      BY <2>3, <2>4
    <3> QED
      BY <1>0, <3>1
  <2>6. m + 1 \in 0 .. n
    OBVIOUS
  <2> QED
    BY <2>5, <2>6 DEF ScansUpTo
<1>3. n \in Q
  <2> HIDE DEF Q
  <2>1. \A q \in 0 .. n : q \in Q
    BY <1>1, <1>2, Upwards
  <2> QED
    BY <2>1
<1> QED
  BY <1>3

\* The answers that are right: what is projected of the rows that satisfy
RightRows(t, s) == {Projection(t, t.rows[i], s.items) : i \in Matching(t, s)}

\* A row that passes the test satisfies the WHERE clause.
LEMMA PassedSatisfies ==
  ASSUME NEW t, NEW row, NEW where,
         AsBool(Test(t, row, where).value) # nil,
         ~(~AsBool(Test(t, row, where).value))
  PROVE  Satisfies(t, row, where)
<1>1. CASE where = nil
  BY <1>1 DEF Satisfies
<1>2. CASE where # nil
  <2>1. Test(t, row, where) = EvaluateCell(t.columns, t.columnTypes, row, where)
    BY <1>2 DEF Test
  <2>2. \A mc : AsBool(mc) = nil \/ AsBool(mc) \in BOOLEAN
    BY Zenon DEF AsBool
  <2> QED
    BY <2>1, <2>2 DEF Satisfies
<1> QED
  BY <1>1, <1>2


Fields == {"done", "err", "rowIndex", "rows", "columns"}

(***************************************************************************)
(* One turn of the loop adds nothing, or what is projected of its row, and *)
(* that only if the row satisfies the WHERE clause.                        *)
(***************************************************************************)
LEMMA ScanRowSound ==
  ASSUME NEW t, NEW s, NEW window, NEW i \in DOMAIN t.rows, NEW acc,
         DOMAIN acc = Fields, acc.rows \in Seq(RightRows(t, s))
  PROVE  LET next == ScanRow(t, s.where, FinalItems(t, s.items), window, acc, t.rows[i])
         IN  DOMAIN next = Fields /\ next.rows \in Seq(RightRows(t, s))
<1> DEFINE row == t.rows[i]
           items == FinalItems(t, s.items)
           cells == [k \in DOMAIN items |->
                       EvaluateCell(t.columns, t.columnTypes, row, items[k])]
           result == [k \in DOMAIN cells |-> cells[k].value]
           passed == AsBool(Test(t, row, s.where).value)
           counted == [acc EXCEPT !.rowIndex = acc.rowIndex + 1]
           grown(cols) == [counted EXCEPT !.rows = Append(@, result), !.columns = cols]
           next == ScanRow(t, s.where, items, window, acc, row)
<1>1. \/ next = acc
      \/ next = counted
      \/ \E err : next = Ended(acc, err)
      \/ \E err : next = Ended(counted, err)
      \/ /\ passed # nil /\ ~(~passed)
         /\ \E cols : next = grown(cols)
  <2> DEFINE Turn(test, bad, types) ==
               IF acc.done THEN acc
               ELSE IF test.err # NoError THEN Ended(acc, test.err)
               ELSE IF passed = nil THEN Ended(acc, Panic)
               ELSE IF ~passed THEN acc
               ELSE IF acc.rowIndex + 1 < window.offset THEN counted
               ELSE IF acc.rowIndex + 1 > window.offset + window.limit - 1
               THEN Ended(counted, NoError)
               ELSE IF bad # {} THEN Ended(counted, cells[Min(bad)].err)
               ELSE [counted EXCEPT
                       !.rows = Append(@, result),
                       !.columns = IF acc.rows # <<>> THEN @ ELSE @ \o types]
  <2>1. next = Turn(Test(t, row, s.where), {k \in DOMAIN items : cells[k].err # NoError},
                    [k \in DOMAIN cells |-> cells[k].type])
    BY Zenon DEF ScanRow
  <2> HIDE DEF next, result, cells, passed, items, row
  <2>2. ASSUME NEW test, NEW bad, NEW types
        PROVE  \/ Turn(test, bad, types) = acc
               \/ Turn(test, bad, types) = counted
               \/ \E err : Turn(test, bad, types) = Ended(acc, err)
               \/ \E err : Turn(test, bad, types) = Ended(counted, err)
               \/ /\ passed # nil /\ ~(~passed)
                  /\ \E cols : Turn(test, bad, types) = grown(cols)
    BY Zenon
  <2> HIDE DEF Turn, counted, grown
  <2>3. PICK test, bad, types : next = Turn(test, bad, types)
    BY <2>1
  <2> QED
    BY <2>2, <2>3, Zenon
<1>2. /\ DOMAIN counted = Fields /\ counted.rows = acc.rows
      /\ \A err : DOMAIN Ended(acc, err) = Fields /\ Ended(acc, err).rows = acc.rows
      /\ \A err : DOMAIN Ended(counted, err) = Fields /\ Ended(counted, err).rows = acc.rows
  BY DEF Ended, Fields
<1>3. ASSUME NEW cols, passed # nil, ~(~passed)
      PROVE  DOMAIN grown(cols) = Fields /\ grown(cols).rows \in Seq(RightRows(t, s))
  <2>1. Satisfies(t, row, s.where)
    <3> HIDE DEF row
    <3> QED
      BY <1>3, PassedSatisfies
  <2>2. result = Projection(t, row, s.items)
    BY DEF Projection
  <2>3. result \in RightRows(t, s)
    <3> HIDE DEF result
    <3> QED
      BY <2>1, <2>2 DEF RightRows, Matching
  <2>4. Append(counted.rows, result) \in Seq(RightRows(t, s))
    <3> HIDE DEF result, counted
    <3> QED
      BY <1>2, <2>3
  <2>5. \A r : LET u == [counted EXCEPT !.rows = r, !.columns = cols]
               IN  DOMAIN u = Fields /\ u.rows = r
    <3> HIDE DEF result, counted
    <3> QED
      BY <1>2 DEF Fields
  <2> HIDE DEF result, counted
  <2> QED
    BY <2>4, <2>5
<1> HIDE DEF next, result, cells, passed, counted, grown
<1>4. DOMAIN next = Fields /\ next.rows \in Seq(RightRows(t, s))
  BY <1>1, <1>2, <1>3
<1> QED
  BY <1>4 DEF next

\* The whole loop, over any rows of the table
LEMMA ScannedRows ==
  ASSUME NEW t, NEW s, NEW rows \in Seq(ToSet(t.rows)), NEW window
  PROVE  ScanRows(t, s, rows, window).rows \in Seq(RightRows(t, s))
<1> DEFINE n == Len(rows)
           acc == CHOOSE acc : ScannedUpTo(acc, n, t, s, rows, window)
<1>1. n \in Nat
  OBVIOUS
<1>2. ScanRows(t, s, rows, window) = acc[n]
  BY Zenon DEF ScanRows, ScannedUpTo
<1>3. ScannedUpTo(acc, n, t, s, rows, window)
  <2> HIDE DEF n
  <2> QED
    BY <1>1, ScannedExists DEF ScansUpTo
<1> HIDE DEF acc
<1> DEFINE Q == {i \in 0 .. n : DOMAIN acc[i] = Fields /\ acc[i].rows \in Seq(RightRows(t, s))}
<1>4. 0 \in Q
  <2>1. acc[0] = [done |-> window.err # NoError, err |-> window.err, rowIndex |-> -1,
                  rows |-> <<>>, columns |-> <<>>]
    BY <1>3 DEF ScannedUpTo
  <2>2. DOMAIN acc[0] = Fields /\ acc[0].rows = <<>>
    BY <2>1 DEF Fields
  <2>3. <<>> \in Seq(RightRows(t, s)) /\ 0 \in 0 .. n
    BY <1>1
  <2> QED
    BY <2>2, <2>3
<1>5. ASSUME NEW i \in 0 .. (n - 1), i \in Q PROVE i + 1 \in Q
  <2>1. i + 1 \in 1 .. n /\ i + 1 \in 0 .. n /\ i + 1 # 0 /\ (i + 1) - 1 = i
    BY <1>1
  <2>2. acc[i + 1] = ScanRow(t, s.where, FinalItems(t, s.items), window, acc[i], rows[i + 1])
    BY <1>3, <2>1 DEF ScannedUpTo
  <2>3. rows[i + 1] \in ToSet(t.rows)
    BY <2>1
  <2>4. PICK j \in DOMAIN t.rows : rows[i + 1] = t.rows[j]
    BY <2>3 DEF ToSet
  <2>5. DOMAIN acc[i] = Fields /\ acc[i].rows \in Seq(RightRows(t, s))
    BY <1>5
  <2>6. /\ DOMAIN acc[i + 1] = Fields
        /\ acc[i + 1].rows \in Seq(RightRows(t, s))
    <3> DEFINE next == ScanRow(t, s.where, FinalItems(t, s.items), window, acc[i], t.rows[j])
    <3>1. acc[i + 1] = next
      BY <2>2, <2>4
    <3>2. DOMAIN next = Fields /\ next.rows \in Seq(RightRows(t, s))
      BY <2>5, ScanRowSound
    <3> QED
      BY <3>1, <3>2
  <2> QED
    BY <2>1, <2>6
<1>6. n \in Q
  <2> HIDE DEF Q, n
  <2>1. \A i \in 0 .. n : i \in Q
    BY <1>1, <1>4, <1>5, Upwards
  <2> QED
    BY <1>1, <2>1
<1> QED
  BY <1>2, <1>6

\* An answer of Select, with its error or without
LEMMA SelectFromSound ==
  ASSUME NEW t, t.rows \in Seq(ToSet(t.rows)), t.indexes \in Seq(Index),
         NEW tree, \A x \in IndexNames : IsFiniteSet(tree[x]),
         NEW s, s.where \in Exprs \cup {nil}
  PROVE  /\ SelectFrom(t, tree, s).rows \in Seq(RightRows(t, s))
         /\ SelectFrom(t, tree, s).stmt = s
<1> DEFINE sub == Narrowed(t, tree, s.where)
           window == Window(t, sub.rows, s)
           scan == ScanRows(t, s, sub.rows, window)
           found == [stmt |-> s, err |-> NoError, rows |-> scan.rows, columns |-> scan.columns]
           right == Seq(RightRows(t, s))
<1>1. sub.rows \in Seq(ToSet(t.rows))
  BY NarrowedRows
<1>2. scan.rows \in Seq(RightRows(t, s))
  <2> HIDE DEF sub, window
  <2> QED
    BY <1>1, ScannedRows
<1>3. \A err : Reply(s, err).stmt = s /\ Reply(s, err).rows = <<>>
  BY DEF Reply
<1>4. \/ \E err : SelectFrom(t, tree, s) = Reply(s, err)
      \/ SelectFrom(t, tree, s) = found
  BY Zenon DEF SelectFrom, Results
<1>5. <<>> \in right /\ scan.rows \in right
  BY <1>2
<1>6. found.stmt = s /\ found.rows = scan.rows
  OBVIOUS
<1> HIDE DEF sub, window, scan, right, found
<1>7. SelectFrom(t, tree, s).rows \in right /\ SelectFrom(t, tree, s).stmt = s
  BY <1>3, <1>4, <1>5, <1>6
<1> QED
  BY <1>7 DEF right

(***************************************************************************)
(* No SELECT makes up a row, whatever entries of dropped rows and of half- *)
(* filled indexes a walk of a tree meets, and whatever another index has   *)
(* already taken away.                                                     *)
(***************************************************************************)
THEOREM AnswersSound == Spec => []SelectSound
<1>1. Init => SelectSound
  <2> SUFFICES ASSUME Init PROVE SelectSound
    OBVIOUS
  <2>1. \A n \in TableNames : ~Exists(n)
    BY DEF Init, Exists
  <2>2. reply.rows = <<>>
    BY DEF Init, Reply
  <2> QED
    BY <2>2 DEF SelectSound, ToSet
<1>2. ASSUME IndexInv, FiniteTrees, SelectSound, [Next]_vars
      PROVE  SelectSound'
  <2>1. ASSUME NEW s \in Selects, Select(s) PROVE SelectSound'
    <3> SUFFICES ASSUME Selected', NEW r \in ToSet(reply'.rows)
                 PROVE  \E i \in Matching(tables[reply'.stmt.table], reply'.stmt) :
                          r = Projection(tables[reply'.stmt.table],
                                         tables[reply'.stmt.table].rows[i],
                                         reply'.stmt.items)
      <4>1. tables' = tables
        BY <2>1 DEF Select
      <4> QED
        BY <4>1 DEF SelectSound, Matching
    <3>1. CASE reply'.rows = <<>>
      BY <3>1 DEF ToSet
    <3>2. CASE s.table # nil /\ Exists(s.table)
               /\ reply' = SelectFrom(tables[s.table], trees[s.table], s)
      <4> DEFINE n == s.table
                 t == tables[n]
      <4>1. n \in TableNames /\ s.where \in Exprs \cup {nil}
        BY <3>2, StatementsAssumption
      <4>2. t.rows \in Seq(Row) /\ t.indexes \in Seq(Index)
        BY <1>2, <3>2, <4>1, TableShape DEF IndexInv
      <4>3. t.rows \in Seq(ToSet(t.rows))
        BY <4>2 DEF ToSet
      <4>4. \A x \in IndexNames : IsFiniteSet(trees[n][x])
        BY <1>2, <4>1 DEF FiniteTrees
      <4> HIDE DEF t, n
      <4> DEFINE tree == trees[n]
      <4>5. \A x \in IndexNames : IsFiniteSet(tree[x])
        BY <4>4
      <4>6. reply' = SelectFrom(t, tree, s)
        BY <3>2 DEF t, n
      <4> HIDE DEF tree
      <4>7. /\ SelectFrom(t, tree, s).rows \in Seq(RightRows(t, s))
            /\ SelectFrom(t, tree, s).stmt = s
        BY <4>1, <4>2, <4>3, <4>5, SelectFromSound
      <4>8. reply'.rows \in Seq(RightRows(t, s)) /\ reply'.stmt = s
        BY <4>6, <4>7
      <4>9. r \in RightRows(t, s)
        BY <4>8 DEF ToSet
      <4> QED
        BY <4>8, <4>9 DEF RightRows, t, n
    <3>3. CASE s.table = nil
      <4>1. reply'.stmt = s
        <5>1. \A err : Reply(s, err).stmt = s
          BY DEF Reply
        <5>2. \A scan : Results(s, scan).stmt = s
          BY <5>1, Zenon DEF Results
        <5>3. \A t, tree : SelectFrom(t, tree, s).stmt = s
          BY <5>1, <5>2, Zenon DEF SelectFrom
        <5> QED
          BY <2>1, <5>1, <5>3 DEF Select
      <4> QED
        BY <3>3, <4>1 DEF Selected
    <3>4. CASE reply' = Reply(s, "ErrTableDoesNotExist")
      BY <3>4, <3>1 DEF Reply
    <3> QED
      BY <2>1, <3>2, <3>3, <3>4 DEF Select
  <2>2. ASSUME reply'.rows = <<>> PROVE SelectSound'
    BY <2>2 DEF SelectSound, ToSet
  <2>3. \A s, err : Reply(s, err).rows = <<>>
    BY DEF Reply
  <2>4. ASSUME NEW s \in CreateTables, CreateTable(s) PROVE SelectSound'
    BY <2>2, <2>3, <2>4, Zenon DEF CreateTable, Refuse
  <2>5. ASSUME NEW s \in DropTables, DropTable(s) PROVE SelectSound'
    BY <2>2, <2>3, <2>5, Zenon DEF DropTable, Refuse
  <2>6. ASSUME NEW s \in CreateIndexes, CreateIndex(s) PROVE SelectSound'
    BY <2>2, <2>3, <2>6, Zenon DEF CreateIndex, Refuse
  <2>7. ASSUME NEW s \in Inserts, Insert(s) PROVE SelectSound'
    BY <2>2, <2>3, <2>7, Zenon DEF Insert, Refuse
  <2>8. CASE UNCHANGED vars
    <3>1. tables' = tables /\ reply' = reply
      BY <2>8 DEF vars
    <3> QED
      BY <1>2, <3>1 DEF SelectSound, Selected, Exists, Matching
  <2> QED
    BY <1>2, <2>1, <2>4, <2>5, <2>6, <2>7, <2>8 DEF Next
<1>3. Spec => []IndexInv
  BY IndexesSound
<1>4. Spec => []FiniteTrees
  BY TreesFinite
<1> QED
  BY <1>1, <1>2, <1>3, <1>4, PTL DEF Spec

------------------------------------------------------------------------------
(***************************************************************************)
(* What a step makes of a table that is there after it: the table there    *)
(* was, with one row or one index more or as it was, or a new one.         *)
(***************************************************************************)
Grown(n) ==
  /\ Exists(n) /\ tables'[n].columns = tables[n].columns
  /\ tables'[n].columnTypes = tables[n].columnTypes
  /\ \/ tables'[n].rows = tables[n].rows
     \/ \E s \in Inserts : /\ Len(s.values) = Len(tables[n].columns)
                           /\ tables'[n].rows = Append(tables[n].rows, RowOf(s.values))
  /\ \/ tables'[n].indexes = tables[n].indexes
     \/ \E x \in Index : ~x.primaryKey /\ tables'[n].indexes = Append(tables[n].indexes, x)
  /\ \A x : <<n, x>> \in granted => <<n, x>> \in granted'

Made(n) ==
  \E s \in CreateTables :
    /\ tables'[n] = NewTable(n, s.cols)
    /\ \A x \in ToSet(PrimaryKeyIndexes(n, s.cols)) : <<n, x.name>> \in granted'

GrownOrMade == \A n \in TableNames : Exists(n)' => Grown(n) \/ Made(n)

\* A step that replaces one table by a like one, or none
LEMMA ReplacedGrown ==
  ASSUME TypeOK, NEW n \in TableNames, NEW u,
         Exists(n), tables' = [tables EXCEPT ![n] = u],
         \A g \in granted : g \in granted',
         u.columns = tables[n].columns, u.columnTypes = tables[n].columnTypes,
         \/ u.rows = tables[n].rows
         \/ \E s \in Inserts : /\ Len(s.values) = Len(tables[n].columns)
                               /\ u.rows = Append(tables[n].rows, RowOf(s.values)),
         \/ u.indexes = tables[n].indexes
         \/ \E x \in Index : ~x.primaryKey /\ u.indexes = Append(tables[n].indexes, x)
  PROVE  GrownOrMade
<1>1. tables'[n] = u /\ \A q \in TableNames \ {n} : tables'[q] = tables[q]
  BY DEF TypeOK
<1>2. Grown(n)
  BY <1>1 DEF Grown
<1>3. \A q \in TableNames \ {n} : Exists(q)' => Grown(q)
  BY <1>1 DEF Grown, Exists
<1> QED
  BY <1>2, <1>3 DEF GrownOrMade

\* A step that replaces no table
LEMMA UnchangedGrown ==
  ASSUME tables' = tables, granted' = granted
  PROVE  GrownOrMade
BY DEF GrownOrMade, Grown, Exists

\* Every statement makes that of the tables, and nothing else.
LEMMA StepGrows ==
  ASSUME IndexInv, [Next]_vars
  PROVE  GrownOrMade
<1>1. ASSUME NEW s \in CreateTables, CreateTable(s) PROVE GrownOrMade
  <2>1. CASE \E err : Refuse(s, err)
    BY <2>1, UnchangedGrown DEF Refuse
  <2>2. CASE /\ tables' = [tables EXCEPT ![s.table] = NewTable(s.table, s.cols)]
             /\ granted' = granted \cup
                  {<<s.table, x.name>> : x \in ToSet(PrimaryKeyIndexes(s.table, s.cols))}
    <3>1. s.table \in TableNames
      BY StatementsAssumption
    <3>2. /\ tables'[s.table] = NewTable(s.table, s.cols)
          /\ \A q \in TableNames \ {s.table} : tables'[q] = tables[q]
      BY <2>2, <3>1 DEF IndexInv, TypeOK
    <3>3. Made(s.table)
      BY <2>2, <3>2 DEF Made
    <3>4. \A q \in TableNames \ {s.table} : Exists(q)' => Grown(q)
      BY <2>2, <3>2 DEF Grown, Exists
    <3> QED
      BY <3>3, <3>4 DEF GrownOrMade
  <2> QED
    BY <1>1, <2>1, <2>2 DEF CreateTable
<1>2. ASSUME NEW s \in DropTables, DropTable(s) PROVE GrownOrMade
  <2>1. CASE \E err : Refuse(s, err)
    BY <2>1, UnchangedGrown DEF Refuse
  <2>2. CASE /\ tables' = [tables EXCEPT ![s.table] = none]
             /\ granted' = {g \in granted : g[1] # s.table}
    <3>1. s.table \in TableNames
      BY StatementsAssumption
    <3>2. /\ tables'[s.table] = none
          /\ \A q \in TableNames \ {s.table} : tables'[q] = tables[q]
      BY <2>2, <3>1 DEF IndexInv, TypeOK
    <3>3. \A q \in TableNames \ {s.table} : \A x : <<q, x>> \in granted => <<q, x>> \in granted'
      BY <2>2
    <3>4. \A q \in TableNames \ {s.table} : Exists(q)' => Grown(q)
      BY <3>2, <3>3 DEF Grown, Exists
    <3> QED
      BY <3>2, <3>4 DEF GrownOrMade, Exists
  <2> QED
    BY <1>2, <2>1, <2>2 DEF DropTable
<1>3. ASSUME NEW s \in CreateIndexes, CreateIndex(s) PROVE GrownOrMade
  <2> DEFINE n == s.table
             t == tables[n]
             u == [t EXCEPT !.indexes = Append(@, NewIndex(s))]
  <2>1. CASE \E err : Refuse(s, err)
    BY <2>1, UnchangedGrown DEF Refuse
  <2>2. CASE /\ Exists(n) /\ \A g \in granted : g \in granted'
             /\ tables' = [tables EXCEPT ![n].indexes = Append(@, NewIndex(s))]
    <3>1. n \in TableNames /\ NewIndex(s) \in Index /\ ~NewIndex(s).primaryKey
      BY StatementsAssumption DEF NewIndex, Index
    <3>2. t \in Table
      BY <2>2, <3>1, TableShape DEF IndexInv
    <3>3. /\ u.rows = t.rows /\ u.columns = t.columns /\ u.columnTypes = t.columnTypes
          /\ u.indexes = Append(t.indexes, NewIndex(s))
      BY <3>1, <3>2, WithIndex
    <3>4. tables' = [tables EXCEPT ![n] = u]
      BY <2>2
    <3> HIDE DEF u
    <3> QED
      BY <2>2, <3>1, <3>3, <3>4, ReplacedGrown DEF IndexInv
  <2> QED
    BY <1>3, <2>1, <2>2 DEF CreateIndex
<1>4. ASSUME NEW s \in Inserts, Insert(s) PROVE GrownOrMade
  <2> DEFINE n == s.table
             t == tables[n]
             row == RowOf(s.values)
  <2>1. CASE \E err : Refuse(s, err)
    BY <2>1, UnchangedGrown DEF Refuse
  <2>2. n \in TableNames /\ row \in Row
    BY StatementsAssumption DEF Row
  <2>3. ASSUME Exists(n), Len(s.values) = Len(t.columns), granted' = granted, NEW rows,
               rows = t.rows \/ rows = Append(t.rows, row),
               tables' = [tables EXCEPT ![n].rows = rows]
        PROVE  GrownOrMade
    <3> DEFINE u == [t EXCEPT !.rows = rows]
    <3>1. t \in Table /\ t.rows \in Seq(Row)
      <4>1. n \in TableNames /\ TypeOK
        BY <2>2 DEF IndexInv
      <4> HIDE DEF n
      <4>2. t \in Table
        BY ONLY <2>3, <4>1, TableShape
      <4> QED
        BY ONLY <2>3, <4>1, <4>2, TableShape
    <3>2. tables' = [tables EXCEPT ![n] = u]
      BY <2>3
    <3> HIDE DEF row
    <3>3. rows \in Seq(Row)
      <4> HIDE DEF t
      <4>1. Append(t.rows, row) \in Seq(Row)
        BY ONLY <2>2, <3>1
      <4> QED
        BY ONLY <2>3, <3>1, <4>1
    <3>4. /\ u.rows = rows /\ u.columns = t.columns /\ u.columnTypes = t.columnTypes
          /\ u.indexes = t.indexes
      BY <3>1, <3>3, WithRows
    <3> HIDE DEF u
    <3> QED
      BY <2>2, <2>3, <3>2, <3>4, ReplacedGrown DEF IndexInv, row
  <2>4. CASE /\ Exists(n) /\ Len(s.values) = Len(t.columns) /\ granted' = granted
             /\ tables' = [tables EXCEPT ![n].rows = DropRow(Append(@, row))]
    <3>1. t.rows \in Seq(Row)
      BY <2>2, <2>4, TableShape DEF IndexInv
    <3>2. DropRow(Append(t.rows, row)) = t.rows
      <4> HIDE DEF t, row
      <4> QED
        BY <2>2, <3>1 DEF DropRow
    <3> HIDE DEF row
    <3> QED
      BY <2>3, <2>4, <3>2
  <2>5. CASE /\ Exists(n) /\ Len(s.values) = Len(t.columns) /\ granted' = granted
             /\ tables' = [tables EXCEPT ![n].rows = Append(@, row)]
    <3> HIDE DEF row
    <3> QED
      BY <2>3, <2>5
  <2> QED
    BY <1>4, <2>1, <2>4, <2>5 DEF Insert
<1>5. ASSUME NEW s \in Selects, Select(s) PROVE GrownOrMade
  BY <1>5, UnchangedGrown DEF Select
<1>6. CASE UNCHANGED vars
  BY <1>6, UnchangedGrown DEF vars
<1> QED
  BY <1>1, <1>2, <1>3, <1>4, <1>5, <1>6 DEF Next

------------------------------------------------------------------------------
(***************************************************************************)
(* A column is reported NOT NULL when the index of the primary key is on   *)
(* a column of its name.  That is true of the rows when no two columns     *)
(* have a name: with two, the index is on the first only.                  *)
(***************************************************************************)
NamedOnce(columns) == \A i, j \in DOMAIN columns : columns[i] = columns[j] => i = j

ColumnsNamedOnce ==
  \A s \in CreateTables : \A i, j \in DOMAIN s.cols : s.cols[i].name = s.cols[j].name => i = j

\* The primary key's index is always one whose creation succeeded: it is
\* made with the table, which has no rows to refuse.
PrimaryKeysGranted ==
  \A n \in TableNames : Exists(n) =>
    /\ NamedOnce(tables[n].columns)
    /\ \A k \in DOMAIN tables[n].indexes :
         tables[n].indexes[k].primaryKey => k \in GrantedIndexes(n)

\* A column that is named once is the one its name is resolved to.
LEMMA ColumnFound ==
  ASSUME NEW columns \in Seq(ColumnNames), NamedOnce(columns), NEW c \in DOMAIN columns,
         NEW types, NEW row,
         EvaluateLiteralCell(columns, types, row, Identifier(columns[c])).value # nil
  PROVE  EvaluateLiteralCell(columns, types, row, Identifier(columns[c])).value = row[c]
<1> DEFINE lit == Identifier(columns[c])
           found == {i \in 1 .. Len(columns) : columns[i] = lit.name}
           i == SelectInSeq(columns, LAMBDA d : d = lit.name)
<1>1. lit.kind = "identifier" /\ lit.name = columns[c]
  BY DEF Identifier
<1>2. found = {c}
  BY <1>1 DEF NamedOnce
<1>3. i = IF found # {} THEN Min(found) ELSE 0
  BY Zenon DEF SelectInSeq
<1>4. c \in Nat /\ c # 0
  OBVIOUS
<1> HIDE DEF found, lit
<1>5. i = c
  <2>1. found \in SUBSET Nat /\ found # {} /\ \A x \in found : x = c
    BY <1>2, <1>4
  <2>2. Min(found) \in found
    BY <2>1, LeastNatural
  <2> QED
    BY <1>3, <2>1, <2>2
<1>6. EvaluateLiteralCell(columns, types, row, lit) =
        CASE i = 0 -> Failure("ErrColumnDoesNotExist")
          [] i # 0 /\ (row = noRow \/ i \notin DOMAIN row \cap DOMAIN types)
               -> Failure(Panic)
          [] OTHER -> Value(row[i], types[i])
  BY <1>1, Zenon DEF EvaluateLiteralCell
<1> HIDE DEF i
<1>7. EvaluateLiteralCell(columns, types, row, lit).value = nil
        \/ EvaluateLiteralCell(columns, types, row, lit) = Value(row[c], types[c])
  <2>1. \A err : Failure(err).value = nil
    BY DEF Failure
  <2>2. \/ EvaluateLiteralCell(columns, types, row, lit) = Failure(Panic)
        \/ EvaluateLiteralCell(columns, types, row, lit) = Value(row[c], types[c])
    <3>1. c # 0
      BY <1>4
    <3> QED
      BY <1>5, <1>6, <3>1, Zenon
  <2> QED
    BY <2>1, <2>2
<1> QED
  BY <1>7 DEF Value, lit

\* An index on a new table is that of its primary key, and granted.
LEMMA MadeGranted ==
  ASSUME ColumnsNamedOnce, NEW n \in TableNames, Made(n)
  PROVE  /\ NamedOnce(tables'[n].columns)
         /\ \A k \in DOMAIN tables'[n].indexes :
              <<n, tables'[n].indexes[k].name>> \in granted'
<1>1. PICK s \in CreateTables :
        /\ tables'[n] = NewTable(n, s.cols)
        /\ \A x \in ToSet(PrimaryKeyIndexes(n, s.cols)) : <<n, x.name>> \in granted'
  BY DEF Made
<1>2. /\ tables'[n].columns = [i \in DOMAIN s.cols |-> s.cols[i].name]
      /\ tables'[n].indexes = PrimaryKeyIndexes(n, s.cols)
  BY <1>1 DEF NewTable
<1>3. NamedOnce(tables'[n].columns)
  BY <1>2 DEF ColumnsNamedOnce, NamedOnce
<1> QED
  BY <1>1, <1>2, <1>3 DEF ToSet

\* Every step keeps the primary key's index granted.
LEMMA StepKeepsPrimaryKeys ==
  ASSUME ColumnsNamedOnce, IndexInv, PrimaryKeysGranted, [Next]_vars
  PROVE  PrimaryKeysGranted'
<1> SUFFICES ASSUME NEW n \in TableNames, Exists(n)'
             PROVE  /\ NamedOnce(tables'[n].columns)
                    /\ \A k \in DOMAIN tables'[n].indexes :
                         tables'[n].indexes[k].primaryKey =>
                           <<n, tables'[n].indexes[k].name>> \in granted'
  BY DEF PrimaryKeysGranted, GrantedIndexes
<1>1. CASE Made(n)
  BY <1>1, MadeGranted
<1>2. CASE Grown(n)
  <2>1. NamedOnce(tables'[n].columns)
    BY <1>2 DEF Grown, PrimaryKeysGranted
  <2>2. \A k \in DOMAIN tables[n].indexes :
          tables[n].indexes[k].primaryKey => <<n, tables[n].indexes[k].name>> \in granted'
    BY <1>2 DEF Grown, PrimaryKeysGranted, GrantedIndexes
  <2>3. ASSUME NEW k \in DOMAIN tables'[n].indexes, tables'[n].indexes[k].primaryKey
        PROVE  k \in DOMAIN tables[n].indexes /\ tables'[n].indexes[k] = tables[n].indexes[k]
    <3>1. CASE tables'[n].indexes = tables[n].indexes
      BY <2>3, <3>1
    <3>2. CASE \E x \in Index : ~x.primaryKey /\ tables'[n].indexes = Append(tables[n].indexes, x)
      <4>1. PICK x \in Index : ~x.primaryKey /\ tables'[n].indexes = Append(tables[n].indexes, x)
        BY <3>2
      <4>2. tables[n].indexes \in Seq(Index)
        BY <1>2, TableShape DEF IndexInv, Grown
      <4>3. k \in 1 .. Len(tables[n].indexes) + 1
        BY <2>3, <4>1, <4>2
      <4>4. k # Len(tables[n].indexes) + 1
        BY <2>3, <4>1, <4>2
      <4> QED
        BY <4>1, <4>2, <4>3, <4>4
    <3> QED
      BY <1>2, <3>1, <3>2 DEF Grown
  <2> QED
    BY <2>1, <2>2, <2>3
<1> QED
  BY <1>1, <1>2, StepGrows DEF GrownOrMade

(***************************************************************************)
(* When the columns of a table have different names, a column GetTables    *)
(* reports as NOT NULL holds no nil: its index was granted and covers the  *)
(* rows, and the key an index covers is never nil.                         *)
(***************************************************************************)
THEOREM NotNullTrue ==
  ASSUME ColumnsNamedOnce
  PROVE  Spec => []NotNullReportTrue
<1>1. Init => PrimaryKeysGranted
  BY DEF Init, PrimaryKeysGranted, Exists
<1>2. IndexInv /\ PrimaryKeysGranted /\ [Next]_vars => PrimaryKeysGranted'
  BY StepKeepsPrimaryKeys
<1>3. IndexInv /\ PrimaryKeysGranted => NotNullReportTrue
  <2> SUFFICES ASSUME IndexInv, PrimaryKeysGranted, NEW n \in TableNames, Exists(n),
                      NEW c \in NotNullColumns(tables[n]), NEW row \in ToSet(tables[n].rows)
               PROVE  row[c] # nil
    BY DEF NotNullReportTrue
  <2> DEFINE t == tables[n]
             exp == Identifier(t.columns[c])
  <2>1. t.columns \in Seq(ColumnNames) /\ t.rows \in Seq(Row) /\ NamedOnce(t.columns)
    BY TableShape DEF IndexInv, PrimaryKeysGranted
  <2>2. PICK k \in DOMAIN t.indexes : t.indexes[k].primaryKey /\ t.indexes[k].exp = exp
    BY DEF NotNullColumns
  <2>3. c \in DOMAIN t.columns /\ t.columns[c] \in ColumnNames
    BY <2>1 DEF NotNullColumns
  <2>4. PICK i \in DOMAIN t.rows : row = t.rows[i]
    BY DEF ToSet
  <2>5. Key(n, k, i).value # nil
    BY <2>2, <2>4 DEF IndexInv, IndexCoversRows, PrimaryKeysGranted
  <2>6. Key(n, k, i) = EvaluateCell(t.columns, t.columnTypes, row, exp)
    BY <2>2, <2>4 DEF Key, IndexKey
  <2>7. exp \in Exprs /\ IsLiteral(exp)
    BY <2>3, StatementsAssumption DEF IsLiteral, Identifier
  <2> HIDE DEF t, exp
  <2>8. EvaluateCell(t.columns, t.columnTypes, row, exp) =
          EvaluateLiteralCell(t.columns, t.columnTypes, row, exp)
    BY <2>7, EvaluateByParts
  <2>9. EvaluateLiteralCell(t.columns, t.columnTypes, row, exp).value = row[c]
    BY <2>1, <2>3, <2>5, <2>6, <2>8, ColumnFound DEF exp
  <2> QED
    BY <2>5, <2>6, <2>8, <2>9
<1>4. Spec => []IndexInv
  BY IndexesSound
<1> QED
  BY <1>1, <1>2, <1>3, <1>4, PTL DEF Spec
==============================================================================
