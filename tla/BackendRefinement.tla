-------------------------- MODULE BackendRefinement --------------------------
(***************************************************************************)
(* The in-memory backend keeps the promise of RelationalStore.  The keys   *)
(* of a table are the indexes whose creation was acknowledged; an index    *)
(* left behind half filled, and whatever the trees hold, is not seen.      *)
(***************************************************************************)
EXTENDS MemoryBackend

KeyOf(columns, types, row, exp) == EvaluateCell(columns, types, row, exp).value

AbstractKeys(n) ==
  {[name   |-> tables[n].indexes[k].name,
    exp    |-> tables[n].indexes[k].exp,
    unique |-> tables[n].indexes[k].unique] : k \in GrantedIndexes(n)}

AbstractTable(n) ==
  [columns     |-> tables[n].columns,
   columnTypes |-> tables[n].columnTypes,
   rows        |-> tables[n].rows,
   keys        |-> AbstractKeys(n)]

Catalogue == [n \in {n \in TableNames : Exists(n)} |-> AbstractTable(n)]

Outcome == [stmt |-> reply.stmt, ok |-> reply.err = NoError]

Store == INSTANCE RelationalStore WITH catalogue <- Catalogue, outcome <- Outcome

(***************************************************************************)
(* Every statement of a client either does to the tables what it says and  *)
(* is acknowledged, or returns an error and has done nothing to them: rows *)
(* and granted keys are those of a store that has no indexes and checks    *)
(* each change against all rows.  (CreateTable, DropTable, CreateIndex,    *)
(* Insert and Select of memory.go)                                         *)
(***************************************************************************)
ImplementsStore == Store!Spec
==============================================================================
