CONSTANTS
  nil = nil
  noRow = noRow
  none = none
  Base = 4
  IntBytes = 2
  TableNames <- MCTableNames
  ColumnNames <- MCColumnNames
  IndexNames <- MCIndexNames
  pkeyName <- MCpkeyName
  Exprs <- MCExprs
  CreateTables <- PkCreateTables
  DropTables <- MCDropTables
  CreateIndexes <- UniqueY
  Inserts <- TwoIndexInserts
  Selects <- NoStatements
  InfComparable = FALSE
  MaxRows = 3
  MaxEntries = 4
SPECIFICATION Spec
PROPERTIES DuplicateIsStored
CHECK_DEADLOCK FALSE
