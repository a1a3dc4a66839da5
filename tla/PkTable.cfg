CONSTANTS
  nil = nil
  noRow = noRow
  none = none
  Base = 4
  IntBytes = 2
  TableNames <- MCTableNames
  ColumnNames <- MCColumnNames
  IndexNames <- MCIndexNames
  pkeyName <- MCpkeyName
  Exprs <- MCExprs
  CreateTables <- PkCreateTables
  DropTables <- MCDropTables
  CreateIndexes <- NoStatements
  Inserts <- PkInserts
  Selects <- PkSelects
  InfComparable = FALSE
  MaxRows = 3
  MaxEntries = 3
SPECIFICATION Spec
INVARIANTS IndexTransparent WindowExact NotNullReportTrue
PROPERTIES DuplicateIsStored
CHECK_DEADLOCK FALSE
