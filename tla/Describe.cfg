CONSTANTS
  nil = nil
  noRow = noRow
  none = none
  Base = 4
  IntBytes = 2
  TableNames <- MCTableNames
  ColumnNames <- MCColumnNames
  IndexNames <- MCIndexNames
  pkeyName <- MCpkeyName
  Exprs <- MCExprs
  CreateTables <- MCCreateTables
  DropTables <- MCDropTables
  CreateIndexes <- MCCreateIndexes
  Inserts <- MCInserts
  Selects <- MCSelects
  InfComparable = FALSE
  MaxRows = 9
  MaxEntries = 9
  Lines <- DescribeLines
  MaxLines = 4
SPECIFICATION ReplSpec
INVARIANTS DescribesNamed
CHECK_DEADLOCK FALSE
