CONSTANTS
  nil = nil
  noRow = noRow
  none = none
  parseError = parseError
  unsupported = unsupported
  c1 = c1
  c2 = c2
  Base = 4
  IntBytes = 2
  TableNames <- MCTableNames
  ColumnNames <- MCColumnNames
  IndexNames <- MCIndexNames
  pkeyName <- MCpkeyName
  Exprs <- MCExprs
  CreateTables <- AllCreateTables
  DropTables <- AllDropTables
  CreateIndexes <- AllCreateIndexes
  Inserts <- AllInserts
  Selects <- AllSelects
  InfComparable = FALSE
  MaxRows = 9
  MaxEntries = 9
  Conns <- MCConns
  AtOnce = 2
  Queries <- KeysQueries
  MaxQueries = 3
SPECIFICATION DriverSpec
INVARIANTS KeysDistinct
CHECK_DEADLOCK FALSE
