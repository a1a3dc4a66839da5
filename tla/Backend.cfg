CONSTANTS
  nil = nil
  noRow = noRow
  none = none
  Base = 4
  IntBytes = 2
  TableNames <- MCTableNames
  ColumnNames <- MCColumnNames
  IndexNames <- MCIndexNames
  pkeyName <- MCpkeyName
  Exprs <- MCExprs
  CreateTables <- GeneralCreateTables
  DropTables <- MCDropTables
  CreateIndexes <- GeneralCreateIndexes
  Inserts <- GeneralInserts
  Selects <- GeneralSelects
  InfComparable = FALSE
  MaxRows = 2
  MaxEntries = 3
SPECIFICATION Spec
INVARIANTS TypeOK UniqueEnforced IndexCoversRows IndexInv SelectSound
PROPERTIES RowsAppendOnly ErrorsKeepData ImplementsStore
CHECK_DEADLOCK FALSE
