SPECIFICATION Spec
CONSTANTS
  Text <- MCText
  NoFile = NoFile
  Tables = {"t"}
  IntSpelling = {"INT", "int"}
  StringSpelling = {"STRING", "string"}
  Char <- MCChar
  LongMax = 127
  Inserts <- MCInserts
  Selects <- MCSelects
  Again <- MCAgain
  Tables0 <- MCTables0
  FaultPoints = {"schema", "create", "header", "reopen", "append", "remove"}
  MaxFaults = 1
  MaxCalls = 2
INVARIANTS
  TypeOK
  ReaderCountsQuotes
  AcceptsAsSpecified
  RowReadsBack
  ValuesLandInTheirColumns
  FailedAppendKeepsRecords
  CreatedTableIsRemoved
  SelectPrintsTable
