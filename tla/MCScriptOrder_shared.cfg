SPECIFICATION OrderSpec
CONSTANTS
  Text <- MCText
  NoFile = NoFile
  Tables = {"users", "logs", "notes"}
  IntSpelling = {"INT", "int"}
  StringSpelling = {"STRING", "string"}
  Procs <- TwoProcs
  ScriptsOf <- Shared
  DataDirs <- PlainDirs
  MaxStatements = 4
  FaultPoints = {"replace", "output"}
  MaxFaults = 1
  Crashable = {"p"}
INVARIANTS
  LiveIsSomeVersion
  ReadersSeeWholeVersions
  SerialScriptsAdd
  RestartFindsWholeTables
