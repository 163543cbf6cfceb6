SPECIFICATION Spec
CONSTANTS
  Text <- MCText
  NoFile = NoFile
  Tables = {"users", "logs", "notes"}
  IntSpelling = {"INT", "int"}
  StringSpelling = {"STRING", "string"}
  Procs <- OneProc
  ScriptsOf <- FaultScript
  DataDirs <- SchemaDirs
  MaxStatements = 4
  FaultPoints = {}
  MaxFaults = 0
  Crashable = {}
INVARIANTS
  NeverDies
