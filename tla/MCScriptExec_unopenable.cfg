SPECIFICATION Spec
CONSTANTS
  Text <- MCText
  NoFile = NoFile
  Tables = {"users", "logs", "notes"}
  IntSpelling = {"INT", "int"}
  StringSpelling = {"STRING", "string"}
  Procs <- OneProc
  ScriptsOf <- FaultScript
  DataDirs <- PlainDirs
  MaxStatements = 4
  FaultPoints = {"exists"}
  MaxFaults = 2
  Crashable = {}
INVARIANTS
  SuccessKeepsRows
