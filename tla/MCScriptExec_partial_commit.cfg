SPECIFICATION Spec
CONSTANTS
  Text <- MCText
  NoFile = NoFile
  Tables = {"users", "logs", "notes"}
  IntSpelling = {"INT", "int"}
  StringSpelling = {"STRING", "string"}
  Procs <- OneProc
  ScriptsOf <- FaultScript
  DataDirs <- PlainDirs
  MaxStatements = 4
  FaultPoints = {"backup"}
  MaxFaults = 1
  Crashable = {}
INVARIANTS
  FailedScriptLeavesData
