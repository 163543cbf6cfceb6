SPECIFICATION Spec
CONSTANTS
  Text <- MCText
  NoFile = NoFile
  Tables = {"users", "logs", "notes"}
  IntSpelling = {"INT", "int"}
  StringSpelling = {"STRING", "string"}
  Procs <- OneProc
  ScriptsOf <- FaultScript
  DataDirs <- FaultDirs
  MaxStatements = 4
  FaultPoints = {"stageCopy", "exec", "commitCopy", "backup", "replace", "restore", "remove", "output"}
  MaxFaults = 3
  Crashable <- OneProc
INVARIANTS
  StopsBetweenFiles
