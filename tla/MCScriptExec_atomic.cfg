SPECIFICATION Spec
CONSTANTS
  Text <- MCText
  NoFile = NoFile
  Tables = {"users", "logs", "notes"}
  IntSpelling = {"INT", "int"}
  StringSpelling = {"STRING", "string"}
  Procs <- OneProc
  ScriptsOf <- FaultScript
  DataDirs <- FaultDirs
  MaxStatements = 4
  FaultPoints = {"mkdir", "buffer", "stageCopy", "exec", "replace", "output", "cleanup"}
  MaxFaults = 2
  Crashable <- OneProc
INVARIANTS
  TypeOK
  OriginalRecoverable
  FailedScriptLeavesData
PROPERTIES
  ImplementsAtomicScript
