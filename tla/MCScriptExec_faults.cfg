SPECIFICATION Spec
CONSTANTS
  Text <- MCText
  NoFile = NoFile
  Tables = {"users", "logs", "notes"}
  IntSpelling = {"INT", "int"}
  StringSpelling = {"STRING", "string"}
  Procs <- OneProc
  ScriptsOf <- FaultScript
  DataDirs <- FaultDirs
  MaxStatements = 4
  FaultPoints = {"mkdir", "buffer", "exists", "stageCopy", "exec", "commitCopy", "backup", "replace", "restore", "remove", "output", "cleanup"}
  MaxFaults = 3
  Crashable = {}
INVARIANTS
  StageFilesManaged
  LossIsReported
PROPERTIES
  Termination
