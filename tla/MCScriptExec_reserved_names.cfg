SPECIFICATION Spec
CONSTANTS
  Text <- MCText
  NoFile = NoFile
  Tables = {"users", "__commit_0"}
  IntSpelling = {"INT", "int"}
  StringSpelling = {"STRING", "string"}
  Procs <- OneProc
  ScriptsOf <- ReservedScript
  DataDirs <- ReservedDirs
  MaxStatements = 4
  FaultPoints = {}
  MaxFaults = 0
  Crashable = {}
INVARIANTS
  SuccessIsWhole
