SPECIFICATION Spec
CONSTANTS
  Text <- MCText
  NoFile = NoFile
  Tables = {"users", "logs", "notes"}
  IntSpelling = {"INT", "int"}
  StringSpelling = {"STRING", "string"}
  Procs <- TwoProcs
  ScriptsOf <- Disjoint
  DataDirs <- PlainDirs
  MaxStatements = 4
  FaultPoints = {"mkdir", "buffer", "stageCopy", "exec", "replace", "output"}
  MaxFaults = 1
  Crashable <- OneProc
INVARIANTS
  NoResidue
  SuccessIsWhole
  SuccessKeepsRows
PROPERTIES
  ImplementsAtomicScript
  MovedTableReturns
