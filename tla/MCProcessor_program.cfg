SPECIFICATION Spec
CONSTANTS
  Text <- MCText
  NoFile = NoFile
  Tables <- Stems
  IntSpelling = {"INT"}
  StringSpelling = {"STRING"}
  LongMax = 127
  Tokens <- MCTokens
  Spelling <- MCSpelling
  NameWords <- MCNames
  MaxTokens = 15
  MaxList = 2
  DataDirs <- MCDataDirs
INVARIANTS
  TypeOK
  ScriptIsTheFile
  StatementsWellFormed
  RefusesNoSentence
  OnlyWholeFilesTakeEffect
