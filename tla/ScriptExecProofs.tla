-------------------------- MODULE ScriptExecProofs --------------------------
(***************************************************************************)
(* Theorems about ScriptExec for every set of processes, tables, scripts,  *)
(* data directories and failures.                                          *)
(***************************************************************************)
EXTENDS ScriptExecInvariants, StorageProofs

ErrorCodes == {"none", "statement", "io", "output", "rollback"}

\* A step of p that takes it to one of the labels in L.
GoesTo(p, L) ==
  /\ pc' \in [Procs -> Labels]
  /\ err' \in [Procs -> ErrorCodes]
  /\ pc'[p] \in L
  /\ \A q \in Procs \ {p} : pc'[q] = pc[q]

\* The failures are counted up to their bound.
LEMMA FaultsType ==
  ASSUME NEW k, TypeOK, NoFault \/ Fault(k)
  PROVE  faults' \in 0 .. MaxFaults
  BY MaxFaultsIsNat DEF TypeOK, NoFault, Fault

\* A step that goes on moves one process and keeps the error.
LEMMA ProceedGoes ==
  ASSUME NEW p \in Procs, NEW label \in Labels, TypeOK, Proceed(p, label)
  PROVE  GoesTo(p, {label})
  BY DEF TypeOK, Proceed, Goto, ErrorCodes, GoesTo

\* A step that fails moves one process and sets its error.
LEMMA FailGoes ==
  ASSUME NEW p \in Procs, NEW label \in Labels, NEW e \in ErrorCodes, TypeOK, Fail(p, e, label)
  PROVE  GoesTo(p, {label})
  BY DEF TypeOK, Fail, Goto, ErrorCodes, GoesTo

\* The names of the files at hand are names of files in the stage directory.
LEMMA StageNames ==
  /\ CsvFiles \subseteq TableFiles
  /\ TableFiles \subseteq StageFiles
  /\ \A t \in Tables : Csv(t) \in CsvFiles /\ Schema(t) \in TableFiles
  /\ \A i \in Index : Rollback(i) \in StageFiles /\ Commit(i) \in StageFiles
  BY DEF CsvFiles, TableFiles, StageFiles

\* A committed table has an index, and the counter stays in its range.
LEMMA IndexBounds ==
  /\ \A i \in 0 .. MaxStatements : i < MaxStatements => i \in Index /\ i + 1 \in 0 .. MaxStatements
  /\ \A i \in 0 .. MaxStatements : i > 0 => i - 1 \in Index /\ i - 1 \in 0 .. MaxStatements
  BY MaxStatementsIsPositive DEF Index

----------------------------------------------------------------------------
(***************************************************************************)
(* Typed is inductive: one lemma for each action.                          *)
(***************************************************************************)
Typed == TypeOK /\ ListsInStep

\* A write to a stage file leaves files in the stage directories.
LEMMA PutStagedType ==
  ASSUME NEW p \in Procs, NEW n, NEW f \in File, TypeOK, PutStaged(p, n, f)
  PROVE  stage' \in [Procs -> [StageFiles -> File]]
  BY DEF TypeOK, PutStaged

\* A write to a live file leaves files in the data directory.
LEMMA PutLiveType ==
  ASSUME NEW n, NEW f \in File, TypeOK, PutLive(n, f)
  PROVE  live' \in DataDir
  BY DEF TypeOK, PutLive, DataDir

\* While statements are executed there is one at hand.
LEMMA StmtAtHand ==
  ASSUME NEW p \in Procs, TypeOK, ListsInStep, pc[p] \in StatementLabels
  PROVE  Stmt(p) \in Statement /\ Stmt(p).table \in Tables
<1>1. script[p] \in Seq(Statement) /\ idx[p] \in 1 .. Len(script[p])
  BY DEF TypeOK, ListsInStep, InStep, EarlyLabels
<1>2. Stmt(p) \in Statement
  BY <1>1, ElementOfSeq DEF Stmt
<1> QED
  BY <1>2 DEF Statement

\* The variables have their types to begin with.
LEMMA InitTyped == Init => Typed
<1> SUFFICES ASSUME Init PROVE Typed
  OBVIOUS
<1>1. \A p \in Procs : script[p] \in Seq(Statement) /\ Len(script[p]) \in 1 .. MaxStatements
  BY ScriptsFit DEF Init
<1>2. script \in [Procs -> Seq(Statement)]
  BY <1>1 DEF Init
<1>3. <<>> \in Content
  BY DEF Content
<1>4. TypeOK
  <2>1. live \in DataDir /\ orig \in DataDir
    BY DataDirsHoldFiles DEF Init
  <2>2. pc \in [Procs -> Labels]
    BY DEF Init, Labels
  <2>3. stage \in [Procs -> [StageFiles -> File]]
    BY DEF Init, File
  <2>4. touched \in [Procs -> Seq(CsvFiles)]
    BY DEF Init
  <2>5. buf \in [Procs -> File] /\ out \in [Procs -> Content]
    BY <1>3 DEF Init, File
  <2>6. /\ idx \in [Procs -> 1 .. (MaxStatements + 1)]
        /\ committed \in [Procs -> 0 .. MaxStatements]
        /\ faults \in 0 .. MaxFaults
    BY MaxStatementsIsPositive, MaxFaultsIsNat DEF Init
  <2> QED
    BY <1>2, <2>1, <2>2, <2>3, <2>4, <2>5, <2>6 DEF Init, TypeOK
<1>5. ASSUME NEW p \in Procs
      PROVE  InStep(p)
  <2>1. pc[p] \in {"mkdir", "buffer"}
    BY DEF Init
  <2>2. idx[p] = 1 /\ touched[p] = <<>> /\ committed[p] = 0 /\ Len(touched[p]) = 0
    BY DEF Init
  <2>3. Len(script[p]) \in Nat /\ 1 <= Len(script[p]) /\ Len(script[p]) <= MaxStatements
    BY <1>1, MaxStatementsIsPositive
  <2> QED
    BY <2>1, <2>2, <2>3 DEF InStep, StatementLabels, CommitLabels, BufferedLabels, EarlyLabels
<1> QED
  BY <1>4, <1>5 DEF Typed, ListsInStep

\* The labels p may go to, and the processes that do not move.
LEMMA OthersInStep ==
  ASSUME NEW p \in Procs, NEW q \in Procs \ {p}, InStep(q),
         pc'[q] = pc[q], script'[q] = script[q], idx'[q] = idx[q], buf'[q] = buf[q],
         touched'[q] = touched[q], committed'[q] = committed[q]
  PROVE  InStep(q)'
  BY DEF InStep

\* create_stage_dir keeps the types and the counters.
LEMMA MakeStageDirTyped ==
  ASSUME NEW p \in Procs, Typed, MakeStageDir(p)
  PROVE  Typed'
<1> USE DEF program, lists, output
<1>1. TypeOK /\ ListsInStep
  BY DEF Typed
<1>2. faults' \in 0 .. MaxFaults
  BY <1>1, FaultsType DEF MakeStageDir
<1>3. GoesTo(p, {"buffer", "done"})
  BY <1>1, ProceedGoes, FailGoes DEF MakeStageDir, GoesTo, Labels, ErrorCodes
<1>4. stageDir' \in [Procs -> BOOLEAN]
  BY <1>1 DEF MakeStageDir, TypeOK
<1>5. TypeOK'
  BY <1>1, <1>2, <1>3, <1>4 DEF TypeOK, MakeStageDir, GoesTo, ErrorCodes
<1>6. \A q \in Procs \ {p} : InStep(q)'
  BY <1>1, <1>3, OthersInStep DEF ListsInStep, MakeStageDir, GoesTo
<1>7. InStep(p)'
  BY <1>1, <1>3 DEF ListsInStep, InStep, MakeStageDir, GoesTo,
                    StatementLabels, CommitLabels, BufferedLabels, EarlyLabels
<1> QED
  BY <1>5, <1>6, <1>7 DEF Typed, ListsInStep

\* create_temp_file_in_dir keeps the types and the counters.
LEMMA OpenBufferTyped ==
  ASSUME NEW p \in Procs, Typed, OpenBuffer(p)
  PROVE  Typed'
<1> USE DEF program, lists
<1>1. TypeOK /\ ListsInStep
  BY DEF Typed
<1>2. faults' \in 0 .. MaxFaults
  BY <1>1, FaultsType DEF OpenBuffer
<1>3. FirstLabel(p) \in {"stageCsv", "exec"}
  BY DEF FirstLabel
<1>4. GoesTo(p, {"stageCsv", "exec", "cleanup"})
  BY <1>1, <1>3, ProceedGoes, FailGoes DEF OpenBuffer, GoesTo, Labels, ErrorCodes
<1>5. <<>> \in Content
  BY DEF Content
<1>6. buf' \in [Procs -> File]
  BY <1>1, <1>5 DEF OpenBuffer, TypeOK, File
<1>7. TypeOK'
  BY <1>1, <1>2, <1>4, <1>6 DEF TypeOK, OpenBuffer, GoesTo, ErrorCodes
<1>8. \A q \in Procs \ {p} : InStep(q)'
  BY <1>1, <1>4, OthersInStep DEF ListsInStep, OpenBuffer, GoesTo, TypeOK
<1>9. InStep(p)'
  <2>1. CASE pc'[p] = "cleanup"
    BY <1>1, <2>1 DEF ListsInStep, InStep, OpenBuffer,
                      StatementLabels, CommitLabels, BufferedLabels, EarlyLabels
  <2>2. CASE buf' = [buf EXCEPT ![p] = <<>>]
    <3>1. buf'[p] # NoFile
      BY <1>1, <1>5, <2>2, NoFileIsNoContent DEF TypeOK
    <3> QED
      BY <1>1, <1>4, <3>1 DEF ListsInStep, InStep, OpenBuffer, GoesTo,
                      StatementLabels, CommitLabels, BufferedLabels, EarlyLabels
  <2> QED
    BY <1>1, <2>1, <2>2 DEF OpenBuffer, Fail, Goto, TypeOK
<1> QED
  BY <1>7, <1>8, <1>9 DEF Typed, ListsInStep

\* ensure_staged_table, recording the names, keeps the types and the counters.
LEMMA StageCsvTyped ==
  ASSUME NEW p \in Procs, Typed, StageCsv(p)
  PROVE  Typed'
<1> USE DEF program, lists, output
<1>1. TypeOK /\ ListsInStep
  BY DEF Typed
<1>2. faults' \in 0 .. MaxFaults
  BY <1>1, FaultsType DEF StageCsv
<1>3. \A wanted : CopyLabel(wanted) \in {"copyCsv", "stageSchema"}
  BY DEF CopyLabel
<1>4. GoesTo(p, {"copyCsv", "stageSchema"})
  BY <1>1, <1>3, ProceedGoes DEF StageCsv, GoesTo, Labels
<1>5. Stmt(p).table \in Tables
  BY <1>1, StmtAtHand DEF StageCsv, StatementLabels
<1>6. managed' \in [Procs -> SUBSET StageFiles]
  BY <1>1, <1>5, StageNames DEF StageCsv, TypeOK
<1>7. TypeOK'
  BY <1>1, <1>2, <1>4, <1>6 DEF TypeOK, StageCsv, GoesTo, ErrorCodes
<1>8. \A q \in Procs \ {p} : InStep(q)'
  BY <1>1, <1>4, OthersInStep DEF ListsInStep, StageCsv, GoesTo
<1>9. InStep(p)'
  BY <1>1, <1>4 DEF ListsInStep, InStep, StageCsv, GoesTo,
                    StatementLabels, CommitLabels, BufferedLabels, EarlyLabels
<1> QED
  BY <1>7, <1>8, <1>9 DEF Typed, ListsInStep

\* ensure_staged_table, copying the CSV file, keeps the types and the counters.
LEMMA CopyCsvTyped ==
  ASSUME NEW p \in Procs, Typed, CopyCsv(p)
  PROVE  Typed'
<1> USE DEF program, lists, output
<1>1. TypeOK /\ ListsInStep
  BY DEF Typed
<1>2. faults' \in 0 .. MaxFaults
  BY <1>1, FaultsType DEF CopyCsv
<1>3. GoesTo(p, {"stageSchema", "cleanup"})
  BY <1>1, ProceedGoes, FailGoes DEF CopyCsv, GoesTo, Labels, ErrorCodes
<1>4. Csv(Stmt(p).table) \in TableFiles
  BY <1>1, StmtAtHand, StageNames DEF CopyCsv, StatementLabels
<1>5. <<>> \in File
  BY DEF File, Content
<1>6. stage' \in [Procs -> [StageFiles -> File]]
  <2>1. live[Csv(Stmt(p).table)] \in File /\ stage[p][Csv(Stmt(p).table)] \in File
    BY <1>1, <1>4, StageNames DEF TypeOK, DataDir
  <2>2. \/ UNCHANGED stage
        \/ \E f \in File : PutStaged(p, Csv(Stmt(p).table), f)
    BY <1>5, <2>1 DEF CopyCsv
  <2> QED
    BY <1>1, <2>2, PutStagedType DEF TypeOK
<1>7. TypeOK'
  BY <1>1, <1>2, <1>3, <1>6 DEF TypeOK, CopyCsv, GoesTo, ErrorCodes
<1>8. \A q \in Procs \ {p} : InStep(q)'
  BY <1>1, <1>3, OthersInStep DEF ListsInStep, CopyCsv, GoesTo
<1>9. InStep(p)'
  BY <1>1, <1>3 DEF ListsInStep, InStep, CopyCsv, GoesTo,
                    StatementLabels, CommitLabels, BufferedLabels, EarlyLabels
<1> QED
  BY <1>7, <1>8, <1>9 DEF Typed, ListsInStep

\* ensure_staged_table, copying the schema file, keeps the types and the counters.
LEMMA StageSchemaTyped ==
  ASSUME NEW p \in Procs, Typed, StageSchema(p)
  PROVE  Typed'
<1> USE DEF program, lists, output
<1>1. TypeOK /\ ListsInStep
  BY DEF Typed
<1>2. faults' \in 0 .. MaxFaults
  BY <1>1, FaultsType DEF StageSchema
<1>3. GoesTo(p, {"exec", "cleanup"})
  BY <1>1, ProceedGoes, FailGoes DEF StageSchema, GoesTo, Labels, ErrorCodes
<1>4. Schema(Stmt(p).table) \in TableFiles
  BY <1>1, StmtAtHand, StageNames DEF StageSchema, StatementLabels
<1>5. <<>> \in File /\ NoFile \in File
  BY DEF File, Content
<1>6. stage' \in [Procs -> [StageFiles -> File]]
  <2>1. live[Schema(Stmt(p).table)] \in File
    BY <1>1, <1>4, StageNames DEF TypeOK, DataDir
  <2>2. \/ UNCHANGED stage
        \/ \E f \in File : PutStaged(p, Schema(Stmt(p).table), f)
    BY <1>5, <2>1 DEF StageSchema
  <2> QED
    BY <1>1, <2>2, PutStagedType DEF TypeOK
<1>7. TypeOK'
  BY <1>1, <1>2, <1>3, <1>6 DEF TypeOK, StageSchema, GoesTo, ErrorCodes
<1>8. \A q \in Procs \ {p} : InStep(q)'
  BY <1>1, <1>3, OthersInStep DEF ListsInStep, StageSchema, GoesTo
<1>9. InStep(p)'
  BY <1>1, <1>3 DEF ListsInStep, InStep, StageSchema, GoesTo,
                    StatementLabels, CommitLabels, BufferedLabels, EarlyLabels
<1> QED
  BY <1>7, <1>8, <1>9 DEF Typed, ListsInStep

\* The two directories a statement may run on hold files under its names.
LEMMA ExecDirType ==
  ASSUME NEW p \in Procs, NEW n \in TableFiles, TypeOK
  PROVE  ExecDir(p)[n] \in File
  BY StageNames DEF ExecDir, TypeOK, DataDir

\* The list of touched CSV files grows by one at most.
LEMMA AppendUniqueType ==
  ASSUME NEW S, NEW s \in Seq(S), NEW n \in S
  PROVE  /\ AppendUnique(s, n) \in Seq(S)
         /\ Len(AppendUnique(s, n)) \in {Len(s), Len(s) + 1}
         /\ AppendUnique(s, n) # <<>>
<1>1. CASE \E k \in DOMAIN s : s[k] = n
  BY <1>1 DEF AppendUnique
<1>2. CASE ~ \E k \in DOMAIN s : s[k] = n
  BY <1>2, AppendProperties DEF AppendUnique
<1> QED
  BY <1>1, <1>2

\* A statement that takes effect.
LEMMA PerformTyped ==
  ASSUME NEW p \in Procs, NEW s \in File, NEW c \in File, TypeOK, ListsInStep,
         pc[p] = "exec", Perform(p, s, c),
         UNCHANGED <<program, live, stageDir, managed, committed, hadOriginal, out>>,
         faults' \in 0 .. MaxFaults
  PROVE  Typed'
<1> USE DEF program
<1> DEFINE n == Csv(Stmt(p).table)
<1>1. /\ Stmt(p) \in Statement
      /\ n \in CsvFiles
      /\ script[p] \in Seq(Statement)
      /\ idx[p] \in 1 .. Len(script[p])
      /\ Len(script[p]) \in Nat
      /\ Len(script[p]) <= MaxStatements
  <2>1. pc[p] \in StatementLabels /\ pc[p] \in EarlyLabels
    BY DEF StatementLabels, EarlyLabels
  <2>2. Stmt(p) \in Statement /\ n \in CsvFiles
    BY <2>1, StmtAtHand, StageNames
  <2>3. script[p] \in Seq(Statement) /\ Len(script[p]) \in Nat
    BY LenProperties DEF TypeOK
  <2> QED
    BY <2>1, <2>2, <2>3 DEF TypeOK, ListsInStep, InStep
<1>2. /\ FileAfter(s, c, Stmt(p)) \in File
      /\ Reply(s, c, Stmt(p)) \in Content
  BY <1>1, StatementTypes DEF Perform
<1>3. stage' \in [Procs -> [StageFiles -> File]]
  BY <1>2, PutStagedType DEF Perform, TypeOK
<1>4. /\ touched' \in [Procs -> Seq(CsvFiles)]
      /\ \A q \in Procs \ {p} : touched'[q] = touched[q]
      /\ Len(touched'[p]) \in {Len(touched[p]), Len(touched[p]) + 1}
      /\ Stmt(p).kind = "INSERT" \/ touched[p] # <<>> => touched'[p] # <<>>
  <2>1. touched[p] \in Seq(CsvFiles)
    BY DEF TypeOK
  <2>2. CASE Stmt(p).kind = "INSERT"
    <3>1. touched' = [touched EXCEPT ![p] = AppendUnique(touched[p], n)]
      BY <2>2 DEF Perform
    <3> QED
      BY <1>1, <2>1, <3>1, AppendUniqueType DEF TypeOK
  <2>3. CASE Stmt(p).kind # "INSERT"
    BY <2>1, <2>3 DEF Perform, TypeOK
  <2> QED
    BY <2>2, <2>3
<1>5. /\ idx' = [idx EXCEPT ![p] = @ + 1]
      /\ idx' \in [Procs -> 1 .. (MaxStatements + 1)]
  BY <1>1, MaxStatementsIsPositive DEF Perform, TypeOK
<1>6. /\ buf' \in [Procs -> File]
      /\ buf'[p] # NoFile
      /\ \A q \in Procs \ {p} : buf'[q] = buf[q]
  <2>1. buf[p] \in Content
    BY DEF TypeOK, File, ListsInStep, InStep, BufferedLabels, StatementLabels
  <2>2. buf[p] \o Reply(s, c, Stmt(p)) \in Content
    BY <1>2, <2>1, ConcatProperties DEF Content
  <2> QED
    BY <2>2, NoFileIsNoContent DEF Perform, TypeOK, File
<1>7. NextLabel(p) \in {"stageCsv", "exec", "commitCopy", "flush"}
  BY <1>1 DEF NextLabel, FirstLabel
<1>8. GoesTo(p, {NextLabel(p)})
  BY <1>7, ProceedGoes DEF Perform, Labels
<1>9. TypeOK'
  BY <1>3, <1>4, <1>5, <1>6, <1>8 DEF TypeOK, GoesTo, ErrorCodes
<1>10. \A q \in Procs \ {p} : InStep(q)'
  <2> SUFFICES ASSUME NEW q \in Procs \ {p} PROVE InStep(q)'
    OBVIOUS
  <2>1. idx'[q] = idx[q] /\ committed'[q] = committed[q] /\ script'[q] = script[q]
    BY <1>5 DEF TypeOK
  <2> QED
    BY <1>4, <1>6, <1>8, <2>1, OthersInStep DEF ListsInStep, GoesTo
<1>11. InStep(p)'
  <2>1. idx'[p] = idx[p] + 1 /\ idx[p] \in Nat
    BY <1>1, <1>5 DEF TypeOK
  <2>2. /\ Len(touched[p]) \in Nat
        /\ Len(touched[p]) < idx[p]
        /\ committed'[p] = 0
        /\ script' = script
    BY DEF TypeOK, ListsInStep, InStep, StatementLabels, EarlyLabels
  <2>3. ASSUME NEW k \in 1 .. (idx'[p] - 1), script[p][k].kind = "INSERT"
        PROVE  touched'[p] # <<>>
    <3>1. CASE k = idx[p]
      BY <1>4, <2>3, <3>1 DEF Stmt
    <3>2. CASE k # idx[p]
      <4>1. k \in 1 .. (idx[p] - 1)
        BY <2>1, <3>2
      <4> QED
        BY <1>4, <2>3, <4>1 DEF ListsInStep, InStep
    <3> QED
      BY <3>1, <3>2
  <2>4. ASSUME NextLabel(p) = "commitCopy"
        PROVE  0 < Len(touched'[p])
    <3>1. Staging(p) /\ idx[p] = Len(script[p])
      BY <1>1, <2>4 DEF NextLabel, FirstLabel
    <3>2. PICK k \in DOMAIN script[p] : script[p][k].kind = "INSERT"
      BY <3>1 DEF Staging
    <3>3. k \in 1 .. (idx'[p] - 1)
      BY <1>1, <2>1, <3>1
    <3>4. touched'[p] # <<>> /\ touched'[p] \in Seq(CsvFiles)
      BY <1>4, <2>3, <3>2, <3>3
    <3> QED
      BY <3>4, EmptySeq
  <2>5. NextLabel(p) \in EarlyLabels => idx'[p] <= Len(script[p])
    BY <1>1, <1>7, <2>1 DEF NextLabel, EarlyLabels, StatementLabels
  <2>6. pc'[p] = NextLabel(p) /\ pc'[p] \in {"stageCsv", "exec", "commitCopy", "flush"}
    BY <1>7, <1>8 DEF GoesTo
  <2>7. /\ Len(script'[p]) <= MaxStatements
        /\ idx'[p] <= Len(script'[p]) + 1
        /\ Len(touched'[p]) < idx'[p]
        /\ committed'[p] <= Len(touched'[p])
    BY <1>1, <1>4, <2>1, <2>2
  <2> QED
    BY <1>6, <2>2, <2>3, <2>4, <2>5, <2>6, <2>7
       DEF InStep, StatementLabels, CommitLabels, BufferedLabels, EarlyLabels
<1> QED
  BY <1>9, <1>10, <1>11 DEF Typed, ListsInStep

\* A statement that does not: rejected, or its I/O failed.
LEMMA FailedStatementTyped ==
  ASSUME NEW p \in Procs, NEW e \in ErrorCodes, TypeOK, ListsInStep, pc[p] = "exec",
         Fail(p, e, "cleanup"), stage' \in [Procs -> [StageFiles -> File]],
         UNCHANGED <<touched, buf, idx>>,
         UNCHANGED <<program, live, stageDir, managed, committed, hadOriginal, out>>,
         faults' \in 0 .. MaxFaults
  PROVE  Typed'
<1> USE DEF program
<1>1. GoesTo(p, {"cleanup"})
  BY FailGoes DEF Labels
<1>2. TypeOK'
  BY <1>1 DEF TypeOK, GoesTo, ErrorCodes
<1>3. \A q \in Procs \ {p} : InStep(q)'
  BY <1>1, OthersInStep DEF ListsInStep, GoesTo
<1>4. InStep(p)'
  BY <1>1 DEF ListsInStep, InStep, GoesTo,
              StatementLabels, CommitLabels, BufferedLabels, EarlyLabels
<1> QED
  BY <1>2, <1>3, <1>4 DEF Typed, ListsInStep

\* execute_statement_unstaged keeps the types and the counters.
LEMMA ExecuteStatementTyped ==
  ASSUME NEW p \in Procs, Typed, ExecuteStatement(p)
  PROVE  Typed'
<1> DEFINE n == Csv(Stmt(p).table)
           s == ExecDir(p)[Schema(Stmt(p).table)]
           c == ExecDir(p)[n]
<1>1. TypeOK /\ ListsInStep /\ pc[p] = "exec"
  BY DEF Typed, ExecuteStatement
<1>2. faults' \in 0 .. MaxFaults
  BY <1>1, FaultsType DEF ExecuteStatement
<1>3. s \in File /\ c \in File /\ NoFile \in File
  BY <1>1, StmtAtHand, StageNames, ExecDirType DEF StatementLabels, File
<1>4. UNCHANGED <<program, live, stageDir, managed, committed, hadOriginal, out>>
  BY DEF ExecuteStatement
<1>5. CASE \E f \in {c, NoFile} : Perform(p, s, f)
  BY <1>1, <1>2, <1>3, <1>4, <1>5, PerformTyped
<1>6. CASE \E f \in {c, NoFile} : Reject(p, s, f)
  <2>1. /\ Fail(p, "statement", "cleanup")
        /\ UNCHANGED <<stage, touched, buf, idx>>
    BY <1>6 DEF Reject
  <2> QED
    BY <1>1, <1>2, <1>4, <2>1, FailedStatementTyped DEF TypeOK, ErrorCodes
<1>7. CASE /\ Fail(p, "io", "cleanup")
           /\ UNCHANGED stage \/ PutStaged(p, n, TornFile(c))
           /\ UNCHANGED <<touched, buf, idx>>
  <2>1. TornFile(c) \in File
    BY <1>3, AppendProperties, EmptySeq DEF TornFile, File, Content, Record
  <2>2. stage' \in [Procs -> [StageFiles -> File]]
    BY <1>1, <1>7, <2>1, PutStagedType DEF TypeOK
  <2> QED
    BY <1>1, <1>2, <1>4, <1>7, <2>2, FailedStatementTyped DEF ErrorCodes
<1> QED
  BY <1>5, <1>6, <1>7 DEF ExecuteStatement

\* load_table_schema on a schema it dies of keeps the types and the counters.
LEMMA DieOnSchemaTyped ==
  ASSUME NEW p \in Procs, Typed, DieOnSchema(p)
  PROVE  Typed'
<1>1. TypeOK'
  BY DEF Typed, TypeOK, DieOnSchema, lists, output
<1>2. ListsInStep'
  BY DEF Typed, ListsInStep, InStep, DieOnSchema, lists, output
<1> QED
  BY <1>1, <1>2 DEF Typed

----------------------------------------------------------------------------
\* While a CSV file is committed, it is one of the touched files and its
\* reserved names are in the stage directory.
LEMMA FileInHand ==
  ASSUME NEW p \in Procs, TypeOK, ListsInStep, pc[p] \in CommitLabels
  PROVE  /\ committed[p] \in Index
         /\ committed[p] + 1 \in 0 .. MaxStatements
         /\ committed[p] + 1 <= Len(touched[p])
         /\ Target(p) \in CsvFiles
         /\ Backup(p) \in StageFiles
         /\ Temp(p) \in StageFiles
<1>1. /\ touched[p] \in Seq(CsvFiles) /\ Len(touched[p]) \in Nat
      /\ committed[p] \in 0 .. MaxStatements
      /\ idx[p] \in 1 .. (MaxStatements + 1)
  BY LenProperties DEF TypeOK
<1>2. committed[p] < Len(touched[p]) /\ Len(touched[p]) < idx[p]
  BY DEF ListsInStep, InStep
<1>3. committed[p] < MaxStatements
  BY <1>1, <1>2, MaxStatementsIsPositive
<1>4. committed[p] \in Index /\ committed[p] + 1 \in 0 .. MaxStatements
  BY <1>1, <1>3, IndexBounds
<1>5. Target(p) \in CsvFiles
  BY <1>1, <1>2, ElementOfSeq DEF Target
<1> QED
  BY <1>1, <1>2, <1>4, <1>5, StageNames DEF Backup, Temp

\* The same for the CSV file a rollback is at.
LEMMA FileToUndo ==
  ASSUME NEW p \in Procs, TypeOK, ListsInStep, committed[p] > 0
  PROVE  /\ committed[p] - 1 \in Index
         /\ committed[p] - 1 \in 0 .. MaxStatements
         /\ touched[p][committed[p]] \in CsvFiles
         /\ Rollback(committed[p] - 1) \in StageFiles
<1>1. /\ touched[p] \in Seq(CsvFiles) /\ Len(touched[p]) \in Nat
      /\ committed[p] \in 0 .. MaxStatements
      /\ committed[p] <= Len(touched[p])
  BY LenProperties DEF TypeOK, ListsInStep, InStep
<1>2. touched[p][committed[p]] \in CsvFiles
  BY <1>1, ElementOfSeq
<1> QED
  BY <1>1, <1>2, IndexBounds, StageNames

\* commit_staged_csvs, copying to __commit_<i>.csv, keeps the types and the counters.
LEMMA CommitCopyTyped ==
  ASSUME NEW p \in Procs, Typed, CommitCopy(p)
  PROVE  Typed'
<1> USE DEF program, lists, output
<1>1. TypeOK /\ ListsInStep /\ pc[p] \in CommitLabels
  BY DEF Typed, CommitCopy, CommitLabels
<1>2. faults' \in 0 .. MaxFaults
  BY <1>1, FaultsType DEF CommitCopy
<1>3. GoesTo(p, {"commitCheck", "cleanup"})
  BY <1>1, ProceedGoes, FailGoes DEF CommitCopy, GoesTo, Labels, ErrorCodes
<1>4. managed' \in [Procs -> SUBSET StageFiles]
  BY <1>1, FileInHand DEF CommitCopy, TypeOK
<1>5. <<>> \in File
  BY DEF File, Content
<1>6. stage' \in [Procs -> [StageFiles -> File]]
  <2>1. stage[p][Target(p)] \in File /\ stage[p][Temp(p)] \in File
    BY <1>1, FileInHand, StageNames DEF TypeOK
  <2>2. CopiedForCommit(p) \in File
    BY <1>5, <2>1 DEF CopiedForCommit
  <2>3. \/ UNCHANGED stage
        \/ \E f \in File : PutStaged(p, Temp(p), f)
    BY <1>5, <2>1, <2>2 DEF CommitCopy
  <2> QED
    BY <1>1, <2>3, PutStagedType DEF TypeOK
<1>7. TypeOK'
  BY <1>1, <1>2, <1>3, <1>4, <1>6 DEF TypeOK, CommitCopy, GoesTo, ErrorCodes
<1>8. \A q \in Procs \ {p} : InStep(q)'
  BY <1>1, <1>3, OthersInStep DEF ListsInStep, CommitCopy, GoesTo
<1>9. InStep(p)'
  BY <1>1, <1>3 DEF ListsInStep, InStep, CommitCopy, GoesTo,
                    StatementLabels, CommitLabels, BufferedLabels, EarlyLabels
<1> QED
  BY <1>7, <1>8, <1>9 DEF Typed, ListsInStep

\* commit_staged_csvs, looking for an original, keeps the types and the counters.
LEMMA CommitCheckTyped ==
  ASSUME NEW p \in Procs, Typed, CommitCheck(p)
  PROVE  Typed'
<1> USE DEF program, output
<1>1. TypeOK /\ ListsInStep /\ pc[p] \in CommitLabels
  BY DEF Typed, CommitCheck, CommitLabels
<1>2. faults' \in 0 .. MaxFaults
  BY <1>1, FaultsType DEF CommitCheck
<1>3. GoesTo(p, {"backup", "replace"})
  BY <1>1, ProceedGoes DEF CommitCheck, GoesTo, Labels
<1>4. hadOriginal' \in [Procs -> SUBSET Index]
  <2>1. committed[p] \in Index
    BY <1>1, FileInHand
  <2>2. \/ UNCHANGED hadOriginal
        \/ hadOriginal' = [hadOriginal EXCEPT ![p] = @ \cup {committed[p]}]
    BY DEF CommitCheck
  <2>3. hadOriginal \in [Procs -> SUBSET Index]
    BY <1>1 DEF TypeOK
  <2>4. hadOriginal[p] \cup {committed[p]} \in SUBSET Index
    BY <2>1, <2>3
  <2> QED
    BY <2>2, <2>3, <2>4
<1>5. TypeOK'
  BY <1>1, <1>2, <1>3, <1>4 DEF TypeOK, CommitCheck, GoesTo, ErrorCodes
<1>6. \A q \in Procs \ {p} : InStep(q)'
  BY <1>1, <1>3, OthersInStep DEF ListsInStep, CommitCheck, GoesTo
<1>7. InStep(p)'
  BY <1>1, <1>3 DEF ListsInStep, InStep, CommitCheck, GoesTo,
                    StatementLabels, CommitLabels, BufferedLabels, EarlyLabels
<1> QED
  BY <1>5, <1>6, <1>7 DEF Typed, ListsInStep

\* commit_staged_csvs, moving the original away, keeps the types and the counters.
LEMMA BackUpOriginalTyped ==
  ASSUME NEW p \in Procs, Typed, BackUpOriginal(p)
  PROVE  Typed'
<1> USE DEF program, lists, output
<1>1. TypeOK /\ ListsInStep /\ pc[p] \in CommitLabels
  BY DEF Typed, BackUpOriginal, CommitLabels
<1>2. faults' \in 0 .. MaxFaults
  BY <1>1, FaultsType DEF BackUpOriginal
<1>3. GoesTo(p, {"replace", "cleanup"})
  BY <1>1, ProceedGoes, FailGoes DEF BackUpOriginal, GoesTo, Labels, ErrorCodes
<1>4. live' \in DataDir /\ stage' \in [Procs -> [StageFiles -> File]]
  <2>1. live[Target(p)] \in File /\ NoFile \in File
    BY <1>1, FileInHand, StageNames DEF TypeOK, DataDir, File
  <2>2. \/ UNCHANGED <<live, stage>>
        \/ /\ PutStaged(p, Backup(p), live[Target(p)])
           /\ PutLive(Target(p), NoFile)
    BY DEF BackUpOriginal
  <2> QED
    BY <1>1, <2>1, <2>2, PutStagedType, PutLiveType DEF TypeOK
<1>5. TypeOK'
  BY <1>1, <1>2, <1>3, <1>4 DEF TypeOK, BackUpOriginal, GoesTo, ErrorCodes
<1>6. \A q \in Procs \ {p} : InStep(q)'
  BY <1>1, <1>3, OthersInStep DEF ListsInStep, BackUpOriginal, GoesTo
<1>7. InStep(p)'
  BY <1>1, <1>3 DEF ListsInStep, InStep, BackUpOriginal, GoesTo,
                    StatementLabels, CommitLabels, BufferedLabels, EarlyLabels
<1> QED
  BY <1>5, <1>6, <1>7 DEF Typed, ListsInStep

\* commit_staged_csvs, moving the copy into place, keeps the types and the counters.
LEMMA ReplaceTyped ==
  ASSUME NEW p \in Procs, Typed, Replace(p)
  PROVE  Typed'
<1> USE DEF program, output
<1>1. TypeOK /\ ListsInStep /\ pc[p] \in CommitLabels
  BY DEF Typed, Replace, CommitLabels
<1>2. faults' \in 0 .. MaxFaults
  BY <1>1, FaultsType DEF Replace
<1>3. CASE /\ PutLive(Target(p), stage[p][Temp(p)])
           /\ PutStaged(p, Temp(p), NoFile)
           /\ committed' = [committed EXCEPT ![p] = @ + 1]
           /\ Proceed(p, IF committed[p] + 1 < Len(touched[p]) THEN "commitCopy" ELSE "flush")
  <2> DEFINE next == IF committed[p] + 1 < Len(touched[p]) THEN "commitCopy" ELSE "flush"
  <2>1. GoesTo(p, {next})
    BY <1>1, <1>3, ProceedGoes DEF Labels
  <2>2. stage[p][Temp(p)] \in File /\ NoFile \in File
    BY <1>1, FileInHand DEF TypeOK, File
  <2>3. live' \in DataDir /\ stage' \in [Procs -> [StageFiles -> File]]
    BY <1>1, <1>3, <2>2, PutStagedType, PutLiveType
  <2>4. /\ committed' \in [Procs -> 0 .. MaxStatements]
        /\ committed'[p] = committed[p] + 1
        /\ committed'[p] <= Len(touched[p])
        /\ \A q \in Procs \ {p} : committed'[q] = committed[q]
    BY <1>1, <1>3, FileInHand DEF TypeOK
  <2>5. TypeOK'
    BY <1>1, <1>2, <2>1, <2>3, <2>4 DEF TypeOK, Replace, GoesTo, ErrorCodes
  <2>6. \A q \in Procs \ {p} : InStep(q)'
    BY <1>1, <2>1, <2>4, OthersInStep DEF ListsInStep, Replace, GoesTo
  <2>7. buf[p] # NoFile
    BY <1>1 DEF ListsInStep, InStep, BufferedLabels
  <2>8. InStep(p)'
    BY <1>1, <2>1, <2>4, <2>7 DEF ListsInStep, InStep, Replace, GoesTo,
                      StatementLabels, CommitLabels, BufferedLabels, EarlyLabels
  <2> QED
    BY <2>5, <2>6, <2>8 DEF Typed, ListsInStep
<1>4. CASE /\ Fail(p, "io", IF committed[p] \in hadOriginal[p] THEN "restore" ELSE "rollback")
           /\ UNCHANGED <<live, stage, committed>>
  <2>1. GoesTo(p, {"restore", "rollback"})
    BY <1>1, <1>4, FailGoes DEF GoesTo, Labels, ErrorCodes
  <2>2. TypeOK'
    BY <1>1, <1>2, <1>4, <2>1 DEF TypeOK, Replace, GoesTo, ErrorCodes
  <2>3. \A q \in Procs \ {p} : InStep(q)'
    BY <1>1, <1>4, <2>1, OthersInStep DEF ListsInStep, Replace, GoesTo
  <2>4. InStep(p)'
    BY <1>1, <1>4, <2>1 DEF ListsInStep, InStep, Replace, GoesTo,
                      StatementLabels, CommitLabels, BufferedLabels, EarlyLabels
  <2> QED
    BY <2>2, <2>3, <2>4 DEF Typed, ListsInStep
<1> QED
  BY <1>3, <1>4 DEF Replace

\* commit_staged_csvs, moving the original back, keeps the types and the counters.
LEMMA RestoreCurrentTyped ==
  ASSUME NEW p \in Procs, Typed, RestoreCurrent(p)
  PROVE  Typed'
<1> USE DEF program, lists, output
<1>1. TypeOK /\ ListsInStep /\ pc[p] \in CommitLabels
  BY DEF Typed, RestoreCurrent, CommitLabels
<1>2. faults' \in 0 .. MaxFaults
  BY <1>1, FaultsType DEF RestoreCurrent
<1>3. GoesTo(p, {"rollback", "cleanup"})
  BY <1>1, ProceedGoes, FailGoes DEF RestoreCurrent, GoesTo, Labels, ErrorCodes
<1>4. live' \in DataDir /\ stage' \in [Procs -> [StageFiles -> File]]
  <2>1. stage[p][Backup(p)] \in File /\ NoFile \in File
    BY <1>1, FileInHand DEF TypeOK, File
  <2>2. \/ UNCHANGED <<live, stage>>
        \/ /\ PutLive(Target(p), stage[p][Backup(p)])
           /\ PutStaged(p, Backup(p), NoFile)
    BY DEF RestoreCurrent
  <2> QED
    BY <1>1, <2>1, <2>2, PutStagedType, PutLiveType DEF TypeOK
<1>5. TypeOK'
  BY <1>1, <1>2, <1>3, <1>4 DEF TypeOK, RestoreCurrent, GoesTo, ErrorCodes
<1>6. \A q \in Procs \ {p} : InStep(q)'
  BY <1>1, <1>3, OthersInStep DEF ListsInStep, RestoreCurrent, GoesTo
<1>7. InStep(p)'
  BY <1>1, <1>3 DEF ListsInStep, InStep, RestoreCurrent, GoesTo,
                    StatementLabels, CommitLabels, BufferedLabels, EarlyLabels
<1> QED
  BY <1>5, <1>6, <1>7 DEF Typed, ListsInStep

\* rollback_committed_csvs, removing a committed file, keeps the types and the counters.
LEMMA RollbackRemoveTyped ==
  ASSUME NEW p \in Procs, Typed, RollbackCheck(p) \/ RollbackRemove(p)
  PROVE  Typed'
<1> USE DEF program, output
<1> DEFINE n == touched[p][committed[p]]
<1>1. TypeOK /\ ListsInStep /\ committed[p] > 0
  BY DEF Typed, RollbackCheck, RollbackRemove, ListsInStep, InStep
<1>2. faults' \in 0 .. MaxFaults
  BY <1>1, FaultsType DEF RollbackCheck, RollbackRemove
<1>3. GoesTo(p, {"rollbackRemove", "rollbackMove", "rollback", "cleanup"})
  BY <1>1, ProceedGoes, FailGoes DEF RollbackCheck, RollbackRemove, Removed, Undone, GoesTo, Labels, ErrorCodes
<1>4. live' \in DataDir
  <2>1. NoFile \in File
    BY DEF File
  <2> QED
    BY <1>1, <2>1, PutLiveType DEF RollbackCheck, RollbackRemove, TypeOK
<1>5. \/ UNCHANGED committed
      \/ committed' = [committed EXCEPT ![p] = @ - 1] /\ pc'[p] = "rollback"
  BY <1>1, <1>3, ProceedGoes DEF RollbackCheck, RollbackRemove, Removed, Undone, GoesTo, Labels
<1>6. /\ committed' \in [Procs -> 0 .. MaxStatements]
      /\ committed'[p] <= committed[p]
      /\ pc'[p] \in {"rollbackRemove", "rollbackMove"} => committed'[p] > 0
      /\ \A q \in Procs \ {p} : committed'[q] = committed[q]
  <2>1. committed \in [Procs -> 0 .. MaxStatements] /\ committed[p] - 1 \in 0 .. MaxStatements
    BY <1>1, FileToUndo DEF TypeOK
  <2>2. CASE UNCHANGED committed
    BY <1>1, <2>1, <2>2
  <2>3. CASE committed' = [committed EXCEPT ![p] = @ - 1] /\ pc'[p] = "rollback"
    BY <2>1, <2>3
  <2> QED
    BY <1>5, <2>2, <2>3
<1>7. TypeOK'
  BY <1>1, <1>2, <1>3, <1>4, <1>6 DEF TypeOK, RollbackCheck, RollbackRemove, GoesTo, ErrorCodes
<1>8. \A q \in Procs \ {p} : InStep(q)'
  BY <1>1, <1>3, <1>6, OthersInStep DEF ListsInStep, RollbackCheck, RollbackRemove, GoesTo
<1>9. InStep(p)'
  <2>1. committed'[p] <= Len(touched[p])
    <3>1. /\ committed[p] <= Len(touched[p])
          /\ Len(touched[p]) \in Nat
          /\ committed[p] \in 0 .. MaxStatements
          /\ committed'[p] \in 0 .. MaxStatements
      BY <1>1, <1>6, LenProperties DEF TypeOK, ListsInStep, InStep
    <3> QED
      BY <1>6, <3>1
  <2> QED
    BY <1>1, <1>3, <1>6, <2>1 DEF ListsInStep, InStep, RollbackCheck, RollbackRemove, GoesTo,
                      StatementLabels, CommitLabels, BufferedLabels, EarlyLabels
<1> QED
  BY <1>7, <1>8, <1>9 DEF Typed, ListsInStep

\* rollback_committed_csvs, moving an original back, keeps the types and the counters.
LEMMA RollbackMoveTyped ==
  ASSUME NEW p \in Procs, Typed, RollbackMove(p)
  PROVE  Typed'
<1> USE DEF program, output
<1> DEFINE n == touched[p][committed[p]]
           b == Rollback(committed[p] - 1)
<1>1. TypeOK /\ ListsInStep /\ pc[p] = "rollbackMove" /\ committed[p] > 0
  BY DEF Typed, RollbackMove, ListsInStep, InStep
<1>2. faults' \in 0 .. MaxFaults
  BY <1>1, FaultsType DEF RollbackMove
<1>3. GoesTo(p, {"rollback", "cleanup"})
  BY <1>1, ProceedGoes, FailGoes DEF RollbackMove, Undone, GoesTo, Labels, ErrorCodes
<1>4. live' \in DataDir /\ stage' \in [Procs -> [StageFiles -> File]]
  <2>1. stage[p][b] \in File /\ NoFile \in File
    BY <1>1, FileToUndo DEF TypeOK, File
  <2>2. \/ UNCHANGED <<live, stage>>
        \/ PutLive(n, stage[p][b]) /\ PutStaged(p, b, NoFile)
    BY DEF RollbackMove
  <2> QED
    BY <1>1, <2>1, <2>2, PutStagedType, PutLiveType DEF TypeOK
<1>5. /\ committed' \in [Procs -> 0 .. MaxStatements]
      /\ committed'[p] <= committed[p]
      /\ \A q \in Procs \ {p} : committed'[q] = committed[q]
  <2>1. committed \in [Procs -> 0 .. MaxStatements] /\ committed[p] - 1 \in 0 .. MaxStatements
    BY <1>1, FileToUndo DEF TypeOK
  <2>2. CASE UNCHANGED committed
    BY <1>1, <2>1, <2>2
  <2>3. CASE committed' = [committed EXCEPT ![p] = @ - 1]
    BY <2>1, <2>3
  <2> QED
    BY <2>2, <2>3 DEF RollbackMove, Undone
<1>6. TypeOK'
  BY <1>1, <1>2, <1>3, <1>4, <1>5 DEF TypeOK, RollbackMove, GoesTo, ErrorCodes
<1>7. \A q \in Procs \ {p} : InStep(q)'
  BY <1>1, <1>3, <1>5, OthersInStep DEF ListsInStep, RollbackMove, GoesTo
<1>8. InStep(p)'
  <2>1. committed'[p] <= Len(touched[p])
    <3>1. /\ committed[p] <= Len(touched[p])
          /\ Len(touched[p]) \in Nat
          /\ committed[p] \in 0 .. MaxStatements
          /\ committed'[p] \in 0 .. MaxStatements
      BY <1>1, <1>5, LenProperties DEF TypeOK, ListsInStep, InStep
    <3> QED
      BY <1>5, <3>1
  <2> QED
    BY <1>1, <1>3, <2>1 DEF ListsInStep, InStep, RollbackMove, GoesTo,
                      StatementLabels, CommitLabels, BufferedLabels, EarlyLabels
<1> QED
  BY <1>6, <1>7, <1>8 DEF Typed, ListsInStep

\* rollback_committed_csvs, the end of the loop, keeps the types and the counters.
LEMMA RollbackEndsTyped ==
  ASSUME NEW p \in Procs, Typed, RollbackEnds(p)
  PROVE  Typed'
<1> USE DEF program, lists, output
<1>1. TypeOK /\ ListsInStep
  BY DEF Typed
<1>2. GoesTo(p, {"cleanup"})
  BY <1>1, ProceedGoes DEF RollbackEnds, Labels
<1>3. TypeOK'
  BY <1>1, <1>2 DEF TypeOK, RollbackEnds, NoFault, GoesTo, ErrorCodes
<1>4. \A q \in Procs \ {p} : InStep(q)'
  BY <1>1, <1>2, OthersInStep DEF ListsInStep, RollbackEnds, GoesTo
<1>5. InStep(p)'
  BY <1>1, <1>2 DEF ListsInStep, InStep, RollbackEnds, GoesTo,
                    StatementLabels, CommitLabels, BufferedLabels, EarlyLabels
<1> QED
  BY <1>3, <1>4, <1>5 DEF Typed, ListsInStep

\* A beginning of the buffer is output too.
LEMMA PrefixType ==
  ASSUME NEW s \in Content, NEW k \in 0 .. Len(s)
  PROVE  Prefix(s, k) \in Content
<1>1. s \in Seq(Record) /\ Len(s) \in Nat /\ k \in Int
  BY LenProperties DEF Content
<1>2. \A i \in 1 .. k : s[i] \in Record
  BY <1>1, ElementOfSeq
<1>3. SubSeq(s, 1, k) \in Seq(Record)
  BY <1>1, <1>2, SubSeqProperties
<1> QED
  BY <1>3 DEF Prefix, Content

\* flush_and_copy_output keeps the types and the counters.
LEMMA FlushTyped ==
  ASSUME NEW p \in Procs, Typed, Flush(p)
  PROVE  Typed'
<1> USE DEF program, lists
<1>1. TypeOK /\ ListsInStep
  BY DEF Typed
<1>2. faults' \in 0 .. MaxFaults
  BY <1>1, FaultsType DEF Flush
<1>3. GoesTo(p, {"cleanup", "rollback"})
  BY <1>1, ProceedGoes, FailGoes DEF Flush, GoesTo, Labels, ErrorCodes
<1>4. buf[p] \in Content
  BY <1>1 DEF Flush, TypeOK, File, ListsInStep, InStep, BufferedLabels
<1>5. out' \in [Procs -> Content]
  <2>1. \A k \in 0 .. Len(buf[p]) : Prefix(buf[p], k) \in Content
    BY <1>4, PrefixType
  <2>2. \E f \in Content : out' = [out EXCEPT ![p] = f]
    BY <1>4, <2>1 DEF Flush
  <2> QED
    BY <1>1, <2>2 DEF TypeOK
<1>6. TypeOK'
  BY <1>1, <1>2, <1>3, <1>5 DEF TypeOK, Flush, GoesTo, ErrorCodes
<1>7. \A q \in Procs \ {p} : InStep(q)'
  BY <1>1, <1>3, OthersInStep DEF ListsInStep, Flush, GoesTo
<1>8. InStep(p)'
  BY <1>1, <1>3 DEF ListsInStep, InStep, Flush, GoesTo,
                    StatementLabels, CommitLabels, BufferedLabels, EarlyLabels
<1> QED
  BY <1>6, <1>7, <1>8 DEF Typed, ListsInStep

\* cleanup_stage_dir keeps the types and the counters.
LEMMA CleanupTyped ==
  ASSUME NEW p \in Procs, Typed, Cleanup(p)
  PROVE  Typed'
<1> USE DEF program, lists
<1>1. TypeOK /\ ListsInStep
  BY DEF Typed
<1>2. faults' \in 0 .. MaxFaults
  BY <1>1, FaultsType DEF Cleanup
<1>3. GoesTo(p, {"done"})
  BY <1>1, ProceedGoes DEF Cleanup, Labels
<1>4. \E bufStays, dirStays \in BOOLEAN, staying \in SUBSET managed[p] :
        Sweep(p, bufStays, staying, dirStays)
  BY DEF Cleanup, Unswept
<1>5. NoFile \in File
  BY DEF File
<1>6. buf' \in [Procs -> File] /\ \A q \in Procs \ {p} : buf'[q] = buf[q]
  BY <1>1, <1>4, <1>5 DEF Sweep, TypeOK
<1>7. stage' \in [Procs -> [StageFiles -> File]]
  BY <1>1, <1>4, <1>5 DEF Sweep, TypeOK
<1>8. stageDir' \in [Procs -> BOOLEAN]
  BY <1>1, <1>4 DEF Sweep, TypeOK
<1>9. TypeOK'
  BY <1>1, <1>2, <1>3, <1>6, <1>7, <1>8 DEF TypeOK, Cleanup, GoesTo, ErrorCodes
<1>10. \A q \in Procs \ {p} : InStep(q)'
  BY <1>1, <1>3, <1>6, OthersInStep DEF ListsInStep, Cleanup, GoesTo
<1>11. InStep(p)'
  BY <1>1, <1>3 DEF ListsInStep, InStep, Cleanup, GoesTo,
                    StatementLabels, CommitLabels, BufferedLabels, EarlyLabels
<1> QED
  BY <1>9, <1>10, <1>11 DEF Typed, ListsInStep

\* A killed process keeps the types and the counters.
LEMMA CrashTyped ==
  ASSUME NEW p \in Procs, Typed, Crash(p)
  PROVE  Typed'
<1> USE DEF lists
<1>1. TypeOK /\ ListsInStep
  BY DEF Typed
<1>2. out' \in [Procs -> Content]
  <2>1. CASE UNCHANGED out
    BY <1>1, <2>1 DEF TypeOK
  <2>2. CASE /\ pc[p] = "flush"
             /\ \E k \in 1 .. Len(buf[p]) : out' = [out EXCEPT ![p] = Prefix(buf[p], k)]
    <3>1. buf[p] \in Content
      BY <1>1, <2>2 DEF TypeOK, File, ListsInStep, InStep, BufferedLabels
    <3>2. \A k \in 1 .. Len(buf[p]) : Prefix(buf[p], k) \in Content
      BY <3>1, PrefixType, LenProperties DEF Content
    <3> QED
      BY <1>1, <2>2, <3>2 DEF TypeOK
  <2> QED
    BY <2>1, <2>2 DEF Crash
<1>3. /\ buf' \in [Procs -> File]
      /\ stage' \in [Procs -> [StageFiles -> File]]
      /\ stageDir' \in [Procs -> BOOLEAN]
      /\ \A q \in Procs : buf'[q] = buf[q] \/ (q = p /\ pc[q] = "cleanup")
  <2>1. CASE UNCHANGED <<buf, stage, stageDir>>
    BY <1>1, <2>1 DEF TypeOK
  <2>2. CASE pc[p] = "cleanup" /\ \E staying \in Unswept(p) : Sweep(p, FALSE, staying, TRUE)
    <3>1. NoFile \in File
      BY DEF File
    <3> QED
      BY <1>1, <2>2, <3>1 DEF Sweep, TypeOK
  <2> QED
    BY <2>1, <2>2 DEF Crash
<1>4. TypeOK'
  BY <1>1, <1>2, <1>3 DEF TypeOK, Crash
<1>5. ListsInStep'
  BY <1>1, <1>3 DEF ListsInStep, InStep, Crash, BufferedLabels, StatementLabels, CommitLabels
<1> QED
  BY <1>4, <1>5 DEF Typed

\* Every step keeps the types and the counters.
LEMMA NextTyped == Typed /\ [Next]_vars => Typed'
<1> SUFFICES ASSUME Typed, [Next]_vars
             PROVE  Typed'
  OBVIOUS
<1>1. CASE UNCHANGED vars
  BY <1>1 DEF vars, Typed, TypeOK, ListsInStep, InStep
<1>2. CASE Terminated
  BY <1>1, <1>2 DEF Terminated
<1>3. ASSUME NEW p \in Procs, Step(p)
      PROVE  Typed'
  BY <1>3, MakeStageDirTyped, OpenBufferTyped, StageCsvTyped, CopyCsvTyped, StageSchemaTyped,
     DieOnSchemaTyped, ExecuteStatementTyped, CommitCopyTyped, CommitCheckTyped,
     BackUpOriginalTyped, ReplaceTyped, RestoreCurrentTyped, RollbackRemoveTyped,
     RollbackMoveTyped, RollbackEndsTyped, FlushTyped, CleanupTyped DEF Step
<1>4. ASSUME NEW p \in Procs, Crash(p)
      PROVE  Typed'
  BY <1>4, CrashTyped
<1> QED
  BY <1>1, <1>2, <1>3, <1>4 DEF Next

\* Type correctness, with the counters and lists of execute_script where the
\* labels say, in every behaviour.
THEOREM TypedCorrect == Spec => []Typed
<1>1. Init => Typed
  BY InitTyped
<1>2. Typed /\ [Next]_vars => Typed'
  BY NextTyped
<1> QED
  BY <1>1, <1>2, PTL DEF Spec

\* The variables of execute_script have their types in every behaviour.
THEOREM TypeCorrect == Spec => []TypeOK
<1>1. Typed => TypeOK
  BY DEF Typed
<1> QED
  BY <1>1, TypedCorrect, PTL

----------------------------------------------------------------------------
(***************************************************************************)
(* cleanup_stage_dir finds everything.                                     *)
(***************************************************************************)
AllCovered == \A p \in Procs : Covered(p)

\* A step of p changes nothing of another process.
OthersStand(p) ==
  \A q \in Procs \ {p} :
    /\ pc'[q] = pc[q]
    /\ script'[q] = script[q]
    /\ idx'[q] = idx[q]
    /\ committed'[q] = committed[q]
    /\ managed'[q] = managed[q]
    /\ stage'[q] = stage[q]
    /\ stageDir'[q] = stageDir[q]
    /\ buf'[q] = buf[q]

\* So only the process that moves can lose track of a file.
LEMMA OthersCovered ==
  ASSUME NEW p \in Procs, AllCovered, OthersStand(p), Covered(p)'
  PROVE  AllCovered'
<1>1. ASSUME NEW q \in Procs \ {p}
      PROVE  Covered(q)'
  <2>1. Covered(q)
    BY DEF AllCovered
  <2>2. Stmt(q)' = Stmt(q) /\ Staging(q)' = Staging(q)
    BY DEF OthersStand, Stmt, Staging
  <2>3. Backup(q)' = Backup(q) /\ Temp(q)' = Temp(q)
    BY DEF OthersStand, Backup, Temp
  <2>4. NamesInHand(q)'
    BY <2>1, <2>2, <2>3 DEF OthersStand, Covered, NamesInHand
  <2> QED
    BY <2>1, <2>4 DEF OthersStand, Covered, Returned, Clean
<1> QED
  BY <1>1 DEF AllCovered

\* The labels at which NamesInHand asks for nothing.
IdleLabels == {"buffer", "stageCsv", "commitCopy", "restore", "rollback", "rollbackRemove",
               "rollbackMove", "flush", "cleanup"}

\* A step that puts no new file in the stage directory, unless its name is on
\* the list, and that has no file at hand next.
LEMMA IdleCovered ==
  ASSUME NEW p \in Procs, AllCovered, pc'[p] \in IdleLabels,
         \A n \in StageFiles : stage'[p][n] # NoFile => n \in managed'[p]
  PROVE  Covered(p)'
  BY DEF Covered, NamesInHand, Returned, IdleLabels

\* To begin with there is no stage directory and no file to list.
LEMMA InitCovered == Init => AllCovered
<1> SUFFICES ASSUME Init, NEW p \in Procs
             PROVE  Covered(p)
  BY DEF AllCovered
<1>1. pc[p] \in {"mkdir", "buffer"} /\ buf[p] = NoFile /\ stageDir[p] = FALSE
  BY DEF Init
<1>2. \A n \in StageFiles : stage[p][n] = NoFile
  BY DEF Init
<1> QED
  BY <1>1, <1>2 DEF Covered, Clean, Returned, NamesInHand

----------------------------------------------------------------------------
(***************************************************************************)
(* One lemma for each action.                                              *)
(***************************************************************************)
\* create_stage_dir fails before anything is made.
LEMMA MakeStageDirCovered ==
  ASSUME NEW p \in Procs, TypeOK, AllCovered, MakeStageDir(p)
  PROVE  AllCovered'
<1> USE DEF program, lists, output
<1>1. OthersStand(p)
  BY DEF OthersStand, MakeStageDir, Proceed, Fail, Goto, TypeOK
<1>2. Covered(p) /\ Clean(p)
  BY DEF AllCovered, Covered, MakeStageDir
<1>3. Covered(p)'
  <2>1. CASE pc'[p] = "buffer"
    BY <1>2, <2>1, IdleCovered DEF MakeStageDir, Covered, IdleLabels
  <2>2. CASE pc'[p] = "done" /\ UNCHANGED stageDir
    BY <1>2, <2>2 DEF MakeStageDir, Covered, Clean, NamesInHand, Returned
  <2> QED
    BY <2>1, <2>2 DEF MakeStageDir, Proceed, Fail, Goto, TypeOK
<1> QED
  BY <1>1, <1>3, OthersCovered

\* A script that only reads has no stage files to look after.
LEMMA OpenBufferCovered ==
  ASSUME NEW p \in Procs, TypeOK, AllCovered, OpenBuffer(p)
  PROVE  AllCovered'
<1> USE DEF program, lists
<1>1. OthersStand(p)
  BY DEF OthersStand, OpenBuffer, Proceed, Fail, Goto, TypeOK
<1>2. Covered(p)
  BY DEF AllCovered
<1>3. Covered(p)'
  <2>1. pc'[p] \in {FirstLabel(p), "cleanup"}
    BY DEF OpenBuffer, Proceed, Fail, Goto, TypeOK
  <2>2. Staging(p)' = Staging(p)
    BY DEF OpenBuffer, Staging
  <2>3. CASE pc'[p] \in {"stageCsv", "cleanup"}
    BY <1>2, <2>3, IdleCovered DEF OpenBuffer, Covered, IdleLabels
  <2>4. CASE pc'[p] = "exec" /\ ~Staging(p)
    BY <1>2, <2>2, <2>4 DEF OpenBuffer, Covered, NamesInHand, Returned
  <2> QED
    BY <2>1, <2>3, <2>4 DEF FirstLabel
<1> QED
  BY <1>1, <1>3, OthersCovered

\* ensure_staged_table lists both names before it copies either file.
LEMMA StageCsvCovered ==
  ASSUME NEW p \in Procs, TypeOK, AllCovered, StageCsv(p)
  PROVE  AllCovered'
<1> USE DEF program, lists, output
<1>1. OthersStand(p)
  BY DEF OthersStand, StageCsv, Proceed, Goto, TypeOK
<1>2. Covered(p)
  BY DEF AllCovered
<1>3. pc'[p] \in {"copyCsv", "stageSchema"}
  BY DEF StageCsv, Proceed, Goto, CopyLabel, TypeOK
<1>4. Stmt(p)' = Stmt(p)
  BY DEF StageCsv, Stmt
<1>5. managed'[p] = managed[p] \cup {Csv(Stmt(p).table), Schema(Stmt(p).table)}
  BY DEF StageCsv, TypeOK
<1>6. Covered(p)'
  BY <1>2, <1>3, <1>4, <1>5 DEF StageCsv, Covered, NamesInHand, Returned
<1> QED
  BY <1>1, <1>6, OthersCovered

\* ensure_staged_table, copying the CSV file, keeps every stage file on the list.
LEMMA CopyCsvCovered ==
  ASSUME NEW p \in Procs, TypeOK, AllCovered, CopyCsv(p)
  PROVE  AllCovered'
<1> USE DEF program, lists, output
<1> DEFINE n == Csv(Stmt(p).table)
<1>1. OthersStand(p)
  BY DEF OthersStand, CopyCsv, Proceed, Fail, Goto, PutStaged, TypeOK
<1>2. Covered(p) /\ n \in managed[p]
  BY DEF AllCovered, Covered, NamesInHand, CopyCsv
<1>3. pc'[p] \in {"stageSchema", "cleanup"}
  BY DEF CopyCsv, Proceed, Fail, Goto, TypeOK
<1>4. Stmt(p)' = Stmt(p)
  BY DEF CopyCsv, Stmt
<1>5. \A m \in StageFiles : stage'[p][m] # NoFile => m \in managed'[p]
  BY <1>2 DEF CopyCsv, PutStaged, Covered, TypeOK
<1>6. Covered(p)'
  BY <1>2, <1>3, <1>4, <1>5 DEF CopyCsv, Covered, NamesInHand, Returned
<1> QED
  BY <1>1, <1>6, OthersCovered

\* ensure_staged_table, copying the schema file, keeps every stage file on the list.
LEMMA StageSchemaCovered ==
  ASSUME NEW p \in Procs, TypeOK, AllCovered, StageSchema(p)
  PROVE  AllCovered'
<1> USE DEF program, lists, output
<1> DEFINE n == Schema(Stmt(p).table)
<1>1. OthersStand(p)
  BY DEF OthersStand, StageSchema, Proceed, Fail, Goto, PutStaged, TypeOK
<1>2. Covered(p) /\ n \in managed[p]
  BY DEF AllCovered, Covered, NamesInHand, StageSchema
<1>3. pc'[p] \in {"exec", "cleanup"}
  BY DEF StageSchema, Proceed, Fail, Goto, TypeOK
<1>4. Stmt(p)' = Stmt(p)
  BY DEF StageSchema, Stmt
<1>5. \A m \in StageFiles : stage'[p][m] # NoFile => m \in managed'[p]
  BY <1>2 DEF StageSchema, PutStaged, Covered, TypeOK
<1>6. Covered(p)'
  BY <1>2, <1>3, <1>4, <1>5 DEF StageSchema, Covered, NamesInHand, Returned
<1> QED
  BY <1>1, <1>6, OthersCovered
\* A statement writes its table's CSV file, and only in the stage directory.
LEMMA ExecuteStatementCovered ==
  ASSUME NEW p \in Procs, Typed, AllCovered, ExecuteStatement(p)
  PROVE  AllCovered'
<1> USE DEF program, lists, output
<1> DEFINE n == Csv(Stmt(p).table)
<1>1. TypeOK /\ ListsInStep
  BY DEF Typed
<1>2. OthersStand(p)
  BY <1>1 DEF OthersStand, ExecuteStatement, Perform, Reject, Proceed, Fail, Goto, PutStaged, TypeOK
<1>3. Covered(p)
  BY DEF AllCovered
<1>4. ASSUME Stmt(p).kind = "INSERT"
      PROVE  n \in managed[p]
  <2>1. script[p] \in Seq(Statement) /\ idx[p] \in 1 .. Len(script[p])
    BY <1>1 DEF TypeOK, ListsInStep, InStep, EarlyLabels, StatementLabels, ExecuteStatement
  <2>2. Staging(p)
    BY <1>4, <2>1 DEF Staging, Stmt
  <2> QED
    BY <1>3, <2>2 DEF Covered, NamesInHand, ExecuteStatement
<1>5. \/ UNCHANGED stage
      \/ Stmt(p).kind = "INSERT" /\ \E f : PutStaged(p, n, f)
  BY DEF ExecuteStatement, Perform, Reject
<1>6. managed' = managed
  BY DEF ExecuteStatement
<1>7. \A m \in StageFiles : stage'[p][m] # NoFile => m \in managed'[p]
  BY <1>1, <1>3, <1>4, <1>5, <1>6 DEF PutStaged, Covered, TypeOK
<1>8. pc'[p] \in {NextLabel(p), "cleanup"}
  BY <1>1 DEF ExecuteStatement, Perform, Reject, Proceed, Fail, Goto, TypeOK
<1>9. Staging(p)' = Staging(p)
  BY DEF ExecuteStatement, Staging
<1>10. Covered(p)'
  <2>1. CASE pc'[p] \in IdleLabels
    BY <1>7, <2>1, IdleCovered
  <2>2. CASE pc'[p] = "exec" /\ ~Staging(p)
    BY <1>7, <1>9, <2>2 DEF Covered, NamesInHand, Returned
  <2>3. NextLabel(p) \in IdleLabels \/ (NextLabel(p) = "exec" /\ ~Staging(p))
    <3>1. Len(script[p]) \in Nat /\ idx[p] \in Nat
      BY <1>1, LenProperties DEF TypeOK
    <3> QED
      BY <3>1 DEF NextLabel, FirstLabel, IdleLabels
  <2> QED
    BY <1>8, <2>1, <2>2, <2>3 DEF IdleLabels
<1> QED
  BY <1>2, <1>10, OthersCovered

\* commit_staged_csvs lists both reserved names before it uses either.
LEMMA CommitCopyCovered ==
  ASSUME NEW p \in Procs, TypeOK, AllCovered, CommitCopy(p)
  PROVE  AllCovered'
<1> USE DEF program, lists, output
<1>1. OthersStand(p)
  BY DEF OthersStand, CommitCopy, Proceed, Fail, Goto, PutStaged, TypeOK
<1>2. Covered(p)
  BY DEF AllCovered
<1>3. pc'[p] \in {"commitCheck", "cleanup"}
  BY DEF CommitCopy, Proceed, Fail, Goto, TypeOK
<1>4. Backup(p)' = Backup(p) /\ Temp(p)' = Temp(p)
  BY DEF CommitCopy, Backup, Temp
<1>5. managed'[p] = managed[p] \cup {Backup(p), Temp(p)}
  BY DEF CommitCopy, TypeOK
<1>6. \A m \in StageFiles : stage'[p][m] # NoFile => m \in managed'[p]
  BY <1>2, <1>5 DEF CommitCopy, PutStaged, Covered, TypeOK
<1>7. Covered(p)'
  BY <1>3, <1>4, <1>5, <1>6 DEF Covered, NamesInHand, Returned
<1> QED
  BY <1>1, <1>7, OthersCovered

\* commit_staged_csvs, looking for an original, keeps every stage file on the list.
LEMMA CommitCheckCovered ==
  ASSUME NEW p \in Procs, TypeOK, AllCovered, CommitCheck(p)
  PROVE  AllCovered'
<1> USE DEF program, lists, output
<1>1. OthersStand(p)
  BY DEF OthersStand, CommitCheck, Proceed, Goto, TypeOK
<1>2. Covered(p)
  BY DEF AllCovered
<1>3. pc'[p] \in {"backup", "replace"}
  BY DEF CommitCheck, Proceed, Goto, TypeOK
<1>4. Backup(p)' = Backup(p) /\ Temp(p)' = Temp(p)
  BY DEF CommitCheck, Backup, Temp
<1>5. Covered(p)'
  BY <1>2, <1>3, <1>4 DEF CommitCheck, Covered, NamesInHand, Returned
<1> QED
  BY <1>1, <1>5, OthersCovered

\* commit_staged_csvs, moving the original away, keeps every stage file on the list.
LEMMA BackUpOriginalCovered ==
  ASSUME NEW p \in Procs, TypeOK, AllCovered, BackUpOriginal(p)
  PROVE  AllCovered'
<1> USE DEF program, lists, output
<1>1. OthersStand(p)
  BY DEF OthersStand, BackUpOriginal, Proceed, Fail, Goto, PutStaged, TypeOK
<1>2. Covered(p) /\ Backup(p) \in managed[p]
  BY DEF AllCovered, Covered, NamesInHand, BackUpOriginal
<1>3. pc'[p] \in {"replace", "cleanup"}
  BY DEF BackUpOriginal, Proceed, Fail, Goto, TypeOK
<1>4. Backup(p)' = Backup(p) /\ Temp(p)' = Temp(p)
  BY DEF BackUpOriginal, Backup, Temp
<1>5. \A m \in StageFiles : stage'[p][m] # NoFile => m \in managed'[p]
  BY <1>2 DEF BackUpOriginal, PutStaged, Covered, TypeOK
<1>6. Covered(p)'
  BY <1>2, <1>3, <1>4, <1>5 DEF BackUpOriginal, Covered, NamesInHand, Returned
<1> QED
  BY <1>1, <1>6, OthersCovered

\* From here on nothing new is put in the stage directory.
LEMMA ReplaceCovered ==
  ASSUME NEW p \in Procs, TypeOK, AllCovered, Replace(p)
  PROVE  AllCovered'
<1> USE DEF program, lists, output
<1>1. OthersStand(p)
  BY DEF OthersStand, Replace, Proceed, Fail, Goto, PutStaged, TypeOK
<1>2. Covered(p)
  BY DEF AllCovered
<1>3. pc'[p] \in IdleLabels
  BY DEF Replace, Proceed, Fail, Goto, PutStaged, IdleLabels, TypeOK
<1>4. \A m \in StageFiles : stage'[p][m] # NoFile => m \in managed'[p]
  BY <1>2 DEF Replace, PutStaged, Covered, TypeOK
<1> QED
  BY <1>1, <1>3, <1>4, IdleCovered, OthersCovered

\* commit_staged_csvs, moving the original back, keeps every stage file on the list.
LEMMA RestoreCurrentCovered ==
  ASSUME NEW p \in Procs, TypeOK, AllCovered, RestoreCurrent(p)
  PROVE  AllCovered'
<1> USE DEF program, lists, output
<1>1. OthersStand(p)
  BY DEF OthersStand, RestoreCurrent, Proceed, Fail, Goto, PutStaged, TypeOK
<1>2. Covered(p)
  BY DEF AllCovered
<1>3. pc'[p] \in IdleLabels
  BY DEF RestoreCurrent, Proceed, Fail, Goto, PutStaged, IdleLabels, TypeOK
<1>4. \A m \in StageFiles : stage'[p][m] # NoFile => m \in managed'[p]
  BY <1>2 DEF RestoreCurrent, PutStaged, Covered, TypeOK
<1> QED
  BY <1>1, <1>3, <1>4, IdleCovered, OthersCovered

\* rollback_committed_csvs, removing a committed file, keeps every stage file on the list.
LEMMA RollbackRemoveCovered ==
  ASSUME NEW p \in Procs, TypeOK, AllCovered, RollbackCheck(p) \/ RollbackRemove(p)
  PROVE  AllCovered'
<1> USE DEF program, lists, output
<1>1. OthersStand(p)
  BY DEF OthersStand, RollbackCheck, RollbackRemove, Removed, Proceed, Fail, Goto, Undone, TypeOK
<1>2. Covered(p)
  BY DEF AllCovered
<1>3. pc'[p] \in IdleLabels
  BY DEF RollbackCheck, RollbackRemove, Removed, Proceed, Fail, Goto, Undone, IdleLabels, TypeOK
<1>4. \A m \in StageFiles : stage'[p][m] # NoFile => m \in managed'[p]
  BY <1>2 DEF RollbackCheck, RollbackRemove, Covered, TypeOK
<1> QED
  BY <1>1, <1>3, <1>4, IdleCovered, OthersCovered

\* rollback_committed_csvs, moving an original back, keeps every stage file on the list.
LEMMA RollbackMoveCovered ==
  ASSUME NEW p \in Procs, TypeOK, AllCovered, RollbackMove(p)
  PROVE  AllCovered'
<1> USE DEF program, lists, output
<1>1. OthersStand(p)
  BY DEF OthersStand, RollbackMove, Proceed, Fail, Goto, Undone, PutStaged, TypeOK
<1>2. Covered(p)
  BY DEF AllCovered
<1>3. pc'[p] \in IdleLabels
  BY DEF RollbackMove, Proceed, Fail, Goto, Undone, PutStaged, IdleLabels, TypeOK
<1>4. \A m \in StageFiles : stage'[p][m] # NoFile => m \in managed'[p]
  BY <1>2 DEF RollbackMove, PutStaged, Covered, TypeOK
<1> QED
  BY <1>1, <1>3, <1>4, IdleCovered, OthersCovered

\* rollback_committed_csvs, the end of the loop, keeps every stage file on the list.
LEMMA RollbackEndsCovered ==
  ASSUME NEW p \in Procs, TypeOK, AllCovered, RollbackEnds(p)
  PROVE  AllCovered'
<1> USE DEF program, lists, output
<1>1. OthersStand(p)
  BY DEF OthersStand, RollbackEnds, Proceed, Goto, TypeOK
<1>2. Covered(p)
  BY DEF AllCovered
<1>3. pc'[p] \in IdleLabels
  BY DEF RollbackEnds, Proceed, Goto, IdleLabels, TypeOK
<1>4. \A m \in StageFiles : stage'[p][m] # NoFile => m \in managed'[p]
  BY <1>2 DEF RollbackEnds, Covered, TypeOK
<1> QED
  BY <1>1, <1>3, <1>4, IdleCovered, OthersCovered

\* flush_and_copy_output keeps every stage file on the list.
LEMMA FlushCovered ==
  ASSUME NEW p \in Procs, TypeOK, AllCovered, Flush(p)
  PROVE  AllCovered'
<1> USE DEF program, lists, output
<1>1. OthersStand(p)
  BY DEF OthersStand, Flush, Proceed, Fail, Goto, TypeOK
<1>2. Covered(p)
  BY DEF AllCovered
<1>3. pc'[p] \in IdleLabels
  BY DEF Flush, Proceed, Fail, Goto, IdleLabels, TypeOK
<1>4. \A m \in StageFiles : stage'[p][m] # NoFile => m \in managed'[p]
  BY <1>2 DEF Flush, Covered, TypeOK
<1> QED
  BY <1>1, <1>3, <1>4, IdleCovered, OthersCovered

\* All files are on the list, so cleanup_stage_dir leaves none and rmdir succeeds.
LEMMA CleanupCovered ==
  ASSUME NEW p \in Procs, TypeOK, AllCovered, Cleanup(p)
  PROVE  AllCovered'
<1> USE DEF program, lists
<1>1. PICK bufStays \in BOOLEAN, dirStays \in BOOLEAN, staying \in SUBSET managed[p] :
        Sweep(p, bufStays, staying, dirStays)
  BY DEF Cleanup, Unswept
<1>2. OthersStand(p)
  BY <1>1 DEF OthersStand, Cleanup, Sweep, Proceed, Goto, TypeOK
<1>3. Covered(p)
  BY DEF AllCovered
<1>4. pc'[p] = "done"
  BY DEF Cleanup, Proceed, Goto, TypeOK
<1>5. managed' = managed
  BY DEF Cleanup
<1>6. \A m \in StageFiles : stage'[p][m] # NoFile => m \in managed'[p]
  BY <1>1, <1>3, <1>5 DEF Sweep, Covered, TypeOK
<1>7. ASSUME "cleanup" \notin FaultPoints
      PROVE  Clean(p)'
  <2>1. Sweep(p, FALSE, {}, FALSE)
    BY <1>7 DEF Cleanup, Fault
  <2>2. \A m \in StageFiles : stage'[p][m] = NoFile
    BY <1>3, <2>1 DEF Sweep, Covered, TypeOK
  <2>3. buf'[p] = NoFile
    BY <2>1 DEF Sweep, TypeOK
  <2>4. stageDir'[p] = FALSE
    BY <1>3, <2>1 DEF Sweep, Covered, TypeOK
  <2> QED
    BY <2>2, <2>3, <2>4 DEF Clean
<1>8. Covered(p)'
  BY <1>4, <1>6, <1>7 DEF Covered, NamesInHand, Returned
<1> QED
  BY <1>2, <1>8, OthersCovered

\* What changes no file, list or label.
LEMMA StillCovered ==
  ASSUME AllCovered, UNCHANGED <<pc, script, idx, committed, managed, stage, stageDir, buf>>
  PROVE  AllCovered'
<1> SUFFICES ASSUME NEW p \in Procs
             PROVE  Covered(p)'
  BY DEF AllCovered
<1>1. Stmt(p)' = Stmt(p) /\ Staging(p)' = Staging(p)
  BY DEF Stmt, Staging
<1>2. Backup(p)' = Backup(p) /\ Temp(p)' = Temp(p)
  BY DEF Backup, Temp
<1> QED
  BY <1>1, <1>2 DEF AllCovered, Covered, NamesInHand, Returned, Clean

\* A kill, in the middle of cleanup_stage_dir or not.
LEMMA CrashCovered ==
  ASSUME NEW p \in Procs, TypeOK, AllCovered, Crash(p)
  PROVE  AllCovered'
<1> USE DEF lists
<1>1. CASE UNCHANGED <<buf, stage, stageDir>>
  BY <1>1, StillCovered DEF Crash
<1>2. CASE pc[p] = "cleanup" /\ \E staying \in Unswept(p) : Sweep(p, FALSE, staying, TRUE)
  <2>1. OthersStand(p)
    BY <1>2 DEF OthersStand, Crash, Sweep, TypeOK
  <2>2. \A m \in StageFiles : stage'[p][m] # NoFile => m \in managed'[p]
    BY <1>2 DEF Crash, Sweep, AllCovered, Covered, TypeOK
  <2>3. pc'[p] \in IdleLabels
    BY <1>2 DEF Crash, IdleLabels
  <2> QED
    BY <2>1, <2>2, <2>3, IdleCovered, OthersCovered
<1> QED
  BY <1>1, <1>2 DEF Crash

\* Every step keeps every stage file on the list.
LEMMA NextCovered ==
  ASSUME Typed, AllCovered, [Next]_vars
  PROVE  AllCovered'
<1>1. TypeOK
  BY DEF Typed
<1>2. CASE UNCHANGED vars
  BY <1>2, StillCovered DEF vars
<1>3. CASE Terminated
  BY <1>2, <1>3 DEF Terminated
<1>4. ASSUME NEW p \in Procs, Step(p)
      PROVE  AllCovered'
  <2>1. CASE DieOnSchema(p)
    BY <2>1, StillCovered DEF DieOnSchema, output, lists
  <2> QED
    BY <1>1, <1>4, <2>1, MakeStageDirCovered, OpenBufferCovered, StageCsvCovered,
       CopyCsvCovered, StageSchemaCovered, ExecuteStatementCovered, CommitCopyCovered,
       CommitCheckCovered, BackUpOriginalCovered, ReplaceCovered, RestoreCurrentCovered,
       RollbackRemoveCovered, RollbackMoveCovered, RollbackEndsCovered, FlushCovered,
       CleanupCovered DEF Step
<1>5. ASSUME NEW p \in Procs, Crash(p)
      PROVE  AllCovered'
  BY <1>1, <1>5, CrashCovered
<1> QED
  BY <1>2, <1>3, <1>4, <1>5 DEF Next

\* Every stage file is on the list in every behaviour.
LEMMA AlwaysCovered == Spec => []AllCovered
<1>1. Init => AllCovered
  BY InitCovered
<1>2. Typed /\ AllCovered /\ [Next]_vars => AllCovered'
  BY NextCovered
<1> QED
  BY <1>1, <1>2, TypedCorrect, PTL DEF Spec

----------------------------------------------------------------------------
\* execute_script never puts a file in its stage directory that
\* cleanup_stage_dir would not know of, whatever fails or is killed.
THEOREM StageFilesAreManaged == Spec => []StageFilesManaged
<1>1. AllCovered => StageFilesManaged
  BY DEF AllCovered, Covered, StageFilesManaged
<1> QED
  BY <1>1, AlwaysCovered, PTL

\* When execute_script returns, its stage directory and its output buffer are
\* gone, whatever failed, unless a remove failed in the cleanup itself.
THEOREM NothingIsLeftBehind == Spec => []NoResidue
<1>1. AllCovered => NoResidue
  BY DEF AllCovered, Covered, NoResidue
<1> QED
  BY <1>1, AlwaysCovered, PTL

----------------------------------------------------------------------------
(***************************************************************************)
(* No table is lost and a failed script changes none: what is true of      *)
(* processes of which none writes what another uses, whose tables do not   *)
(* have the names commit_staged_csvs uses, and whose failures are among    *)
(* those the code undoes.  One process alone is the simplest case.         *)
(*                                                                         *)
(* And a table that is lost after other failures is reported as one.       *)
(***************************************************************************)
\* The failures after which commit_staged_csvs or rollback_committed_csvs
\* gives up, and a file_exists that misses a file that is there.
GivesUp == {"exists", "commitCopy", "backup", "restore", "remove"}

NamesFree == \A i \in Index : Rollback(i) \notin TableFiles /\ Commit(i) \notin TableFiles

Undoable == NamesFree /\ FaultPoints \cap GivesUp = {}

ApartAndUndoable == Apart /\ Undoable

\* The calls that do not fail.
LEMMA NoSuchFault ==
  ASSUME Undoable, NEW k \in GivesUp
  PROVE  ~Fault(k)
  BY DEF Undoable, Fault

\* What the label and the error of p become.
LEMMA Moves ==
  ASSUME NEW p \in Procs, TypeOK
  PROVE  /\ \A label : Proceed(p, label) => pc'[p] = label /\ err'[p] = err[p]
         /\ \A label, e : Fail(p, e, label) => pc'[p] = label /\ err'[p] = e
  BY DEF TypeOK, Proceed, Fail, Goto

\* A write to one stage file leaves the others as they are.
LEMMA OneStaged ==
  ASSUME NEW p \in Procs, TypeOK, NEW n \in StageFiles, NEW f, PutStaged(p, n, f)
  PROVE  /\ stage'[p][n] = f
         /\ \A m \in StageFiles : m # n => stage'[p][m] = stage[p][m]
  BY DEF TypeOK, PutStaged

\* A write to one live file leaves the others as they are.
LEMMA OneLive ==
  ASSUME TypeOK, NEW n \in TableFiles, NEW f, PutLive(n, f)
  PROVE  /\ live'[n] = f
         /\ \A m \in TableFiles : m # n => live'[m] = live[m]
  BY DEF TypeOK, PutLive, DataDir

\* What a process may write it may use, and it may use files of tables.
LEMMA UsesNames ==
  ASSUME NEW p \in Procs
  PROVE  Writes(p) \subseteq Uses(p) /\ Uses(p) \subseteq TableFiles
  BY DEF Writes, Uses

\* The touched CSV files have stage copies.
LEMMA TouchedNames ==
  ASSUME NEW p \in Procs, TypeOK, NEW k \in DOMAIN touched[p]
  PROVE  touched[p][k] \in CsvFiles /\ touched[p][k] \in TableFiles /\ touched[p][k] \in StageFiles
<1>1. touched[p] \in Seq(CsvFiles)
  BY DEF TypeOK
<1>2. touched[p][k] \in CsvFiles
  BY <1>1, ElementOfSeq, LenProperties
<1> QED
  BY <1>2, StageNames

\* A process that has not begun, or no further than its buffer.
Unbegun(p) ==
  /\ pc[p] \in {"mkdir", "buffer"} /\ idx[p] = 1 /\ err[p] = "none" /\ out[p] = <<>>
  /\ touched[p] = <<>> /\ hadOriginal[p] = {}
  /\ \A n \in StageFiles : stage[p][n] = NoFile

LEMMA InitUnbegun ==
  ASSUME Init, NEW p \in Procs
  PROVE  Unbegun(p)
  BY DEF Init, Unbegun

\* To begin with every original is in place.
LEMMA UnbegunGuarded ==
  ASSUME NEW p \in Procs, NEW d \in DataDir, Unbegun(p), AsFound(p, d)
  PROVE  Guarded(p, d)
<1>1. pc[p] \in {"mkdir", "buffer"} /\ touched[p] = <<>> /\ err[p] = "none"
  BY DEF Unbegun
<1>2. hadOriginal[p] = {} /\ AsFound(p, d)
  BY DEF Unbegun
<1>3. TouchedStaged(p)
  BY <1>1 DEF TouchedStaged, Touched
<1>4. ErrorInStep(p)
  BY <1>1 DEF ErrorInStep, UndoLabels
<1>5. OriginalsKept(p, d)
  BY <1>1, <1>2 DEF OriginalsKept, CommitLabels, UndoLabels
<1> QED
  BY <1>3, <1>4, <1>5 DEF Guarded

----------------------------------------------------------------------------
(***************************************************************************)
(* Before the commit.                                                      *)
(***************************************************************************)
\* A step of the stage, or one that ends the script before the commit.
LEMMA EarlyGuarded ==
  ASSUME NEW p \in Procs, NEW d \in DataDir, Guarded(p, d), pc[p] \in EarlyLabels,
         UNCHANGED <<live, orig, hadOriginal, touched>>,
         \/ pc'[p] \in EarlyLabels /\ err'[p] = err[p]
         \/ pc'[p] \in {"cleanup", "done"},
         \A k \in DOMAIN touched[p] : stage'[p][touched[p][k]] # NoFile
  PROVE  Guarded(p, d)'
<1> USE DEF EarlyLabels, StatementLabels, CommitLabels, UndoLabels, Labels
<1>1. TouchedStaged(p)'
  BY DEF Guarded, TouchedStaged, Touched
<1>2. ErrorInStep(p)'
  BY DEF Guarded, ErrorInStep
<1>3. OriginalsKept(p, d)'
  BY DEF Guarded, OriginalsKept, AsFound
<1> QED
  BY <1>1, <1>2, <1>3 DEF Guarded

\* The touched files are staged as long as the script is not cleaned up.
LEMMA StillStaged ==
  ASSUME NEW p \in Procs, NEW d \in DataDir, TypeOK, Guarded(p, d), pc[p] \notin {"cleanup", "done"},
         \/ UNCHANGED stage
         \/ \E n \in StageFiles, f \in Content : PutStaged(p, n, f)
  PROVE  \A k \in DOMAIN touched[p] : stage'[p][touched[p][k]] # NoFile
<1> SUFFICES ASSUME NEW k \in DOMAIN touched[p]
             PROVE  stage'[p][touched[p][k]] # NoFile
  OBVIOUS
<1>1. stage[p][touched[p][k]] # NoFile
  BY DEF Guarded, TouchedStaged, Touched
<1>2. ASSUME NEW n \in StageFiles, NEW f \in Content, PutStaged(p, n, f)
      PROVE  stage'[p][touched[p][k]] # NoFile
  BY <1>1, <1>2, OneStaged, TouchedNames, NoFileIsNoContent
<1> QED
  BY <1>1, <1>2

\* create_stage_dir keeps every original where it can be found.
LEMMA MakeStageDirGuarded ==
  ASSUME NEW p \in Procs, NEW d \in DataDir, Typed, Guarded(p, d), MakeStageDir(p)
  PROVE  Guarded(p, d)'
<1>1. TypeOK /\ pc[p] = "mkdir"
  BY DEF Typed, MakeStageDir
<1>2. UNCHANGED <<live, orig, hadOriginal, touched, stage>>
  BY DEF MakeStageDir, program, lists
<1>3. (pc'[p] = "buffer" /\ err'[p] = err[p]) \/ pc'[p] = "done"
  BY <1>1, Moves DEF MakeStageDir
<1> QED
  BY <1>1, <1>2, <1>3, StillStaged, EarlyGuarded DEF EarlyLabels

\* create_temp_file_in_dir keeps every original where it can be found.
LEMMA OpenBufferGuarded ==
  ASSUME NEW p \in Procs, NEW d \in DataDir, Typed, Guarded(p, d), OpenBuffer(p)
  PROVE  Guarded(p, d)'
<1>1. TypeOK /\ pc[p] = "buffer"
  BY DEF Typed, OpenBuffer
<1>2. UNCHANGED <<live, orig, hadOriginal, touched, stage>>
  BY DEF OpenBuffer, program, lists
<1>3. (pc'[p] \in {"stageCsv", "exec"} /\ err'[p] = err[p]) \/ pc'[p] = "cleanup"
  BY <1>1, Moves DEF OpenBuffer, FirstLabel
<1> QED
  BY <1>1, <1>2, <1>3, StillStaged, EarlyGuarded DEF EarlyLabels, StatementLabels

\* ensure_staged_table, recording the names, keeps every original where it can be found.
LEMMA StageCsvGuarded ==
  ASSUME NEW p \in Procs, NEW d \in DataDir, Typed, Guarded(p, d), StageCsv(p)
  PROVE  Guarded(p, d)'
<1>1. TypeOK /\ pc[p] = "stageCsv"
  BY DEF Typed, StageCsv
<1>2. UNCHANGED <<live, orig, hadOriginal, touched, stage>>
  BY DEF StageCsv, program, lists
<1>3. pc'[p] \in {"copyCsv", "stageSchema"} /\ err'[p] = err[p]
  BY <1>1, Moves DEF StageCsv, CopyLabel
<1> QED
  BY <1>1, <1>2, <1>3, StillStaged, EarlyGuarded DEF EarlyLabels, StatementLabels

\* ensure_staged_table, copying the CSV file, keeps every original where it can be found.
LEMMA CopyCsvGuarded ==
  ASSUME NEW p \in Procs, NEW d \in DataDir, Typed, Guarded(p, d), CopyCsv(p)
  PROVE  Guarded(p, d)'
<1> DEFINE n == Csv(Stmt(p).table)
<1>1. TypeOK /\ ListsInStep /\ pc[p] = "copyCsv"
  BY DEF Typed, CopyCsv
<1>2. UNCHANGED <<live, orig, hadOriginal, touched>>
  BY DEF CopyCsv, program, lists
<1>3. (pc'[p] = "stageSchema" /\ err'[p] = err[p]) \/ pc'[p] = "cleanup"
  BY <1>1, Moves DEF CopyCsv
<1>4. n \in TableFiles /\ n \in StageFiles
  BY <1>1, StmtAtHand, StageNames DEF StatementLabels
<1>5. /\ live[n] # NoFile => live[n] \in Content
      /\ stage[p][n] # NoFile => stage[p][n] \in Content
      /\ <<>> \in Content
  BY <1>1, <1>4 DEF TypeOK, DataDir, File, Content
<1>6. \A k \in DOMAIN touched[p] : stage'[p][touched[p][k]] # NoFile
  <2>1. CASE UNCHANGED stage \/ \E f \in Content : PutStaged(p, n, f)
    BY <1>1, <1>4, <2>1, StillStaged
  <2>2. CASE stage[p][n] = NoFile /\ PutStaged(p, n, stage[p][n])
    <3>1. stage'[p] = stage[p]
      BY <1>1, <1>4, <2>2 DEF PutStaged, TypeOK
    <3> QED
      BY <1>1, <3>1 DEF Guarded, TouchedStaged, Touched
  <2> QED
    BY <1>5, <2>1, <2>2 DEF CopyCsv
<1> QED
  BY <1>1, <1>2, <1>3, <1>6, EarlyGuarded DEF EarlyLabels, StatementLabels

\* ensure_staged_table, copying the schema file, keeps every original where it can be found.
LEMMA StageSchemaGuarded ==
  ASSUME NEW p \in Procs, NEW d \in DataDir, Undoable, Typed, Guarded(p, d), StageSchema(p)
  PROVE  Guarded(p, d)'
<1> DEFINE n == Schema(Stmt(p).table)
<1>1. TypeOK /\ ListsInStep /\ pc[p] = "stageSchema"
  BY DEF Typed, StageSchema
<1>2. UNCHANGED <<live, orig, hadOriginal, touched>>
  BY DEF StageSchema, program, lists
<1>3. (pc'[p] = "exec" /\ err'[p] = err[p]) \/ pc'[p] = "cleanup"
  BY <1>1, Moves DEF StageSchema
<1>4. n \in TableFiles /\ n \in StageFiles
  BY <1>1, StmtAtHand, StageNames DEF StatementLabels
<1>5. /\ live[n] # NoFile => live[n] \in Content
      /\ <<>> \in Content
  BY <1>1, <1>4 DEF TypeOK, DataDir, File, Content
<1>6. \A k \in DOMAIN touched[p] : stage'[p][touched[p][k]] # NoFile
  <2>1. ~Fault("exists")
    BY NoSuchFault DEF GivesUp
  <2>2. CASE UNCHANGED stage \/ \E f \in Content : PutStaged(p, n, f)
    BY <1>1, <1>4, <2>2, StillStaged
  <2>3. CASE stage[p][n] = NoFile /\ PutStaged(p, n, NoFile)
    <3>1. stage'[p] = stage[p]
      BY <1>1, <1>4, <2>3 DEF PutStaged, TypeOK
    <3> QED
      BY <1>1, <3>1 DEF Guarded, TouchedStaged, Touched
  <2> QED
    BY <1>5, <2>1, <2>2, <2>3 DEF StageSchema, WantsCopy
<1> QED
  BY <1>1, <1>2, <1>3, <1>6, EarlyGuarded DEF EarlyLabels, StatementLabels

\* append_unique_string adds a name once and keeps the others.
LEMMA AppendUniqueKeeps ==
  ASSUME NEW S, NEW s \in Seq(S), NEW n \in S,
         \A j, k \in DOMAIN s : s[j] = s[k] => j = k
  PROVE  LET t == AppendUnique(s, n)
         IN  /\ \A j, k \in DOMAIN t : t[j] = t[k] => j = k
             /\ \A k \in DOMAIN t : t[k] = n \/ \E j \in DOMAIN s : t[k] = s[j]
<1>1. CASE \E k \in DOMAIN s : s[k] = n
  BY <1>1 DEF AppendUnique
<1>2. CASE ~ \E k \in DOMAIN s : s[k] = n
  <2> DEFINE t == Append(s, n)
  <2>1. AppendUnique(s, n) = t
    BY <1>2 DEF AppendUnique
  <2>2. /\ DOMAIN s = 1 .. Len(s) /\ Len(s) \in Nat
        /\ DOMAIN t = 1 .. (Len(s) + 1)
        /\ t[Len(s) + 1] = n
        /\ \A k \in DOMAIN s : t[k] = s[k]
    BY AppendProperties
  <2>3. \A k \in DOMAIN t : k \in DOMAIN s \/ k = Len(s) + 1
    BY <2>2
  <2> HIDE DEF t
  <2> QED
    BY <1>2, <2>1, <2>2, <2>3
<1> QED
  BY <1>1, <1>2

\* A script that has come to its end finds the tables as they were.
LEMMA ReadyToCommit ==
  ASSUME NEW p \in Procs, NEW d \in DataDir, Guarded(p, d), pc[p] \in EarlyLabels, committed'[p] = 0,
         UNCHANGED <<live, orig, hadOriginal>>, TouchedStaged(p)',
         pc'[p] \in {"commitCopy", "flush"}, err'[p] = err[p]
  PROVE  Guarded(p, d)'
<1> USE DEF EarlyLabels, StatementLabels, CommitLabels, UndoLabels, Labels
<1>1. AsFound(p, d) /\ hadOriginal[p] = {}
  BY DEF Guarded, OriginalsKept
<1>2. ErrorInStep(p)'
  BY DEF Guarded, ErrorInStep
<1>3. RestAsFound(p, d, committed[p])'
  BY <1>1 DEF AsFound, RestAsFound
<1>4. OriginalsKept(p, d)'
  BY <1>1, <1>3 DEF OriginalsKept
<1> QED
  BY <1>2, <1>4 DEF Guarded

\* A statement that takes effect writes a stage file and nothing else.
LEMMA PerformGuarded ==
  ASSUME NEW p \in Procs, NEW d \in DataDir, TypeOK, ListsInStep, Guarded(p, d), pc[p] = "exec",
         NEW s \in File, NEW c \in File, Perform(p, s, c), script[p] \in ScriptsOf[p],
         UNCHANGED <<live, orig, script, committed, hadOriginal>>
  PROVE  Guarded(p, d)'
<1> DEFINE n == Csv(Stmt(p).table)
<1>1. n \in CsvFiles /\ n \in StageFiles /\ Stmt(p) \in Statement
  BY StmtAtHand, StageNames DEF StatementLabels
<1>2. FileAfter(s, c, Stmt(p)) \in File
  BY <1>1, StatementTypes DEF Perform
<1>3. touched[p] \in Seq(CsvFiles)
  BY DEF TypeOK
<1>4. pc'[p] = NextLabel(p) /\ err'[p] = err[p]
  BY Moves DEF Perform
<1>5. pc'[p] \in {"stageCsv", "exec", "commitCopy", "flush"}
  <2>1. idx[p] \in Nat /\ Len(script[p]) \in Nat
    BY LenProperties DEF TypeOK
  <2> QED
    BY <1>4, <2>1 DEF NextLabel, FirstLabel
<1>6. TouchedStaged(p)'
  <2>1. /\ Touched(p) \subseteq Writes(p)
        /\ \A j, k \in DOMAIN touched[p] : touched[p][j] = touched[p][k] => j = k
        /\ \A k \in DOMAIN touched[p] : stage[p][touched[p][k]] # NoFile
    BY DEF Guarded, TouchedStaged, Touched
  <2>2. CASE Stmt(p).kind = "INSERT"
    <3>1. touched'[p] = AppendUnique(touched[p], n)
      BY <2>2 DEF Perform, TypeOK
    <3>2. stage'[p][n] = FileAfter(s, c, Stmt(p))
          /\ \A m \in StageFiles : m # n => stage'[p][m] = stage[p][m]
      BY <1>1, <2>2, OneStaged DEF Perform
    <3>3. FileAfter(s, c, Stmt(p)) # NoFile
      BY <1>1, <2>2, AppendedFileType, NoFileIsNoContent DEF Perform, Accepts, FileAfter
    <3>4. /\ \A j, k \in DOMAIN touched'[p] : touched'[p][j] = touched'[p][k] => j = k
          /\ \A k \in DOMAIN touched'[p] :
               touched'[p][k] = n \/ \E j \in DOMAIN touched[p] : touched'[p][k] = touched[p][j]
      BY <1>1, <1>3, <2>1, <3>1, AppendUniqueKeeps
    <3>5. \A k \in DOMAIN touched'[p] : stage'[p][touched'[p][k]] # NoFile
      BY <2>1, <3>2, <3>3, <3>4, TouchedNames
    <3>6. n \in Writes(p)
      <4>1. idx[p] \in DOMAIN script[p]
        BY LenProperties DEF TypeOK, ListsInStep, InStep, EarlyLabels, StatementLabels
      <4> QED
        BY <1>1, <2>2, <4>1, StageNames DEF Writes, Stmt
    <3>7. Touched(p)' \subseteq Writes(p)
      BY <2>1, <3>4, <3>6 DEF Touched
    <3> QED
      BY <3>4, <3>5, <3>7 DEF TouchedStaged
  <2>3. CASE Stmt(p).kind # "INSERT"
    <3>1. touched'[p] = touched[p] /\ stage'[p] = stage[p]
      BY <2>3 DEF Perform
    <3> QED
      BY <2>1, <3>1 DEF TouchedStaged, Touched
  <2> QED
    BY <2>2, <2>3
<1>7. CASE pc'[p] \in {"commitCopy", "flush"}
  <2>1. committed'[p] = 0
    BY DEF ListsInStep, InStep, EarlyLabels, StatementLabels
  <2> QED
    BY <1>4, <1>6, <1>7, <2>1, ReadyToCommit DEF EarlyLabels, StatementLabels
<1>8. CASE pc'[p] \in {"stageCsv", "exec"}
  <2> USE DEF EarlyLabels, StatementLabels, CommitLabels, UndoLabels, Labels
  <2>1. ErrorInStep(p)'
    BY <1>4, <1>8 DEF Guarded, ErrorInStep
  <2>2. OriginalsKept(p, d)'
    BY <1>8 DEF Guarded, OriginalsKept, AsFound
  <2> QED
    BY <1>6, <2>1, <2>2 DEF Guarded
<1> QED
  BY <1>5, <1>7, <1>8

\* execute_statement_unstaged keeps every original where it can be found.
LEMMA ExecuteStatementGuarded ==
  ASSUME NEW p \in Procs, NEW d \in DataDir, Typed, Guarded(p, d), script[p] \in ScriptsOf[p],
         ExecuteStatement(p)
  PROVE  Guarded(p, d)'
<1> DEFINE n == Csv(Stmt(p).table)
           s == ExecDir(p)[Schema(Stmt(p).table)]
           c == ExecDir(p)[n]
<1>1. TypeOK /\ ListsInStep /\ pc[p] = "exec"
  BY DEF Typed, ExecuteStatement
<1>2. s \in File /\ c \in File /\ NoFile \in File /\ n \in StageFiles
  BY <1>1, StmtAtHand, StageNames, ExecDirType DEF StatementLabels, File
<1>3. UNCHANGED <<live, orig, script, committed, hadOriginal>>
  BY DEF ExecuteStatement, program
<1>4. CASE \E f \in {c, NoFile} : Perform(p, s, f)
  BY <1>1, <1>2, <1>3, <1>4, PerformGuarded
<1>5. CASE /\ \E e : Fail(p, e, "cleanup")
           /\ UNCHANGED touched
           /\ UNCHANGED stage \/ PutStaged(p, n, TornFile(c))
  <2>1. TornFile(c) \in Content
    BY <1>2, AppendProperties, EmptySeq DEF TornFile, File, Content, Record
  <2>2. pc'[p] = "cleanup"
    BY <1>1, <1>5, Moves
  <2> QED
    BY <1>1, <1>2, <1>3, <1>5, <2>1, <2>2, StillStaged, EarlyGuarded
       DEF EarlyLabels, StatementLabels
<1> QED
  BY <1>4, <1>5 DEF ExecuteStatement, Reject

----------------------------------------------------------------------------
(***************************************************************************)
(* The commit.                                                             *)
(***************************************************************************)
\* The reserved names of one table are not those of another, and not a table's.
LEMMA ReservedApart ==
  ASSUME NEW p \in Procs, NEW d \in DataDir, Undoable, Typed, Guarded(p, d), pc[p] \in CommitLabels
  PROVE  /\ committed[p] \in Nat
         /\ committed[p] + 1 \in DOMAIN touched[p]
         /\ Target(p) \in Uses(p) /\ Target(p) \in TableFiles /\ Target(p) \in StageFiles
         /\ Backup(p) \in StageFiles /\ Temp(p) \in StageFiles /\ Backup(p) # Temp(p)
         /\ \A k \in DOMAIN touched[p] : /\ touched[p][k] \in StageFiles
                                         /\ touched[p][k] # Backup(p)
                                         /\ touched[p][k] # Temp(p)
         /\ \A k \in 1 .. committed[p] : /\ k \in DOMAIN touched[p]
                                         /\ touched[p][k] # Target(p)
                                         /\ Rollback(k - 1) \in StageFiles
                                         /\ Rollback(k - 1) # Backup(p)
                                         /\ Rollback(k - 1) # Temp(p)
<1>1. TypeOK /\ ListsInStep
  BY DEF Typed
<1>2. /\ committed[p] \in Nat /\ committed[p] \in Index
      /\ committed[p] + 1 <= Len(touched[p])
      /\ Target(p) \in CsvFiles
      /\ Backup(p) \in StageFiles /\ Temp(p) \in StageFiles
  BY <1>1, FileInHand DEF Index
<1>3. DOMAIN touched[p] = 1 .. Len(touched[p]) /\ Len(touched[p]) \in Nat
  BY <1>1, LenProperties DEF TypeOK
<1>4. committed[p] + 1 \in DOMAIN touched[p]
  BY <1>2, <1>3
<1>5. Target(p) \in Uses(p) /\ Target(p) \in TableFiles /\ Target(p) \in StageFiles
  BY <1>2, <1>4, StageNames, UsesNames DEF Guarded, TouchedStaged, Touched, Target
<1>6. Backup(p) # Temp(p)
  BY <1>2, ReservedNamesDistinct DEF Backup, Temp
<1>7. \A k \in DOMAIN touched[p] : /\ touched[p][k] \in StageFiles
                                   /\ touched[p][k] # Backup(p)
                                   /\ touched[p][k] # Temp(p)
  BY <1>1, <1>2, TouchedNames DEF Undoable, NamesFree, Backup, Temp
<1>8. ASSUME NEW k \in 1 .. committed[p]
      PROVE  /\ k \in DOMAIN touched[p]
             /\ touched[p][k] # Target(p)
             /\ Rollback(k - 1) \in StageFiles
             /\ Rollback(k - 1) # Backup(p)
             /\ Rollback(k - 1) # Temp(p)
  <2>1. k \in DOMAIN touched[p] /\ k # committed[p] + 1
    BY <1>2, <1>3
  <2>2. touched[p][k] # Target(p)
    BY <1>4, <2>1 DEF Guarded, TouchedStaged, Touched, Target
  <2>3. k - 1 \in Index /\ k - 1 # committed[p]
    BY <1>2, MaxStatementsIsPositive DEF Index
  <2>4. Rollback(k - 1) \in StageFiles
    BY <2>3, StageNames
  <2>5. Rollback(k - 1) # Backup(p) /\ Rollback(k - 1) # Temp(p)
    BY <1>2, <2>3, ReservedNamesDistinct DEF Backup, Temp
  <2> QED
    BY <2>1, <2>2, <2>4, <2>5
<1> QED
  BY <1>2, <1>4, <1>5, <1>6, <1>7, <1>8

\* What the commit knows of the tables it has committed: it stays so while
\* their backups do.
LEMMA KeptStays ==
  ASSUME NEW p \in Procs, NEW d \in DataDir, NEW k, Kept(p, d, k), UNCHANGED <<orig, touched>>,
         k - 1 \in hadOriginal[p] <=> k - 1 \in hadOriginal'[p],
         stage'[p][Rollback(k - 1)] = stage[p][Rollback(k - 1)]
  PROVE  Kept(p, d, k)'
  BY DEF Kept

\* commit_staged_csvs, copying to __commit_<i>.csv, keeps every original where it can be found.
LEMMA CommitCopyGuarded ==
  ASSUME NEW p \in Procs, NEW d \in DataDir, Undoable, Typed, Guarded(p, d), CommitCopy(p)
  PROVE  Guarded(p, d)'
<1> USE DEF EarlyLabels, StatementLabels, CommitLabels, UndoLabels, Labels
<1>1. TypeOK /\ pc[p] = "commitCopy"
  BY DEF Typed, CommitCopy
<1>2. UNCHANGED <<live, orig, touched, committed, hadOriginal>>
  BY DEF CommitCopy, program, lists
<1>3. /\ pc'[p] = "commitCheck" /\ err'[p] = err[p]
      /\ PutStaged(p, Temp(p), CopiedForCommit(p))
  <2>1. ~Fault("commitCopy")
    BY NoSuchFault DEF GivesUp
  <2>2. stage[p][Target(p)] # NoFile
    BY <1>1, ReservedApart DEF Guarded, TouchedStaged, Touched, Target
  <2> QED
    BY <1>1, <2>1, <2>2, Moves DEF CommitCopy
<1>4. CopiedForCommit(p) = stage[p][Target(p)] /\ stage[p][Target(p)] # NoFile
  BY <1>1, ReservedApart DEF Guarded, TouchedStaged, Touched, Target, CopiedForCommit
<1>5. \A m \in StageFiles : m # Temp(p) => stage'[p][m] = stage[p][m]
  BY <1>1, <1>3, ReservedApart, OneStaged
<1>6. TouchedStaged(p)'
  BY <1>1, <1>2, <1>5, ReservedApart DEF Guarded, TouchedStaged, Touched
<1>7. ErrorInStep(p)'
  BY <1>1, <1>3 DEF Guarded, ErrorInStep
<1>8. \A k \in 1 .. committed[p] : Kept(p, d, k)'
  BY <1>1, <1>2, <1>5, ReservedApart, KeptStays DEF Guarded, OriginalsKept
<1>9. RestAsFound(p, d, committed[p])'
  BY <1>1, <1>2 DEF Guarded, OriginalsKept, RestAsFound
<1>10. hadOriginal'[p] \subseteq 0 .. (committed'[p] - 1)
  BY <1>1, <1>2 DEF Guarded, OriginalsKept
<1>11. OriginalsKept(p, d)'
  BY <1>2, <1>3, <1>8, <1>9, <1>10 DEF OriginalsKept
<1> QED
  BY <1>6, <1>7, <1>11 DEF Guarded

\* commit_staged_csvs, looking for an original, keeps every original where it can be found.
LEMMA CommitCheckGuarded ==
  ASSUME NEW p \in Procs, NEW d \in DataDir, Undoable, Typed, Guarded(p, d), CommitCheck(p)
  PROVE  Guarded(p, d)'
<1> USE DEF EarlyLabels, StatementLabels, CommitLabels, UndoLabels, Labels
<1>1. TypeOK /\ pc[p] = "commitCheck" /\ committed[p] \in Nat
  BY ReservedApart DEF Typed, CommitCheck
<1>2. UNCHANGED <<live, orig, stage, touched, committed>>
  BY DEF CommitCheck, program
<1>3. ~Fault("exists")
  BY NoSuchFault DEF GivesUp
<1>4. \/ /\ live[Target(p)] # NoFile
         /\ hadOriginal'[p] = hadOriginal[p] \cup {committed[p]}
         /\ pc'[p] = "backup"
      \/ /\ live[Target(p)] = NoFile
         /\ hadOriginal' = hadOriginal
         /\ pc'[p] = "replace"
  BY <1>1, <1>3, Moves DEF CommitCheck, TypeOK
<1>5. err'[p] = err[p]
  BY <1>1, Moves DEF CommitCheck
<1>6. hadOriginal[p] \subseteq 0 .. (committed[p] - 1)
  BY <1>1 DEF Guarded, OriginalsKept
<1>7. TouchedStaged(p)' /\ ErrorInStep(p)'
  BY <1>1, <1>2, <1>4, <1>5 DEF Guarded, TouchedStaged, Touched, ErrorInStep
<1>8. \A k \in 1 .. committed[p] : Kept(p, d, k)'
  <2> SUFFICES ASSUME NEW k \in 1 .. committed[p]
               PROVE  Kept(p, d, k)'
    OBVIOUS
  <2>1. k - 1 # committed[p]
    BY <1>1
  <2> QED
    BY <1>1, <1>2, <1>4, <2>1, KeptStays DEF Guarded, OriginalsKept
<1>9. RestAsFound(p, d, committed[p])
  BY <1>1 DEF Guarded, OriginalsKept
<1>10. live[Target(p)] = d[Target(p)]
  BY <1>1, <1>9, ReservedApart DEF RestAsFound
<1>11. Target(p)' = Target(p)
  BY <1>2 DEF Target
<1>12. CASE pc'[p] = "backup"
  <2>1. hadOriginal'[p] \subseteq 0 .. committed[p] /\ committed[p] \in hadOriginal'[p]
    BY <1>1, <1>4, <1>6, <1>12
  <2>2. RestAsFound(p, d, committed[p])'
    BY <1>2, <1>9 DEF RestAsFound
  <2>3. OriginalsKept(p, d)'
    BY <1>2, <1>4, <1>8, <1>11, <1>12, <2>1, <2>2 DEF OriginalsKept
  <2> QED
    BY <1>7, <2>3 DEF Guarded
<1>13. CASE pc'[p] = "replace"
  <2>1. hadOriginal'[p] \subseteq 0 .. committed[p] /\ committed[p] \notin hadOriginal'[p]
    BY <1>1, <1>4, <1>6, <1>13
  <2>2. RestAsFound(p, d, committed[p] + 1)'
    BY <1>1, <1>2, <1>9 DEF RestAsFound
  <2>3. KeptInHand(p, d)'
    BY <1>2, <1>4, <1>10, <1>11, <1>13, <2>1 DEF KeptInHand
  <2>4. live'[Target(p)'] = NoFile
    BY <1>2, <1>4, <1>11, <1>13
  <2>5. OriginalsKept(p, d)'
    BY <1>2, <1>8, <1>13, <2>1, <2>2, <2>3, <2>4 DEF OriginalsKept
  <2> QED
    BY <1>7, <2>5 DEF Guarded
<1> QED
  BY <1>4, <1>12, <1>13

\* commit_staged_csvs, moving the original away, keeps every original where it can be found.
LEMMA BackUpOriginalGuarded ==
  ASSUME NEW p \in Procs, NEW d \in DataDir, Undoable, Typed, Guarded(p, d), BackUpOriginal(p)
  PROVE  Guarded(p, d)'
<1> USE DEF EarlyLabels, StatementLabels, CommitLabels, UndoLabels, Labels
<1>1. TypeOK /\ pc[p] = "backup" /\ committed[p] \in Nat
  BY ReservedApart DEF Typed, BackUpOriginal
<1>2. UNCHANGED <<orig, touched, committed, hadOriginal>>
  BY DEF BackUpOriginal, program, lists
<1>3. /\ hadOriginal[p] \subseteq 0 .. committed[p]
      /\ committed[p] \in hadOriginal[p]
      /\ live[Target(p)] # NoFile
      /\ RestAsFound(p, d, committed[p])
      /\ \A k \in 1 .. committed[p] : Kept(p, d, k)
  BY <1>1 DEF Guarded, OriginalsKept
<1>4. /\ pc'[p] = "replace" /\ err'[p] = err[p]
      /\ PutStaged(p, Backup(p), live[Target(p)])
      /\ PutLive(Target(p), NoFile)
  <2>1. ~Fault("backup")
    BY NoSuchFault DEF GivesUp
  <2> QED
    BY <1>1, <1>3, <2>1, Moves DEF BackUpOriginal
<1>5. /\ stage'[p][Backup(p)] = live[Target(p)]
      /\ \A m \in StageFiles : m # Backup(p) => stage'[p][m] = stage[p][m]
  BY <1>1, <1>4, ReservedApart, OneStaged
<1>6. /\ live'[Target(p)] = NoFile
      /\ \A m \in TableFiles : m # Target(p) => live'[m] = live[m]
  BY <1>1, <1>4, ReservedApart, OneLive
<1>7. TouchedStaged(p)'
  BY <1>1, <1>2, <1>5, ReservedApart DEF Guarded, TouchedStaged, Touched
<1>8. ErrorInStep(p)'
  BY <1>1, <1>4 DEF Guarded, ErrorInStep
<1>9. \A k \in 1 .. committed[p] : Kept(p, d, k)'
  BY <1>1, <1>2, <1>3, <1>5, ReservedApart, KeptStays
<1>10. Target(p)' = Target(p) /\ Backup(p)' = Backup(p)
  BY <1>2 DEF Target, Backup
<1>11. live[Target(p)] = d[Target(p)]
  BY <1>1, <1>3, ReservedApart DEF RestAsFound
<1>12. KeptInHand(p, d)'
  BY <1>2, <1>3, <1>5, <1>10, <1>11 DEF KeptInHand
<1>13. RestAsFound(p, d, committed[p] + 1)'
  <2> SUFFICES ASSUME NEW n \in Uses(p), \A k \in 1 .. (committed[p] + 1) : touched[p][k] # n
               PROVE  live'[n] = d[n]
    BY <1>2 DEF RestAsFound
  <2>1. n # Target(p)
    BY <1>1 DEF Target
  <2>2. \A k \in 1 .. committed[p] : touched[p][k] # n
    BY <1>1
  <2> QED
    BY <1>3, <1>6, <2>1, <2>2, UsesNames DEF RestAsFound
<1>14. OriginalsKept(p, d)'
  BY <1>2, <1>3, <1>4, <1>6, <1>9, <1>10, <1>12, <1>13 DEF OriginalsKept
<1> QED
  BY <1>7, <1>8, <1>14 DEF Guarded

\* commit_staged_csvs, moving the copy into place, keeps every original where it can be found.
LEMMA ReplaceGuarded ==
  ASSUME NEW p \in Procs, NEW d \in DataDir, Undoable, Typed, Guarded(p, d), Replace(p)
  PROVE  Guarded(p, d)'
<1> USE DEF EarlyLabels, StatementLabels, CommitLabels, UndoLabels, Labels
<1>1. TypeOK /\ pc[p] = "replace" /\ committed[p] \in Nat
  BY ReservedApart DEF Typed, Replace
<1>2. UNCHANGED <<orig, touched, hadOriginal>>
  BY DEF Replace, program
<1>3. /\ hadOriginal[p] \subseteq 0 .. committed[p]
      /\ live[Target(p)] = NoFile
      /\ RestAsFound(p, d, committed[p] + 1)
      /\ KeptInHand(p, d)
      /\ \A k \in 1 .. committed[p] : Kept(p, d, k)
  BY <1>1 DEF Guarded, OriginalsKept
<1>4. CASE /\ PutLive(Target(p), stage[p][Temp(p)])
           /\ PutStaged(p, Temp(p), NoFile)
           /\ committed' = [committed EXCEPT ![p] = @ + 1]
           /\ Proceed(p, IF committed[p] + 1 < Len(touched[p]) THEN "commitCopy" ELSE "flush")
  <2>1. pc'[p] \in {"commitCopy", "flush"} /\ err'[p] = err[p]
    BY <1>1, <1>4, Moves
  <2>2. committed'[p] = committed[p] + 1
    BY <1>1, <1>4 DEF TypeOK
  <2>3. \A m \in StageFiles : m # Temp(p) => stage'[p][m] = stage[p][m]
    BY <1>1, <1>4, ReservedApart, OneStaged
  <2>4. \A m \in TableFiles : m # Target(p) => live'[m] = live[m]
    BY <1>1, <1>4, ReservedApart, OneLive
  <2>5. TouchedStaged(p)'
    BY <1>1, <1>2, <2>3, ReservedApart DEF Guarded, TouchedStaged, Touched
  <2>6. ErrorInStep(p)'
    BY <1>1, <2>1 DEF Guarded, ErrorInStep
  <2>7. ASSUME NEW k \in 1 .. committed'[p]
        PROVE  Kept(p, d, k)'
    <3>1. CASE k \in 1 .. committed[p]
      BY <1>1, <1>2, <1>3, <2>3, <3>1, ReservedApart, KeptStays
    <3>2. CASE k = committed[p] + 1
      <4>1. k - 1 = committed[p] /\ Rollback(k - 1) = Backup(p) /\ touched[p][k] = Target(p)
        BY <1>1, <3>2 DEF Backup, Target
      <4>2. Kept(p, d, k)
        BY <1>3, <4>1 DEF Kept, KeptInHand
      <4>3. stage'[p][Rollback(k - 1)] = stage[p][Rollback(k - 1)]
        BY <1>1, <2>3, <4>1, ReservedApart
      <4> QED
        BY <1>2, <4>2, <4>3, KeptStays
    <3> QED
      BY <1>1, <2>2, <3>1, <3>2
  <2>8. RestAsFound(p, d, committed[p])'
    <3> SUFFICES ASSUME NEW n \in Uses(p),
                        \A k \in 1 .. (committed[p] + 1) : touched[p][k] # n
                 PROVE  live'[n] = d[n]
      BY <1>2, <2>2 DEF RestAsFound
    <3>1. n # Target(p)
      BY <1>1 DEF Target
    <3> QED
      BY <1>3, <2>4, <3>1, UsesNames DEF RestAsFound
  <2>9. hadOriginal'[p] \subseteq 0 .. (committed'[p] - 1)
    BY <1>1, <1>2, <1>3, <2>2
  <2>10. OriginalsKept(p, d)'
    BY <2>1, <2>7, <2>8, <2>9 DEF OriginalsKept
  <2> QED
    BY <2>5, <2>6, <2>10 DEF Guarded
<1>5. CASE /\ Fail(p, "io", IF committed[p] \in hadOriginal[p] THEN "restore" ELSE "rollback")
           /\ UNCHANGED <<live, stage, committed>>
  <2>1. /\ pc'[p] = IF committed[p] \in hadOriginal[p] THEN "restore" ELSE "rollback"
        /\ err'[p] = "io"
    BY <1>1, <1>5, Moves
  <2>2. TouchedStaged(p)' /\ ErrorInStep(p)'
    BY <1>1, <1>2, <1>5, <2>1 DEF Guarded, TouchedStaged, Touched, ErrorInStep
  <2>3. \A k : Kept(p, d, k) => Kept(p, d, k)'
    BY <1>2, <1>5 DEF Kept
  <2>4. CASE committed[p] \in hadOriginal[p]
    <3>1. KeptInHand(p, d)'
      BY <1>2, <1>3, <1>5 DEF KeptInHand, Backup, Target
    <3>2. RestAsFound(p, d, committed[p] + 1)'
      BY <1>2, <1>3, <1>5 DEF RestAsFound
    <3>3. live'[Target(p)'] = NoFile
      BY <1>2, <1>3, <1>5 DEF Target
    <3>4. OriginalsKept(p, d)'
      BY <1>2, <1>3, <1>5, <2>1, <2>3, <2>4, <3>1, <3>2, <3>3 DEF OriginalsKept
    <3> QED
      BY <2>2, <3>4 DEF Guarded
  <2>5. CASE committed[p] \notin hadOriginal[p]
    <3>1. d[Target(p)] = NoFile
      BY <1>3, <2>5 DEF KeptInHand
    <3>2. RestAsFound(p, d, committed[p])'
      <4> SUFFICES ASSUME NEW n \in Uses(p), n # Target(p),
                          \A k \in 1 .. committed[p] : touched[p][k] # n
                   PROVE  live[n] = d[n]
        BY <1>2, <1>3, <1>5, <3>1 DEF RestAsFound
      <4>1. \A k \in 1 .. (committed[p] + 1) : touched[p][k] # n
        BY <1>1 DEF Target
      <4> QED
        BY <1>3, <4>1 DEF RestAsFound
    <3>3. OriginalsKept(p, d)'
      BY <1>2, <1>3, <1>5, <2>1, <2>3, <2>5, <3>2 DEF OriginalsKept
    <3> QED
      BY <2>2, <3>3 DEF Guarded
  <2> QED
    BY <2>4, <2>5
<1> QED
  BY <1>4, <1>5 DEF Replace

----------------------------------------------------------------------------
(***************************************************************************)
(* The rollback, the output and the end.                                   *)
(***************************************************************************)
LEMMA RestoreCurrentGuarded ==
  ASSUME NEW p \in Procs, NEW d \in DataDir, Undoable, Typed, Guarded(p, d), RestoreCurrent(p)
  PROVE  Guarded(p, d)'
<1> USE DEF EarlyLabels, StatementLabels, CommitLabels, UndoLabels, Labels
<1>1. TypeOK /\ pc[p] = "restore" /\ committed[p] \in Nat
  BY ReservedApart DEF Typed, RestoreCurrent
<1>2. UNCHANGED <<orig, touched, committed, hadOriginal>>
  BY DEF RestoreCurrent, program, lists
<1>3. /\ pc'[p] = "rollback" /\ err'[p] = err[p]
      /\ PutLive(Target(p), stage[p][Backup(p)])
      /\ PutStaged(p, Backup(p), NoFile)
  <2>1. ~Fault("restore")
    BY NoSuchFault DEF GivesUp
  <2> QED
    BY <1>1, <2>1, Moves DEF RestoreCurrent
<1>4. /\ RestAsFound(p, d, committed[p] + 1)
      /\ stage[p][Backup(p)] = d[Target(p)]
      /\ \A k \in 1 .. committed[p] : Kept(p, d, k)
  BY <1>1 DEF Guarded, OriginalsKept, KeptInHand
<1>5. \A m \in StageFiles : m # Backup(p) => stage'[p][m] = stage[p][m]
  BY <1>1, <1>3, ReservedApart, OneStaged
<1>6. /\ live'[Target(p)] = d[Target(p)]
      /\ \A m \in TableFiles : m # Target(p) => live'[m] = live[m]
  BY <1>1, <1>3, <1>4, ReservedApart, OneLive
<1>7. TouchedStaged(p)' /\ ErrorInStep(p)'
  BY <1>1, <1>2, <1>3, <1>5, ReservedApart DEF Guarded, TouchedStaged, Touched, ErrorInStep
<1>8. \A k \in 1 .. committed[p] : Kept(p, d, k)'
  BY <1>1, <1>2, <1>4, <1>5, ReservedApart, KeptStays
<1>9. RestAsFound(p, d, committed[p])'
  <2> SUFFICES ASSUME NEW n \in Uses(p), n # Target(p),
                      \A k \in 1 .. committed[p] : touched[p][k] # n
               PROVE  live'[n] = d[n]
    BY <1>2, <1>6 DEF RestAsFound
  <2>1. \A k \in 1 .. (committed[p] + 1) : touched[p][k] # n
    BY <1>1 DEF Target
  <2> QED
    BY <1>4, <1>6, <2>1, UsesNames DEF RestAsFound
<1>10. OriginalsKept(p, d)'
  BY <1>2, <1>3, <1>8, <1>9 DEF OriginalsKept
<1> QED
  BY <1>7, <1>10 DEF Guarded

\* The table a rollback is at, against those before it.
LEMMA UndoneApart ==
  ASSUME NEW p \in Procs, NEW d \in DataDir, Undoable, Typed, Guarded(p, d), committed[p] > 0
  PROVE  /\ committed[p] \in Nat
         /\ committed[p] \in DOMAIN touched[p]
         /\ touched[p][committed[p]] \in TableFiles
         /\ Rollback(committed[p] - 1) \in StageFiles
         /\ \A k \in DOMAIN touched[p] : /\ touched[p][k] \in StageFiles
                                         /\ touched[p][k] # Rollback(committed[p] - 1)
         /\ \A k \in 1 .. (committed[p] - 1) : /\ Rollback(k - 1) \in StageFiles
                                               /\ Rollback(k - 1) # Rollback(committed[p] - 1)
<1>1. TypeOK /\ ListsInStep
  BY DEF Typed
<1>2. /\ committed[p] \in Nat /\ committed[p] - 1 \in Index
      /\ Rollback(committed[p] - 1) \in StageFiles
  <2>1. committed[p] \in 0 .. MaxStatements
    BY <1>1 DEF TypeOK
  <2> QED
    BY <1>1, <2>1, FileToUndo, MaxStatementsIsPositive
<1>3. committed[p] \in DOMAIN touched[p]
  <2>1. touched[p] \in Seq(CsvFiles) /\ committed[p] <= Len(touched[p])
    BY <1>1 DEF TypeOK, ListsInStep, InStep
  <2> QED
    BY <1>2, <2>1
<1>4. \A k \in DOMAIN touched[p] : /\ touched[p][k] \in StageFiles
                                   /\ touched[p][k] # Rollback(committed[p] - 1)
  BY <1>1, <1>2, TouchedNames DEF Undoable, NamesFree
<1>5. ASSUME NEW k \in 1 .. (committed[p] - 1)
      PROVE  Rollback(k - 1) \in StageFiles /\ Rollback(k - 1) # Rollback(committed[p] - 1)
  <2>1. k - 1 \in Index /\ k - 1 # committed[p] - 1
    BY <1>2, MaxStatementsIsPositive DEF Index
  <2> QED
    BY <1>2, <2>1, ReservedNamesDistinct, StageNames
<1> QED
  BY <1>1, <1>2, <1>3, <1>4, <1>5, TouchedNames

\* One table fewer to roll back: its original, or nothing, is in place again.
LEMMA UndoneGuarded ==
  ASSUME NEW p \in Procs, NEW d \in DataDir, Undoable, Typed, Guarded(p, d), committed[p] > 0,
         pc[p] \in {"rollback", "rollbackRemove", "rollbackMove"},
         UNCHANGED <<orig, touched, hadOriginal>>,
         live'[touched[p][committed[p]]] = d[touched[p][committed[p]]],
         \A m \in TableFiles : m # touched[p][committed[p]] => live'[m] = live[m],
         \A m \in StageFiles : m # Rollback(committed[p] - 1) => stage'[p][m] = stage[p][m],
         Undone(p)
  PROVE  Guarded(p, d)'
<1> USE DEF EarlyLabels, StatementLabels, CommitLabels, UndoLabels, Labels
<1> DEFINE n == touched[p][committed[p]]
<1>1. TypeOK /\ committed[p] \in Nat /\ n \in TableFiles
  BY UndoneApart DEF Typed
<1>2. pc'[p] = "rollback" /\ err'[p] = err[p] /\ committed'[p] = committed[p] - 1
  BY <1>1, Moves DEF Undone, TypeOK
<1>3. /\ live'[n] = d[n]
      /\ \A m \in TableFiles : m # n => live'[m] = live[m]
  OBVIOUS
<1>4. TouchedStaged(p)' /\ ErrorInStep(p)'
  BY <1>2, UndoneApart DEF Guarded, TouchedStaged, Touched, ErrorInStep
<1>5. RestAsFound(p, d, committed[p]) /\ \A k \in 1 .. committed[p] : Kept(p, d, k)
  BY DEF Guarded, OriginalsKept
<1>6. \A k \in 1 .. committed'[p] : Kept(p, d, k)'
  <2> SUFFICES ASSUME NEW k \in 1 .. (committed[p] - 1)
               PROVE  Kept(p, d, k)'
    BY <1>2
  <2>1. Kept(p, d, k)
    BY <1>1, <1>5
  <2> QED
    BY <2>1, UndoneApart, KeptStays
<1>7. RestAsFound(p, d, committed[p])'
  <2> SUFFICES ASSUME NEW m \in Uses(p), m # n,
                      \A k \in 1 .. (committed[p] - 1) : touched[p][k] # m
               PROVE  live'[m] = d[m]
    BY <1>2, <1>3 DEF RestAsFound
  <2>1. \A k \in 1 .. committed[p] : touched[p][k] # m
    BY <1>1
  <2> QED
    BY <1>3, <1>5, <2>1, UsesNames DEF RestAsFound
<1>8. OriginalsKept(p, d)'
  BY <1>2, <1>6, <1>7 DEF OriginalsKept
<1> QED
  BY <1>4, <1>8 DEF Guarded

\* Once the committed file is gone its backup is next, or the next table.
LEMMA RemovedGuarded ==
  ASSUME NEW p \in Procs, NEW d \in DataDir, Undoable, Typed, Guarded(p, d), committed[p] > 0,
         pc[p] \in {"rollback", "rollbackRemove"},
         UNCHANGED <<orig, stage, touched, hadOriginal>>,
         live'[touched[p][committed[p]]] = NoFile,
         \A m \in TableFiles : m # touched[p][committed[p]] => live'[m] = live[m],
         Removed(p)
  PROVE  Guarded(p, d)'
<1> USE DEF EarlyLabels, StatementLabels, CommitLabels, UndoLabels, Labels
<1> DEFINE n == touched[p][committed[p]]
<1>1. TypeOK /\ committed[p] \in Nat
  BY UndoneApart DEF Typed
<1>2. RestAsFound(p, d, committed[p]) /\ \A k \in 1 .. committed[p] : Kept(p, d, k)
  BY DEF Guarded, OriginalsKept
<1>3. CASE committed[p] - 1 \in hadOriginal[p]
  <2>1. /\ pc'[p] = "rollbackMove" /\ err'[p] = err[p] /\ UNCHANGED committed
    BY <1>1, <1>3, Moves DEF Removed
  <2>2. TouchedStaged(p)' /\ ErrorInStep(p)'
    BY <2>1 DEF Guarded, TouchedStaged, Touched, ErrorInStep
  <2>3. \A k : Kept(p, d, k) => Kept(p, d, k)'
    BY DEF Kept
  <2>4. RestAsFound(p, d, committed[p])'
    <3> SUFFICES ASSUME NEW m \in Uses(p),
                        \A k \in 1 .. committed[p] : touched[p][k] # m
                 PROVE  live'[m] = d[m]
      BY <2>1 DEF RestAsFound
    <3>1. live'[m] = live[m]
      BY <1>1, UsesNames
    <3> QED
      BY <1>2, <3>1 DEF RestAsFound
  <2>5. OriginalsKept(p, d)'
    BY <1>2, <1>3, <2>1, <2>3, <2>4 DEF OriginalsKept
  <2> QED
    BY <2>2, <2>5 DEF Guarded
<1>4. CASE committed[p] - 1 \notin hadOriginal[p]
  <2>1. d[n] = NoFile
    BY <1>1, <1>2, <1>4 DEF Kept
  <2>2. Undone(p)
    BY <1>4 DEF Removed
  <2> QED
    BY <2>1, <2>2, UndoneGuarded
<1> QED
  BY <1>3, <1>4

\* rollback_committed_csvs, looking for a committed file, keeps every original where it can be found.
LEMMA RollbackCheckGuarded ==
  ASSUME NEW p \in Procs, NEW d \in DataDir, Undoable, Typed, Guarded(p, d), RollbackCheck(p)
  PROVE  Guarded(p, d)'
<1> USE DEF EarlyLabels, StatementLabels, CommitLabels, UndoLabels, Labels
<1> DEFINE n == touched[p][committed[p]]
<1>1. TypeOK /\ pc[p] = "rollback" /\ committed[p] > 0 /\ committed[p] \in Nat
  BY UndoneApart DEF Typed, RollbackCheck
<1>2. UNCHANGED <<live, orig, stage, touched, hadOriginal>>
  BY DEF RollbackCheck, program
<1>3. ~Fault("exists")
  BY NoSuchFault DEF GivesUp
<1>4. CASE live[n] # NoFile
  <2>1. /\ pc'[p] = "rollbackRemove" /\ err'[p] = err[p] /\ UNCHANGED committed
    BY <1>1, <1>3, <1>4, Moves DEF RollbackCheck
  <2>2. TouchedStaged(p)' /\ ErrorInStep(p)'
    BY <1>1, <1>2, <2>1 DEF Guarded, TouchedStaged, Touched, ErrorInStep
  <2>3. \A k : Kept(p, d, k) => Kept(p, d, k)'
    BY <1>2 DEF Kept
  <2>4. \A m : RestAsFound(p, d, m) => RestAsFound(p, d, m)'
    BY <1>2 DEF RestAsFound
  <2>5. OriginalsKept(p, d)'
    BY <1>1, <1>2, <1>4, <2>1, <2>3, <2>4 DEF Guarded, OriginalsKept
  <2> QED
    BY <2>2, <2>5 DEF Guarded
<1>5. CASE live[n] = NoFile
  BY <1>1, <1>2, <1>3, <1>5, RemovedGuarded DEF RollbackCheck
<1> QED
  BY <1>4, <1>5

\* rollback_committed_csvs, removing a committed file, keeps every original where it can be found.
LEMMA RollbackRemoveGuarded ==
  ASSUME NEW p \in Procs, NEW d \in DataDir, Undoable, Typed, Guarded(p, d), RollbackRemove(p)
  PROVE  Guarded(p, d)'
<1> DEFINE n == touched[p][committed[p]]
<1>1. TypeOK /\ pc[p] = "rollbackRemove" /\ committed[p] > 0
  BY DEF Typed, RollbackRemove, ListsInStep, InStep
<1>2. UNCHANGED <<orig, stage, touched, hadOriginal>>
  BY DEF RollbackRemove, program
<1>3. live[n] # NoFile
  BY <1>1 DEF Guarded, OriginalsKept
<1>4. PutLive(n, NoFile) /\ Removed(p)
  <2>1. ~Fault("remove")
    BY NoSuchFault DEF GivesUp
  <2> QED
    BY <1>3, <2>1 DEF RollbackRemove
<1>5. live'[n] = NoFile /\ \A m \in TableFiles : m # n => live'[m] = live[m]
  BY <1>1, <1>4, UndoneApart, OneLive
<1> QED
  BY <1>1, <1>2, <1>4, <1>5, RemovedGuarded

\* rollback_committed_csvs, moving an original back, keeps every original where it can be found.
LEMMA RollbackMoveGuarded ==
  ASSUME NEW p \in Procs, NEW d \in DataDir, Undoable, Typed, Guarded(p, d), RollbackMove(p)
  PROVE  Guarded(p, d)'
<1> DEFINE n == touched[p][committed[p]]
           b == Rollback(committed[p] - 1)
<1>1. /\ TypeOK /\ pc[p] = "rollbackMove"
      /\ committed[p] > 0 /\ committed[p] \in Nat
      /\ b \in StageFiles
  BY UndoneApart DEF Typed, RollbackMove, ListsInStep, InStep
<1>2. UNCHANGED <<orig, touched, hadOriginal>>
  BY DEF RollbackMove, program
<1>3. PutLive(n, stage[p][b]) /\ PutStaged(p, b, NoFile) /\ Undone(p)
  <2>1. ~Fault("restore")
    BY NoSuchFault DEF GivesUp
  <2> QED
    BY <2>1 DEF RollbackMove
<1>4. stage[p][b] = d[n]
  <2>1. committed[p] - 1 \in hadOriginal[p] /\ \A k \in 1 .. committed[p] : Kept(p, d, k)
    BY <1>1 DEF Guarded, OriginalsKept, UndoLabels
  <2> QED
    BY <1>1, <2>1 DEF Kept
<1>5. \A m \in StageFiles : m # b => stage'[p][m] = stage[p][m]
  BY <1>1, <1>3, OneStaged
<1>6. live'[n] = d[n] /\ \A m \in TableFiles : m # n => live'[m] = live[m]
  BY <1>1, <1>3, <1>4, UndoneApart, OneLive
<1> QED
  BY <1>1, <1>2, <1>3, <1>5, <1>6, UndoneGuarded

\* When nothing is left to roll back the data directory is as it was found.
LEMMA RollbackEndsGuarded ==
  ASSUME NEW p \in Procs, NEW d \in DataDir, Typed, Guarded(p, d), RollbackEnds(p)
  PROVE  Guarded(p, d)'
<1> USE DEF EarlyLabels, StatementLabels, CommitLabels, UndoLabels, Labels
<1>1. TypeOK /\ pc[p] = "rollback" /\ committed[p] = 0
  BY DEF Typed, RollbackEnds
<1>2. UNCHANGED <<live, orig, stage, touched, committed, hadOriginal>>
  BY DEF RollbackEnds, program, lists
<1>3. pc'[p] = "cleanup" /\ err'[p] = err[p]
  BY <1>1, Moves DEF RollbackEnds
<1>4. AsFound(p, d)
  BY <1>1 DEF Guarded, OriginalsKept, RestAsFound, AsFound
<1>5. TouchedStaged(p)' /\ ErrorInStep(p)'
  BY <1>2, <1>3 DEF Guarded, TouchedStaged, Touched, ErrorInStep
<1>6. OriginalsKept(p, d)'
  BY <1>2, <1>3, <1>4 DEF OriginalsKept, AsFound
<1> QED
  BY <1>5, <1>6 DEF Guarded

\* A script that only reads has committed nothing, so it fails with the tables
\* as they were; one that has committed rolls back.
LEMMA FlushGuarded ==
  ASSUME NEW p \in Procs, NEW d \in DataDir, Typed, Guarded(p, d), Flush(p),
         ~Staging(p) => committed[p] = 0
  PROVE  Guarded(p, d)'
<1> USE DEF EarlyLabels, StatementLabels, CommitLabels, UndoLabels, Labels
<1>1. TypeOK /\ pc[p] = "flush"
  BY DEF Typed, Flush
<1>2. UNCHANGED <<live, orig, stage, touched, committed, hadOriginal>>
  BY DEF Flush, program, lists
<1>3. \/ pc'[p] = "cleanup" /\ err'[p] = err[p]
      \/ pc'[p] = "rollback" /\ err'[p] = "output"
      \/ pc'[p] = "cleanup" /\ err'[p] = "output" /\ committed[p] = 0
  BY <1>1, Moves DEF Flush
<1>4. /\ RestAsFound(p, d, committed[p])
      /\ \A k \in 1 .. committed[p] : Kept(p, d, k)
      /\ err[p] = "none"
  BY <1>1 DEF Guarded, OriginalsKept, ErrorInStep
<1>5. committed[p] = 0 => AsFound(p, d)
  BY <1>4 DEF RestAsFound, AsFound
<1>6. TouchedStaged(p)' /\ ErrorInStep(p)'
  BY <1>1, <1>2, <1>3 DEF Guarded, TouchedStaged, Touched, ErrorInStep
<1>7. /\ \A k : Kept(p, d, k) => Kept(p, d, k)'
      /\ \A m : RestAsFound(p, d, m) => RestAsFound(p, d, m)'
  BY <1>2 DEF Kept, RestAsFound
<1>8. OriginalsKept(p, d)'
  BY <1>2, <1>3, <1>4, <1>5, <1>7 DEF OriginalsKept, AsFound
<1> QED
  BY <1>6, <1>8 DEF Guarded

\* The sweep, and a kill in the middle of it, leave the tables alone.
LEMMA SweptGuarded ==
  ASSUME NEW p \in Procs, NEW d \in DataDir, Guarded(p, d), pc[p] = "cleanup",
         UNCHANGED <<live, orig, touched, committed, hadOriginal>>,
         pc'[p] \in {"cleanup", "done"}, err'[p] = err[p]
  PROVE  Guarded(p, d)'
<1> USE DEF EarlyLabels, StatementLabels, CommitLabels, UndoLabels, Labels
<1>1. TouchedStaged(p)' /\ ErrorInStep(p)'
  BY DEF Guarded, TouchedStaged, Touched, ErrorInStep
<1>2. OriginalsKept(p, d)'
  BY DEF Guarded, OriginalsKept, AsFound
<1> QED
  BY <1>1, <1>2 DEF Guarded

\* cleanup_stage_dir leaves the tables alone.
LEMMA CleanupGuarded ==
  ASSUME NEW p \in Procs, NEW d \in DataDir, Typed, Guarded(p, d), Cleanup(p)
  PROVE  Guarded(p, d)'
<1>1. TypeOK /\ pc[p] = "cleanup"
  BY DEF Typed, Cleanup
<1>2. UNCHANGED <<live, orig, touched, committed, hadOriginal>>
  BY DEF Cleanup, program, lists
<1>3. pc'[p] = "done" /\ err'[p] = err[p]
  BY <1>1, Moves DEF Cleanup
<1> QED
  BY <1>1, <1>2, <1>3, SweptGuarded

----------------------------------------------------------------------------
(***************************************************************************)
(* The other processes.                                                    *)
(***************************************************************************)
\* A step of p changes nothing of another process's, and no live file but one
\* p has touched.
LEMMA OthersStay ==
  ASSUME NEW p \in Procs, Typed, Step(p) \/ Crash(p)
  PROVE  /\ UNCHANGED <<orig, script>>
         /\ \A q \in Procs \ {p} :
              /\ pc'[q] = pc[q] /\ alive'[q] = alive[q] /\ idx'[q] = idx[q]
              /\ stage'[q] = stage[q] /\ touched'[q] = touched[q]
              /\ committed'[q] = committed[q] /\ hadOriginal'[q] = hadOriginal[q]
              /\ buf'[q] = buf[q] /\ out'[q] = out[q] /\ err'[q] = err[q]
         /\ UNCHANGED live \/ \E n \in Touched(p) : \E f : PutLive(n, f)
<1> USE DEF program, lists, output
<1> DEFINE Stays == \A q \in Procs \ {p} :
                      /\ pc'[q] = pc[q] /\ alive'[q] = alive[q] /\ idx'[q] = idx[q]
                      /\ stage'[q] = stage[q] /\ touched'[q] = touched[q]
                      /\ committed'[q] = committed[q] /\ hadOriginal'[q] = hadOriginal[q]
                      /\ buf'[q] = buf[q] /\ out'[q] = out[q] /\ err'[q] = err[q]
<1>1. TypeOK /\ ListsInStep
  BY DEF Typed
<1>2. CASE MakeStageDir(p) \/ OpenBuffer(p) \/ StageCsv(p) \/ RollbackEnds(p)
  <2>1. Stays
    BY <1>1, <1>2 DEF TypeOK, MakeStageDir, OpenBuffer, StageCsv, RollbackEnds,
                      Proceed, Fail, Goto
  <2> QED
    BY <1>2, <2>1 DEF MakeStageDir, OpenBuffer, StageCsv, RollbackEnds
<1>3. CASE CopyCsv(p) \/ StageSchema(p) \/ CommitCopy(p) \/ CommitCheck(p)
  <2>1. Stays
    BY <1>1, <1>3 DEF TypeOK, CopyCsv, StageSchema, CommitCopy, CommitCheck,
                      PutStaged, Proceed, Fail, Goto
  <2> QED
    BY <1>3, <2>1 DEF CopyCsv, StageSchema, CommitCopy, CommitCheck
<1>4. CASE ExecuteStatement(p)
  <2>1. Stays
    BY <1>1, <1>4 DEF TypeOK, ExecuteStatement, Perform, Reject, PutStaged, Proceed, Fail, Goto
  <2> QED
    BY <1>4, <2>1 DEF ExecuteStatement
<1>5. CASE DieOnSchema(p) \/ Flush(p) \/ Crash(p)
  <2>1. Stays
    BY <1>1, <1>5 DEF TypeOK, DieOnSchema, Flush, Crash, Sweep, Proceed, Fail, Goto
  <2> QED
    BY <1>5, <2>1 DEF DieOnSchema, Flush, Crash
<1>6. CASE BackUpOriginal(p) \/ Replace(p) \/ RestoreCurrent(p)
  <2>1. Stays
    BY <1>1, <1>6 DEF TypeOK, BackUpOriginal, Replace, RestoreCurrent,
                      PutStaged, Proceed, Fail, Goto
  <2>2. Target(p) \in Touched(p)
    <3>1. pc[p] \in CommitLabels
      BY <1>6 DEF BackUpOriginal, Replace, RestoreCurrent, CommitLabels
    <3>2. committed[p] \in Nat /\ committed[p] < Len(touched[p])
      BY <1>1, <3>1 DEF TypeOK, ListsInStep, InStep
    <3>3. touched[p] \in Seq(CsvFiles)
      BY <1>1 DEF TypeOK
    <3>4. DOMAIN touched[p] = 1 .. Len(touched[p]) /\ Len(touched[p]) \in Nat
      BY <3>3, LenProperties
    <3>5. committed[p] + 1 \in DOMAIN touched[p]
      BY <3>2, <3>4
    <3> QED
      BY <3>5 DEF Target, Touched
  <2> QED
    BY <1>6, <2>1, <2>2 DEF BackUpOriginal, Replace, RestoreCurrent
<1>7. CASE RollbackCheck(p) \/ RollbackRemove(p) \/ RollbackMove(p)
  <2>1. Stays
    BY <1>1, <1>7 DEF TypeOK, RollbackCheck, RollbackRemove, RollbackMove, Removed, Undone,
                      PutStaged, Proceed, Fail, Goto
  <2>2. touched[p][committed[p]] \in Touched(p)
    <3>1. committed[p] > 0
      BY <1>1, <1>7 DEF RollbackCheck, RollbackRemove, RollbackMove, ListsInStep, InStep
    <3>2. committed[p] \in DOMAIN touched[p]
      BY <1>1, <3>1, LenProperties DEF TypeOK, ListsInStep, InStep
    <3> QED
      BY <3>2 DEF Touched
  <2> QED
    BY <1>7, <2>1, <2>2 DEF RollbackCheck, RollbackRemove, RollbackMove
<1>8. CASE Cleanup(p)
  <2>1. Stays
    BY <1>1, <1>8 DEF TypeOK, Cleanup, Sweep, Proceed, Goto
  <2> QED
    BY <1>8, <2>1 DEF Cleanup
<1> QED
  BY <1>2, <1>3, <1>4, <1>5, <1>6, <1>7, <1>8 DEF Step

\* A step that changes nothing of p's, and nothing p uses.
LEMMA StillGuarded ==
  ASSUME NEW p \in Procs, NEW d \in DataDir, Undoable, Typed, Guarded(p, d),
         pc'[p] = pc[p], stage'[p] = stage[p], touched'[p] = touched[p],
         committed'[p] = committed[p], hadOriginal'[p] = hadOriginal[p], err'[p] = err[p],
         \A n \in Uses(p) : live'[n] = live[n]
  PROVE  Guarded(p, d)'
<1> DEFINE n == touched[p][committed[p]]
<1>1. TouchedStaged(p)' /\ ErrorInStep(p)'
  BY DEF Guarded, TouchedStaged, Touched, ErrorInStep
<1>2. \A k : Kept(p, d, k) => Kept(p, d, k)'
  BY DEF Kept
<1>3. \A m : RestAsFound(p, d, m) => RestAsFound(p, d, m)'
  BY DEF RestAsFound
<1>4. Target(p)' = Target(p)
  BY DEF Target
<1>5. KeptInHand(p, d) => KeptInHand(p, d)'
  BY <1>4 DEF KeptInHand, Backup
<1>6. pc[p] \in CommitLabels => live'[Target(p)'] = live[Target(p)]
  BY <1>4, ReservedApart
<1>7. AsFound(p, d) => AsFound(p, d)'
  BY DEF AsFound
<1>8. pc[p] \in {"rollbackRemove", "rollbackMove"} => live'[n] = live[n]
  <2> SUFFICES ASSUME committed[p] > 0
               PROVE  live'[n] = live[n]
    BY DEF Typed, ListsInStep, InStep
  <2>1. n \in Touched(p)
    BY UndoneApart DEF Touched
  <2> QED
    BY <2>1, UsesNames DEF Guarded, TouchedStaged
<1>9. OriginalsKept(p, d)'
  BY <1>2, <1>3, <1>5, <1>6, <1>7, <1>8 DEF Guarded, OriginalsKept, CommitLabels
<1> QED
  BY <1>1, <1>9 DEF Guarded

\* A step of another process changes nothing p uses.
LEMMA OthersLive ==
  ASSUME NEW p \in Procs, NEW q \in Procs \ {p}, ApartAndUndoable, Typed, TouchedStaged(q),
         Step(q) \/ Crash(q)
  PROVE  \A n \in Uses(p) : live'[n] = live[n]
<1>1. Touched(q) \cap Uses(p) = {}
  BY DEF ApartAndUndoable, Apart, TouchedStaged
<1>2. CASE UNCHANGED live
  BY <1>2
<1>3. ASSUME NEW m \in Touched(q), NEW f, PutLive(m, f)
      PROVE  \A n \in Uses(p) : live'[n] = live[n]
  <2>1. m \in TableFiles /\ m \notin Uses(p)
    BY <1>1, UsesNames DEF TouchedStaged
  <2> QED
    BY <1>3, <2>1, OneLive, UsesNames DEF Typed
<1> QED
  BY <1>2, <1>3, OthersStay

\* So it leaves p's originals where they can be found.
LEMMA OthersGuarded ==
  ASSUME NEW p \in Procs, NEW d \in DataDir, NEW q \in Procs \ {p}, ApartAndUndoable, Typed,
         Guarded(p, d), TouchedStaged(q), Step(q) \/ Crash(q)
  PROVE  Guarded(p, d)'
<1>1. \A n \in Uses(p) : live'[n] = live[n]
  BY OthersLive
<1>2. Undoable
  BY DEF ApartAndUndoable
<1> QED
  BY <1>1, <1>2, OthersStay, StillGuarded

\* Each process has a script it may be given, and one without an INSERT touches
\* no table.
WritesAreStaged ==
  \A p \in Procs : script[p] \in ScriptsOf[p] /\ (touched[p] # <<>> => Staging(p))

\* Every step keeps the scripts, and the tables of one that only reads untouched.
LEMMA NextWritesStaged ==
  ASSUME Typed, WritesAreStaged, [Next]_vars
  PROVE  WritesAreStaged'
<1>1. CASE UNCHANGED touched /\ UNCHANGED script
  BY <1>1 DEF WritesAreStaged, Staging
<1>2. ASSUME NEW p \in Procs, ExecuteStatement(p)
      PROVE  WritesAreStaged'
  <2>1. UNCHANGED script
    BY <1>2 DEF ExecuteStatement, program
  <2>2. CASE Stmt(p).kind = "INSERT"
    <3>1. Staging(p)
      <4>1. idx[p] \in DOMAIN script[p]
        BY <1>2, LenProperties DEF Typed, TypeOK, ListsInStep, InStep, EarlyLabels,
                                   StatementLabels, ExecuteStatement
      <4> QED
        BY <2>2, <4>1 DEF Staging, Stmt
    <3>2. \A q \in Procs \ {p} : touched'[q] = touched[q]
      BY <1>2 DEF ExecuteStatement, Perform, Reject, Typed, TypeOK
    <3> QED
      BY <2>1, <3>1, <3>2 DEF WritesAreStaged, Staging
  <2>3. CASE Stmt(p).kind # "INSERT"
    <3>1. UNCHANGED touched
      BY <1>2, <2>3 DEF ExecuteStatement, Perform, Reject
    <3> QED
      BY <1>1, <2>1, <3>1
  <2> QED
    BY <2>2, <2>3
<1>3. CASE UNCHANGED vars
  BY <1>1, <1>3 DEF vars
<1>4. ASSUME NEW p \in Procs, Step(p), ~ExecuteStatement(p)
      PROVE  UNCHANGED touched /\ UNCHANGED script
  <2> USE DEF program, lists, output
  <2>1. CASE MakeStageDir(p) \/ OpenBuffer(p) \/ StageCsv(p) \/ CopyCsv(p) \/ StageSchema(p)
    BY <2>1 DEF MakeStageDir, OpenBuffer, StageCsv, CopyCsv, StageSchema
  <2>2. CASE CommitCopy(p) \/ CommitCheck(p) \/ BackUpOriginal(p) \/ Replace(p)
    BY <2>2 DEF CommitCopy, CommitCheck, BackUpOriginal, Replace
  <2>3. CASE RestoreCurrent(p) \/ RollbackCheck(p) \/ RollbackRemove(p)
    BY <2>3 DEF RestoreCurrent, RollbackCheck, RollbackRemove
  <2>4. CASE RollbackMove(p) \/ RollbackEnds(p)
    BY <2>4 DEF RollbackMove, RollbackEnds
  <2>5. CASE DieOnSchema(p) \/ Flush(p) \/ Cleanup(p)
    BY <2>5 DEF DieOnSchema, Flush, Cleanup
  <2> QED
    BY <1>4, <2>1, <2>2, <2>3, <2>4, <2>5 DEF Step
<1>5. ASSUME NEW p \in Procs, Crash(p)
      PROVE  UNCHANGED touched /\ UNCHANGED script
  BY <1>5 DEF Crash, lists
<1> QED
  BY <1>1, <1>2, <1>3, <1>4, <1>5 DEF Next, Terminated

----------------------------------------------------------------------------
\* A step of p keeps p's originals where they can be found.
LEMMA OwnGuarded ==
  ASSUME NEW p \in Procs, NEW d \in DataDir, Undoable, Typed, WritesAreStaged, Guarded(p, d),
         Step(p) \/ Crash(p)
  PROVE  Guarded(p, d)'
<1>1. CASE DieOnSchema(p)
  BY <1>1, StillGuarded DEF DieOnSchema, lists, output
<1>2. CASE Crash(p)
  <2> USE DEF Crash, lists
  <2>1. CASE UNCHANGED stage
    BY <1>2, <2>1, StillGuarded
  <2>2. CASE pc[p] = "cleanup"
    BY <1>2, <2>2, SweptGuarded
  <2> QED
    BY <1>2, <2>1, <2>2
<1>3. CASE Flush(p)
  <2>1. ~Staging(p) => committed[p] = 0
    BY EmptySeq, LenProperties DEF Typed, TypeOK, ListsInStep, InStep, WritesAreStaged
  <2> QED
    BY <1>3, <2>1, FlushGuarded
<1>4. script[p] \in ScriptsOf[p]
  BY DEF WritesAreStaged
<1> QED
  BY <1>1, <1>2, <1>3, <1>4, MakeStageDirGuarded, OpenBufferGuarded, StageCsvGuarded,
     CopyCsvGuarded, StageSchemaGuarded, ExecuteStatementGuarded, CommitCopyGuarded,
     CommitCheckGuarded, BackUpOriginalGuarded, ReplaceGuarded, RestoreCurrentGuarded,
     RollbackCheckGuarded, RollbackRemoveGuarded, RollbackMoveGuarded, RollbackEndsGuarded, CleanupGuarded
     DEF Step

\* The list of touched CSV files only grows.
LEMMA TouchedGrows ==
  ASSUME NEW p \in Procs, Typed, Step(p) \/ Crash(p)
  PROVE  Touched(p) \subseteq Touched(p)'
<1> USE DEF program, lists, output
<1>1. CASE UNCHANGED touched
  BY <1>1 DEF Touched
<1>2. CASE ExecuteStatement(p)
  <2> DEFINE n == Csv(Stmt(p).table)
  <2>1. touched[p] \in Seq(CsvFiles) /\ n \in CsvFiles
    BY <1>2, StmtAtHand, StageNames DEF Typed, TypeOK, ExecuteStatement, StatementLabels
  <2>2. UNCHANGED touched \/ touched'[p] = AppendUnique(touched[p], n)
    BY <1>2 DEF ExecuteStatement, Perform, Reject, Typed, TypeOK
  <2>3. CASE touched'[p] = Append(touched[p], n)
    <3>1. \A k \in DOMAIN touched[p] : k \in DOMAIN touched'[p] /\ touched'[p][k] = touched[p][k]
      BY <2>1, <2>3, AppendProperties
    <3> QED
      BY <3>1 DEF Touched
  <2>4. CASE touched'[p] = touched[p]
    BY <2>4 DEF Touched
  <2> QED
    BY <1>1, <2>2, <2>3, <2>4 DEF AppendUnique
<1>3. CASE MakeStageDir(p) \/ OpenBuffer(p) \/ StageCsv(p) \/ CopyCsv(p) \/ StageSchema(p)
  BY <1>1, <1>3 DEF MakeStageDir, OpenBuffer, StageCsv, CopyCsv, StageSchema
<1>4. CASE CommitCopy(p) \/ CommitCheck(p) \/ BackUpOriginal(p) \/ Replace(p)
  BY <1>1, <1>4 DEF CommitCopy, CommitCheck, BackUpOriginal, Replace
<1>5. CASE RestoreCurrent(p) \/ RollbackCheck(p) \/ RollbackRemove(p)
  BY <1>1, <1>5 DEF RestoreCurrent, RollbackCheck, RollbackRemove
<1>6. CASE RollbackMove(p) \/ RollbackEnds(p)
  BY <1>1, <1>6 DEF RollbackMove, RollbackEnds
<1>7. CASE DieOnSchema(p) \/ Flush(p) \/ Cleanup(p) \/ Crash(p)
  BY <1>1, <1>7 DEF DieOnSchema, Flush, Cleanup, Crash
<1> QED
  BY <1>2, <1>3, <1>4, <1>5, <1>6, <1>7 DEF Step

\* And a table p has not touched is not changed by a step of p.
LEMMA UntouchedStays ==
  ASSUME NEW p \in Procs, Typed, TouchedStaged(p), Step(p) \/ Crash(p),
         NEW n \in TableFiles, n \notin Touched(p)'
  PROVE  live'[n] = live[n] /\ n \notin Touched(p)
<1>1. n \notin Touched(p)
  BY TouchedGrows
<1>2. CASE UNCHANGED live
  BY <1>1, <1>2
<1>3. ASSUME NEW m \in Touched(p), NEW f, PutLive(m, f)
      PROVE  live'[n] = live[n]
  <2>1. m \in TableFiles /\ m # n
    BY <1>1, UsesNames DEF TouchedStaged
  <2> QED
    BY <1>3, <2>1, OneLive DEF Typed
<1> QED
  BY <1>1, <1>2, <1>3, OthersStay

\* What holds in every behaviour: each original can be found.
AllGuarded ==
  /\ Typed
  /\ WritesAreStaged
  /\ OthersAsFound
  /\ \A p \in Procs : Guarded(p, orig)

\* To begin with nothing is touched.
LEMMA InitAllGuarded ==
  ASSUME Init
  PROVE  AllGuarded
<1>1. WritesAreStaged /\ OthersAsFound
  BY DEF Init, WritesAreStaged, OthersAsFound
<1>2. orig \in DataDir /\ live = orig
  BY DataDirsHoldFiles DEF Init
<1>3. \A p \in Procs : Guarded(p, orig)
  BY <1>2, InitUnbegun, UnbegunGuarded DEF AsFound
<1> QED
  BY <1>1, <1>3, InitTyped DEF AllGuarded

\* Every step keeps every original where it can be found.
LEMMA NextAllGuarded ==
  ASSUME ApartAndUndoable, AllGuarded, [Next]_vars, Typed'
  PROVE  AllGuarded'
<1>1. PICK d \in DataDir : d = orig
  BY DEF AllGuarded, Typed, TypeOK
<1>2. Undoable /\ \A p \in Procs : Guarded(p, d)
  BY <1>1 DEF AllGuarded, ApartAndUndoable
<1>3. WritesAreStaged'
  BY NextWritesStaged DEF AllGuarded
<1>4. CASE UNCHANGED vars
  <2>1. \A p \in Procs : Guarded(p, d)'
    BY <1>2, <1>4, StillGuarded DEF vars, AllGuarded
  <2>2. OthersAsFound'
    BY <1>4 DEF vars, AllGuarded, OthersAsFound, Touched
  <2>3. orig' = d
    BY <1>1, <1>4 DEF vars
  <2> QED
    BY <1>3, <2>1, <2>2, <2>3 DEF AllGuarded
<1>5. ASSUME NEW p \in Procs, Step(p) \/ Crash(p)
      PROVE  AllGuarded'
  <2>1. \A q \in Procs : Guarded(q, d)'
    BY <1>2, <1>5, OwnGuarded, OthersGuarded DEF AllGuarded, Guarded
  <2>2. orig' = d
    BY <1>1, <1>5, OthersStay DEF AllGuarded
  <2>3. OthersAsFound'
    <3> SUFFICES ASSUME NEW n \in TableFiles, \A q \in Procs : n \notin Touched(q)'
                 PROVE  live'[n] = orig'[n]
      BY DEF OthersAsFound
    <3>1. \A q \in Procs \ {p} : n \notin Touched(q)
      BY <1>5, OthersStay DEF AllGuarded, Touched
    <3>2. live'[n] = live[n] /\ n \notin Touched(p)
      BY <1>5, UntouchedStays DEF AllGuarded, Guarded
    <3> QED
      BY <1>1, <2>2, <3>1, <3>2 DEF AllGuarded, OthersAsFound
  <2> QED
    BY <1>3, <2>1, <2>2, <2>3 DEF AllGuarded
<1> QED
  BY <1>4, <1>5 DEF Next, Terminated

\* Every original can be found in every behaviour.
LEMMA AlwaysGuarded ==
  ASSUME ApartAndUndoable
  PROVE  Spec => []AllGuarded
<1>1. Init => AllGuarded
  BY InitAllGuarded
<1>2. Typed' /\ AllGuarded /\ [Next]_vars => AllGuarded'
  BY NextAllGuarded
<1> QED
  BY <1>1, <1>2, TypedCorrect, PTL DEF Spec

\* Where the original of each table is.
LEMMA GuardedIsRecoverable ==
  ASSUME AllGuarded
  PROVE  OriginalRecoverable
<1> USE DEF EarlyLabels, StatementLabels, CommitLabels, UndoLabels, Labels
<1> SUFFICES ASSUME NEW n \in CsvFiles, orig[n] # NoFile, live[n] # orig[n],
                    \A p \in Procs : n \in Touched(p) => Outcome[p] # "ok"
             PROVE  \E p \in Procs, i \in Index : stage[p][Rollback(i)] = orig[n]
  BY DEF OriginalRecoverable
<1>0. TypeOK /\ ListsInStep /\ n \in TableFiles
  BY StageNames DEF AllGuarded, Typed
<1>p. PICK p \in Procs : n \in Touched(p)
  BY <1>0 DEF AllGuarded, OthersAsFound
<1>1. Guarded(p, orig) /\ n \in Uses(p) /\ pc[p] \in Labels
  BY <1>0, <1>p, UsesNames DEF AllGuarded, Guarded, TouchedStaged, TypeOK
<1>2. pc[p] \in CommitLabels \cup UndoLabels \cup {"flush"}
  <2>1. pc[p] \in {"cleanup", "done"} => err[p] # "none"
    BY <1>p DEF Outcome
  <2> QED
    BY <1>1, <2>1 DEF Guarded, OriginalsKept, AsFound
<1>3. \A k \in 1 .. committed[p] : Kept(p, orig, k)
  BY <1>1, <1>2 DEF Guarded, OriginalsKept
<1>4. ASSUME NEW k \in 1 .. committed[p], touched[p][k] = n
      PROVE  \E i \in Index : stage[p][Rollback(i)] = orig[n]
  <2>1. stage[p][Rollback(k - 1)] = orig[n]
    BY <1>3, <1>4 DEF Kept
  <2>2. k - 1 \in Index
    BY <1>0, MaxStatementsIsPositive DEF TypeOK, Index
  <2> QED
    BY <2>1, <2>2
<1>5. CASE pc[p] \notin {"replace", "restore"}
  <2>1. RestAsFound(p, orig, committed[p])
    BY <1>1, <1>2, <1>5 DEF Guarded, OriginalsKept
  <2>2. \E k \in 1 .. committed[p] : touched[p][k] = n
    BY <1>1, <2>1 DEF RestAsFound
  <2> QED
    BY <1>4, <2>2
<1>6. CASE pc[p] \in {"replace", "restore"}
  <2>1. RestAsFound(p, orig, committed[p] + 1) /\ KeptInHand(p, orig)
    BY <1>1, <1>6 DEF Guarded, OriginalsKept
  <2>2. PICK k \in 1 .. (committed[p] + 1) : touched[p][k] = n
    BY <1>1, <2>1 DEF RestAsFound
  <2>3. CASE k \in 1 .. committed[p]
    BY <1>4, <2>2, <2>3
  <2>4. CASE k = committed[p] + 1
    <3>1. stage[p][Backup(p)] = orig[n]
      BY <2>1, <2>2, <2>4 DEF KeptInHand, Target
    <3>2. committed[p] \in Index
      BY <1>0, <1>6, FileInHand
    <3> QED
      BY <3>1, <3>2 DEF Backup
  <2>5. committed[p] \in Nat
    BY <1>0 DEF TypeOK
  <2> QED
    BY <2>3, <2>4, <2>5
<1> QED
  BY <1>5, <1>6

\* A script that has failed has left the files it uses as it found them.
LEMMA GuardedFailureLeavesData ==
  ASSUME AllGuarded
  PROVE  FailedScriptLeavesData
<1> SUFFICES ASSUME NEW p \in Procs, pc[p] = "done", err[p] # "none", NEW n \in TableFiles,
                    \A q \in Procs \ {p} : n \notin Touched(q)
             PROVE  live[n] = orig[n]
  BY DEF FailedScriptLeavesData, Returned
<1>1. AsFound(p, orig) /\ Touched(p) \subseteq Uses(p)
  BY UsesNames DEF AllGuarded, Guarded, OriginalsKept, TouchedStaged
<1>2. CASE n \in Touched(p)
  BY <1>1, <1>2 DEF AsFound
<1>3. CASE n \notin Touched(p)
  BY <1>3 DEF AllGuarded, OthersAsFound
<1> QED
  BY <1>2, <1>3

\* No table is lost: until a script that changed it has succeeded, every table
\* is in place or under its rollback name in a stage directory, whichever of
\* the failures the code undoes happen, and wherever processes are killed.
THEOREM NoTableIsLost ==
  ASSUME ApartAndUndoable
  PROVE  Spec => []OriginalRecoverable
<1>1. AllGuarded => OriginalRecoverable
  BY GuardedIsRecoverable
<1> QED
  BY <1>1, AlwaysGuarded, PTL

\* And a script that fails changes no table.  The premise is needed: the run
\* partial_commit shows a table changed after a failed backup.
THEOREM FailureChangesNothing ==
  ASSUME ApartAndUndoable
  PROVE  Spec => []FailedScriptLeavesData
<1>1. AllGuarded => FailedScriptLeavesData
  BY GuardedFailureLeavesData
<1> QED
  BY <1>1, AlwaysGuarded, PTL

----------------------------------------------------------------------------
(***************************************************************************)
(* A table that is lost is never lost silently, whatever fails, however    *)
(* often and in whatever order: what is true of a process that is alone on *)
(* the data directory.  Nothing is assumed of the names of its tables.     *)
(***************************************************************************)
Alone(p) == Procs = {p}

\* To begin with no table is gone.
LEMMA InitTraced ==
  ASSUME Init, NEW p \in Procs
  PROVE  LossTraced(p)
<1>1. pc[p] \in {"mkdir", "buffer"} /\ hadOriginal[p] = {} /\ live = orig
  BY DEF Init
<1> QED
  BY <1>1 DEF LossTraced, EarlyLabels, UndoLabels

\* A step before the commit, or one that ends the script there.
LEMMA EarlyTraced ==
  ASSUME NEW p \in Procs, LossTraced(p), pc[p] \in EarlyLabels,
         UNCHANGED <<live, orig, hadOriginal>>,
         pc'[p] \in EarlyLabels \cup {"cleanup", "done"}
  PROVE  LossTraced(p)'
<1>1. live = orig /\ hadOriginal[p] = {}
  BY DEF LossTraced
<1>2. \A n : ~Gone(n)'
  BY <1>1 DEF Gone
<1> QED
  BY <1>1, <1>2 DEF LossTraced, EarlyLabels, StatementLabels, UndoLabels

\* A script that comes to its end has lost nothing.
LEMMA ReadyTraced ==
  ASSUME NEW p \in Procs, LossTraced(p), pc[p] \in EarlyLabels,
         UNCHANGED <<live, orig, hadOriginal>>, pc'[p] \in {"commitCopy", "flush"}
  PROVE  LossTraced(p)'
<1>1. live = orig /\ hadOriginal[p] = {}
  BY DEF LossTraced
<1>2. \A n : ~Gone(n)'
  BY <1>1 DEF Gone
<1> QED
  BY <1>1, <1>2 DEF LossTraced, BackupsThere, EarlyLabels, StatementLabels, UndoLabels

\* The stage is filled and the statements are executed without a live file
\* being written.
LEMMA BeforeCommitTraced ==
  ASSUME NEW p \in Procs, Typed, LossTraced(p),
         \/ MakeStageDir(p) \/ OpenBuffer(p) \/ StageCsv(p) \/ CopyCsv(p)
         \/ StageSchema(p) \/ ExecuteStatement(p)
  PROVE  LossTraced(p)'
<1> USE DEF EarlyLabels, StatementLabels
<1>1. TypeOK
  BY DEF Typed
<1>2. pc[p] \in EarlyLabels
  BY DEF MakeStageDir, OpenBuffer, StageCsv, CopyCsv, StageSchema, ExecuteStatement
<1>3. UNCHANGED <<live, orig, hadOriginal>>
  BY DEF MakeStageDir, OpenBuffer, StageCsv, CopyCsv, StageSchema, ExecuteStatement,
         program, lists
<1>4. pc'[p] \in EarlyLabels \cup {"cleanup", "done", "commitCopy", "flush"}
  <2>1. CASE MakeStageDir(p) \/ OpenBuffer(p)
    BY <1>1, <2>1, Moves DEF MakeStageDir, OpenBuffer, FirstLabel
  <2>2. CASE StageCsv(p) \/ CopyCsv(p) \/ StageSchema(p)
    BY <1>1, <2>2, Moves DEF StageCsv, CopyCsv, StageSchema, CopyLabel
  <2>3. CASE ExecuteStatement(p)
    <3>1. idx[p] \in Nat /\ Len(script[p]) \in Nat
      BY <1>1, LenProperties DEF TypeOK
    <3>2. NextLabel(p) \in {"stageCsv", "exec", "commitCopy", "flush"}
      BY <3>1 DEF NextLabel, FirstLabel
    <3> QED
      BY <1>1, <2>3, <3>2, Moves DEF ExecuteStatement, Perform, Reject
  <2> QED
    BY <2>1, <2>2, <2>3
<1> QED
  BY <1>2, <1>3, <1>4, EarlyTraced, ReadyTraced

----------------------------------------------------------------------------
(***************************************************************************)
(* The commit.                                                             *)
(***************************************************************************)
\* The reserved names of one table are not those of another.
LEMMA NamesApart ==
  ASSUME NEW p \in Procs, Typed, pc[p] \in CommitLabels
  PROVE  /\ committed[p] \in Nat
         /\ Target(p) \in CsvFiles /\ Target(p) \in TableFiles
         /\ Backup(p) \in StageFiles /\ Temp(p) \in StageFiles /\ Backup(p) # Temp(p)
         /\ \A i \in hadOriginal[p] : /\ i \in Nat
                                      /\ Rollback(i) \in StageFiles
                                      /\ Rollback(i) # Temp(p)
                                      /\ i # committed[p] => Rollback(i) # Backup(p)
<1>1. TypeOK /\ ListsInStep
  BY DEF Typed
<1>2. /\ committed[p] \in Index /\ committed[p] \in Nat
      /\ Target(p) \in CsvFiles
      /\ Backup(p) \in StageFiles /\ Temp(p) \in StageFiles
  BY <1>1, FileInHand DEF Index
<1>3. ASSUME NEW i \in hadOriginal[p]
      PROVE  /\ i \in Nat
             /\ Rollback(i) \in StageFiles
             /\ Rollback(i) # Temp(p)
             /\ i # committed[p] => Rollback(i) # Backup(p)
  <2>1. i \in Index /\ i \in Nat
    BY <1>1 DEF TypeOK, Index
  <2> QED
    BY <1>2, <2>1, ReservedNamesDistinct, StageNames DEF Backup, Temp
<1> QED
  BY <1>2, <1>3, ReservedNamesDistinct, StageNames DEF Backup, Temp

\* commit_staged_csvs, copying to __commit_<i>.csv, loses no table.
LEMMA CommitCopyTraced ==
  ASSUME NEW p \in Procs, Typed, LossTraced(p), CommitCopy(p)
  PROVE  LossTraced(p)'
<1> USE DEF EarlyLabels, StatementLabels, CommitLabels, UndoLabels
<1>1. TypeOK /\ pc[p] = "commitCopy"
  BY DEF Typed, CommitCopy
<1>2. UNCHANGED <<live, orig, touched, committed, hadOriginal>>
  BY DEF CommitCopy, program, lists
<1>3. BackupsThere(p, committed[p]) /\ \A n \in CsvFiles : ~Gone(n)
  BY <1>1 DEF LossTraced
<1>4. \A n \in CsvFiles : ~Gone(n)'
  BY <1>2, <1>3 DEF Gone
<1>5. CASE pc'[p] = "cleanup"
  BY <1>4, <1>5 DEF LossTraced
<1>6. CASE pc'[p] # "cleanup"
  <2>1. /\ pc'[p] = "commitCheck"
        /\ stage[p][Target(p)] # NoFile
        /\ PutStaged(p, Temp(p), CopiedForCommit(p))
    BY <1>1, <1>6, Moves DEF CommitCopy
  <2>2. CopiedForCommit(p) # NoFile
    <3>1. <<>> \in Content
      BY DEF Content
    <3> QED
      BY <2>1, <3>1, NoFileIsNoContent DEF CopiedForCommit
  <2>3. /\ stage'[p][Temp(p)] # NoFile
        /\ \A m \in StageFiles : m # Temp(p) => stage'[p][m] = stage[p][m]
    BY <1>1, <2>1, <2>2, NamesApart, OneStaged
  <2>4. stage'[p][Temp(p)'] # NoFile
    BY <1>2, <2>3 DEF Temp
  <2>5. BackupsThere(p, committed[p])'
    BY <1>1, <1>2, <1>3, <2>3, NamesApart DEF BackupsThere
  <2> QED
    BY <1>4, <2>1, <2>4, <2>5 DEF LossTraced
<1> QED
  BY <1>5, <1>6

\* commit_staged_csvs, looking for an original, loses no table.
LEMMA CommitCheckTraced ==
  ASSUME NEW p \in Procs, Typed, LossTraced(p), CommitCheck(p)
  PROVE  LossTraced(p)'
<1> USE DEF EarlyLabels, StatementLabels, CommitLabels, UndoLabels
<1>1. TypeOK /\ pc[p] = "commitCheck" /\ committed[p] \in Nat
  BY NamesApart DEF Typed, CommitCheck
<1>2. UNCHANGED <<live, orig, stage, touched, committed>>
  BY DEF CommitCheck, program
<1>3. /\ BackupsThere(p, committed[p])
      /\ stage[p][Temp(p)] # NoFile
      /\ \A n \in CsvFiles : ~Gone(n)
  BY <1>1 DEF LossTraced
<1>4. \A n \in CsvFiles : ~Gone(n)'
  BY <1>2, <1>3 DEF Gone
<1>5. \/ hadOriginal'[p] = hadOriginal[p] \cup {committed[p]} /\ pc'[p] = "backup"
      \/ hadOriginal' = hadOriginal /\ pc'[p] = "replace"
  BY <1>1, Moves DEF CommitCheck, TypeOK
<1>6. BackupsThere(p, committed[p] + 1)'
  BY <1>1, <1>2, <1>3, <1>5 DEF BackupsThere
<1>7. stage'[p][Temp(p)'] # NoFile
  BY <1>2, <1>3 DEF Temp
<1>8. IF pc'[p] = "replace" THEN committed'[p] \notin hadOriginal'[p]
                            ELSE committed'[p] \in hadOriginal'[p]
  BY <1>1, <1>2, <1>3, <1>5 DEF BackupsThere
<1> QED
  BY <1>4, <1>5, <1>6, <1>7, <1>8 DEF LossTraced

\* commit_staged_csvs, moving the original away, keeps it under its rollback name.
LEMMA BackUpOriginalTraced ==
  ASSUME NEW p \in Procs, Typed, LossTraced(p), BackUpOriginal(p)
  PROVE  LossTraced(p)'
<1> USE DEF EarlyLabels, StatementLabels, CommitLabels, UndoLabels
<1>1. TypeOK /\ pc[p] = "backup" /\ committed[p] \in Nat
  BY NamesApart DEF Typed, BackUpOriginal
<1>2. UNCHANGED <<orig, touched, committed, hadOriginal>>
  BY DEF BackUpOriginal, program, lists
<1>3. /\ BackupsThere(p, committed[p] + 1)
      /\ stage[p][Temp(p)] # NoFile
      /\ \A n \in CsvFiles : ~Gone(n)
  BY <1>1 DEF LossTraced
<1>4. CASE UNCHANGED live /\ pc'[p] = "cleanup"
  <2>1. \A n \in CsvFiles : ~Gone(n)'
    BY <1>2, <1>3, <1>4 DEF Gone
  <2> QED
    BY <1>4, <2>1 DEF LossTraced
<1>5. CASE /\ pc'[p] = "replace"
           /\ live[Target(p)] # NoFile
           /\ PutStaged(p, Backup(p), live[Target(p)])
           /\ PutLive(Target(p), NoFile)
  <2>1. /\ stage'[p][Backup(p)] # NoFile
        /\ \A m \in StageFiles : m # Backup(p) => stage'[p][m] = stage[p][m]
    BY <1>1, <1>5, NamesApart, OneStaged
  <2>2. \A n \in TableFiles : n # Target(p) => live'[n] = live[n]
    BY <1>1, <1>5, NamesApart, OneLive
  <2>3. Target(p)' = Target(p) /\ Backup(p)' = Backup(p) /\ Temp(p)' = Temp(p)
    BY <1>2 DEF Target, Backup, Temp
  <2>4. BackupsThere(p, committed[p] + 1)'
    BY <1>1, <1>2, <1>3, <2>1, NamesApart DEF BackupsThere
  <2>5. stage'[p][Temp(p)'] # NoFile
    BY <1>1, <1>3, <2>1, <2>3, NamesApart
  <2>6. \A n \in CsvFiles : Gone(n)' => n = Target(p)'
    BY <1>2, <1>3, <2>2, <2>3, StageNames DEF Gone
  <2>7. committed[p] \in hadOriginal[p] => stage'[p][Backup(p)'] # NoFile
    BY <2>1, <2>3
  <2>8. committed[p] \in hadOriginal[p]
    BY <1>1 DEF LossTraced
  <2> QED
    BY <1>2, <1>5, <2>4, <2>5, <2>6, <2>7, <2>8 DEF LossTraced
<1> QED
  BY <1>1, <1>4, <1>5, Moves DEF BackUpOriginal

\* commit_staged_csvs, moving the copy into place: the table is there again.
LEMMA ReplaceTraced ==
  ASSUME NEW p \in Procs, Typed, LossTraced(p), Replace(p)
  PROVE  LossTraced(p)'
<1> USE DEF EarlyLabels, StatementLabels, CommitLabels, UndoLabels
<1>1. TypeOK /\ pc[p] = "replace" /\ committed[p] \in Nat
  BY NamesApart DEF Typed, Replace
<1>2. UNCHANGED <<orig, touched, hadOriginal>>
  BY DEF Replace, program
<1>3. /\ BackupsThere(p, committed[p] + 1)
      /\ stage[p][Temp(p)] # NoFile
      /\ \A n \in CsvFiles : Gone(n) => n = Target(p) /\ committed[p] \in hadOriginal[p]
      /\ committed[p] \in hadOriginal[p] => stage[p][Backup(p)] # NoFile
  BY <1>1 DEF LossTraced
<1>4. CASE /\ pc'[p] \in {"commitCopy", "flush"}
           /\ PutLive(Target(p), stage[p][Temp(p)])
           /\ PutStaged(p, Temp(p), NoFile)
           /\ committed'[p] = committed[p] + 1
  <2>1. \A m \in StageFiles : m # Temp(p) => stage'[p][m] = stage[p][m]
    BY <1>1, <1>4, NamesApart, OneStaged
  <2>2. /\ live'[Target(p)] # NoFile
        /\ \A n \in TableFiles : n # Target(p) => live'[n] = live[n]
    BY <1>1, <1>3, <1>4, NamesApart, OneLive
  <2>3. \A n \in CsvFiles : ~Gone(n)'
    BY <1>2, <1>3, <2>2, StageNames DEF Gone
  <2>4. ASSUME NEW i \in hadOriginal[p]
        PROVE  stage'[p][Rollback(i)] # NoFile
    <3>1. i \in 0 .. committed[p]
      BY <1>1, <1>3 DEF BackupsThere
    <3>2. stage[p][Rollback(i)] # NoFile
      BY <1>1, <1>3, <3>1 DEF BackupsThere, Backup
    <3> QED
      BY <1>1, <2>1, <3>2, NamesApart
  <2>5. BackupsThere(p, committed[p])'
    BY <1>1, <1>2, <1>3, <1>4, <2>4 DEF BackupsThere
  <2> QED
    BY <1>4, <2>3, <2>5 DEF LossTraced
<1>5. CASE /\ pc'[p] = IF committed[p] \in hadOriginal[p] THEN "restore" ELSE "rollback"
           /\ UNCHANGED <<live, stage, committed>>
  <2>1. \A n \in CsvFiles : Gone(n)' => n = Target(p) /\ committed[p] \in hadOriginal[p]
    BY <1>2, <1>3, <1>5 DEF Gone
  <2>2. BackupsThere(p, committed[p] + 1)'
    BY <1>2, <1>3, <1>5 DEF BackupsThere
  <2>3. Target(p)' = Target(p) /\ Backup(p)' = Backup(p)
    BY <1>2, <1>5 DEF Target, Backup
  <2> QED
    BY <1>2, <1>3, <1>5, <2>1, <2>2, <2>3 DEF LossTraced, BackupsThere
<1>6. /\ committed' = [committed EXCEPT ![p] = @ + 1] => committed'[p] = committed[p] + 1
      /\ \A label : Proceed(p, label) => pc'[p] = label
      /\ \A label, e : Fail(p, e, label) => pc'[p] = label
  BY <1>1, Moves DEF TypeOK
<1> QED
  BY <1>4, <1>5, <1>6 DEF Replace

\* commit_staged_csvs, moving the original back: it is there again, or the
\* error says that it is not.
LEMMA RestoreCurrentTraced ==
  ASSUME NEW p \in Procs, Typed, LossTraced(p), RestoreCurrent(p)
  PROVE  LossTraced(p)'
<1> USE DEF EarlyLabels, StatementLabels, CommitLabels, UndoLabels
<1>1. TypeOK /\ pc[p] = "restore" /\ committed[p] \in Nat
  BY NamesApart DEF Typed, RestoreCurrent
<1>2. UNCHANGED <<orig, touched, committed, hadOriginal>>
  BY DEF RestoreCurrent, program, lists
<1>3. /\ \A i \in hadOriginal[p] : i < committed[p] => stage[p][Rollback(i)] # NoFile
      /\ \A n \in CsvFiles : Gone(n) => n = Target(p)
      /\ stage[p][Backup(p)] # NoFile
  BY <1>1 DEF LossTraced
<1>4. CASE /\ pc'[p] = "rollback"
           /\ PutLive(Target(p), stage[p][Backup(p)])
           /\ PutStaged(p, Backup(p), NoFile)
  <2>1. \A m \in StageFiles : m # Backup(p) => stage'[p][m] = stage[p][m]
    BY <1>1, <1>4, NamesApart, OneStaged
  <2>2. /\ live'[Target(p)] # NoFile
        /\ \A n \in TableFiles : n # Target(p) => live'[n] = live[n]
    BY <1>1, <1>3, <1>4, NamesApart, OneLive
  <2>3. \A n \in CsvFiles : ~Gone(n)'
    BY <1>2, <1>3, <2>2, StageNames DEF Gone
  <2>4. \A i \in hadOriginal'[p] : i < committed'[p] => stage'[p][Rollback(i)] # NoFile
    BY <1>1, <1>2, <1>3, <2>1, NamesApart
  <2> QED
    BY <1>4, <2>3, <2>4 DEF LossTraced
<1>5. CASE pc'[p] = "cleanup" /\ err'[p] = "rollback"
  BY <1>5 DEF LossTraced
<1> QED
  BY <1>1, <1>4, <1>5, Moves DEF RestoreCurrent

----------------------------------------------------------------------------
(***************************************************************************)
(* The rollback.                                                           *)
(***************************************************************************)
\* The backup a rollback is at is not one of an earlier table.
LEMMA BackupsApart ==
  ASSUME NEW p \in Procs, Typed, committed[p] > 0
  PROVE  /\ committed[p] \in Nat
         /\ committed[p] \in DOMAIN touched[p]
         /\ touched[p][committed[p]] \in CsvFiles /\ touched[p][committed[p]] \in TableFiles
         /\ Rollback(committed[p] - 1) \in StageFiles
         /\ \A i \in hadOriginal[p] : /\ i \in Nat /\ Rollback(i) \in StageFiles
                                      /\ i # committed[p] - 1 =>
                                           Rollback(i) # Rollback(committed[p] - 1)
<1>1. TypeOK /\ ListsInStep
  BY DEF Typed
<1>2. /\ committed[p] - 1 \in Index
      /\ touched[p][committed[p]] \in CsvFiles
      /\ Rollback(committed[p] - 1) \in StageFiles
  BY <1>1, FileToUndo
<1>3. committed[p] \in Nat /\ committed[p] \in DOMAIN touched[p]
  BY <1>1, LenProperties DEF TypeOK, ListsInStep, InStep
<1>4. \A i \in hadOriginal[p] : i \in Index /\ i \in Nat
  BY <1>1 DEF TypeOK, Index
<1> QED
  BY <1>2, <1>3, <1>4, ReservedNamesDistinct, StageNames

\* A table taken for new stays so while the lists do.
LEMMA StillTakenForNew ==
  ASSUME NEW p \in Procs, UNCHANGED <<touched, hadOriginal>>
  PROVE  TakenForNew(p)' = TakenForNew(p)
  BY DEF TakenForNew

\* rollback_committed_csvs, removing a committed file: its backup is there to be
\* moved back, or the commit took the table for a new one.
LEMMA RollbackRemoveTraced ==
  ASSUME NEW p \in Procs, Typed, LossTraced(p), RollbackCheck(p) \/ RollbackRemove(p)
  PROVE  LossTraced(p)'
<1> USE DEF EarlyLabels, StatementLabels, CommitLabels, UndoLabels
<1> DEFINE n == touched[p][committed[p]]
<1>1. /\ TypeOK /\ pc[p] \in {"rollback", "rollbackRemove"}
      /\ committed[p] > 0 /\ committed[p] \in Nat
  BY BackupsApart DEF Typed, RollbackCheck, RollbackRemove, ListsInStep, InStep
<1>2. UNCHANGED <<orig, stage, touched, hadOriginal>>
  BY DEF RollbackCheck, RollbackRemove, program
<1>3. /\ \A i \in hadOriginal[p] : i < committed[p] => stage[p][Rollback(i)] # NoFile
      /\ \A m \in CsvFiles : Gone(m) => m \in TakenForNew(p)
  BY <1>1 DEF LossTraced
<1>4. PutLive(n, NoFile) \/ UNCHANGED live
  BY DEF RollbackCheck, RollbackRemove
<1>5. \A m \in CsvFiles : Gone(m)' => m \in TakenForNew(p) \/ m = n
  BY <1>1, <1>2, <1>3, <1>4, BackupsApart, OneLive, StageNames DEF Gone
<1>6. \/ /\ committed[p] - 1 \in hadOriginal[p] /\ pc'[p] = "rollbackMove"
         /\ UNCHANGED committed
      \/ /\ committed[p] - 1 \notin hadOriginal[p] /\ pc'[p] = "rollback"
         /\ committed'[p] = committed[p] - 1
      \/ pc'[p] = "rollbackRemove" /\ UNCHANGED <<live, committed>>
      \/ pc'[p] = "cleanup" /\ err'[p] = "rollback"
  <2>1. Removed(p) =>
          \/ /\ committed[p] - 1 \in hadOriginal[p] /\ pc'[p] = "rollbackMove"
             /\ UNCHANGED committed
          \/ /\ committed[p] - 1 \notin hadOriginal[p] /\ pc'[p] = "rollback"
             /\ committed'[p] = committed[p] - 1
    BY <1>1, Moves DEF Removed, Undone, TypeOK
  <2> QED
    BY <1>1, <2>1, Moves DEF RollbackCheck, RollbackRemove
<1>7. TakenForNew(p)' = TakenForNew(p)
  BY <1>2, StillTakenForNew
<1>8. committed[p] - 1 \notin hadOriginal[p] => n \in TakenForNew(p)
  BY <1>1, BackupsApart DEF TakenForNew
<1>9. CASE committed[p] - 1 \in hadOriginal[p] /\ pc'[p] = "rollbackMove" /\ UNCHANGED committed
  BY <1>2, <1>3, <1>5, <1>7, <1>9 DEF LossTraced
<1>10. CASE /\ committed[p] - 1 \notin hadOriginal[p] /\ pc'[p] = "rollback"
            /\ committed'[p] = committed[p] - 1
  <2>1. \A i \in hadOriginal'[p] : i < committed'[p] => stage'[p][Rollback(i)] # NoFile
    BY <1>1, <1>2, <1>3, <1>10, BackupsApart
  <2>2. \A m \in CsvFiles : Gone(m)' => m \in TakenForNew(p)'
    BY <1>5, <1>7, <1>8, <1>10
  <2> QED
    BY <1>10, <2>1, <2>2 DEF LossTraced
<1>11. CASE pc'[p] = "cleanup" /\ err'[p] = "rollback"
  BY <1>11 DEF LossTraced
<1>12. CASE pc'[p] = "rollbackRemove" /\ UNCHANGED <<live, committed>>
  <2>1. \A m : Gone(m)' <=> Gone(m)
    BY <1>2, <1>12 DEF Gone
  <2> QED
    BY <1>2, <1>3, <1>7, <1>12, <2>1 DEF LossTraced
<1> QED
  BY <1>6, <1>9, <1>10, <1>11, <1>12

\* rollback_committed_csvs, moving an original back: it is there again, or the
\* error says that it is not.
LEMMA RollbackMoveTraced ==
  ASSUME NEW p \in Procs, Typed, LossTraced(p), RollbackMove(p)
  PROVE  LossTraced(p)'
<1> USE DEF EarlyLabels, StatementLabels, CommitLabels, UndoLabels
<1> DEFINE n == touched[p][committed[p]]
           b == Rollback(committed[p] - 1)
<1>1. TypeOK /\ pc[p] = "rollbackMove" /\ committed[p] > 0 /\ committed[p] \in Nat
  BY BackupsApart DEF Typed, RollbackMove, ListsInStep, InStep
<1>2. UNCHANGED <<orig, touched, hadOriginal>>
  BY DEF RollbackMove, program
<1>3. /\ \A i \in hadOriginal[p] : i < committed[p] => stage[p][Rollback(i)] # NoFile
      /\ \A m \in CsvFiles : Gone(m) => m \in TakenForNew(p) \/ m = n
      /\ committed[p] - 1 \in hadOriginal[p]
  BY <1>1 DEF LossTraced
<1>4. CASE /\ PutLive(n, stage[p][b]) /\ PutStaged(p, b, NoFile)
           /\ pc'[p] = "rollback" /\ committed'[p] = committed[p] - 1
  <2>1. stage[p][b] # NoFile
    BY <1>1, <1>3
  <2>2. \A m \in StageFiles : m # b => stage'[p][m] = stage[p][m]
    BY <1>1, <1>4, BackupsApart, OneStaged
  <2>3. /\ live'[n] # NoFile
        /\ \A m \in TableFiles : m # n => live'[m] = live[m]
    BY <1>1, <1>4, <2>1, BackupsApart, OneLive
  <2>4. \A m \in CsvFiles : Gone(m)' => m \in TakenForNew(p)
    BY <1>2, <1>3, <2>3, StageNames DEF Gone
  <2>5. ASSUME NEW i \in hadOriginal'[p], i < committed'[p]
        PROVE  stage'[p][Rollback(i)] # NoFile
    <3>1. i \in hadOriginal[p] /\ i < committed[p] /\ i # committed[p] - 1
      BY <1>1, <1>2, <1>4, <2>5, BackupsApart
    <3> QED
      BY <1>1, <1>3, <2>2, <3>1, BackupsApart
  <2>6. TakenForNew(p)' = TakenForNew(p)
    BY <1>2, StillTakenForNew
  <2> QED
    BY <1>4, <2>4, <2>5, <2>6 DEF LossTraced
<1>5. CASE pc'[p] = "cleanup" /\ err'[p] = "rollback"
  BY <1>5 DEF LossTraced
<1> QED
  BY <1>1, <1>4, <1>5, Moves DEF RollbackMove, Undone, TypeOK

\* A step that ends the script with the tables as they are, or that goes on
\* with the rollback.
LEMMA EndTraced ==
  ASSUME NEW p \in Procs, Typed, LossTraced(p), RollbackEnds(p) \/ Flush(p) \/ Cleanup(p)
  PROVE  LossTraced(p)'
<1> USE DEF EarlyLabels, StatementLabels, CommitLabels, UndoLabels
<1>1. TypeOK
  BY DEF Typed
<1>2. UNCHANGED <<live, orig, touched, committed, hadOriginal>>
  BY DEF RollbackEnds, Flush, Cleanup, program, lists
<1>3. /\ TakenForNew(p)' = TakenForNew(p)
      /\ \A n : Gone(n)' <=> Gone(n)
  BY <1>2, StillTakenForNew DEF Gone
<1>4. CASE RollbackEnds(p)
  <2>1. pc[p] = "rollback" /\ pc'[p] = "cleanup"
    BY <1>1, <1>4, Moves DEF RollbackEnds
  <2> QED
    BY <1>3, <2>1 DEF LossTraced
<1>5. CASE Flush(p)
  <2>1. pc[p] = "flush" /\ pc'[p] \in {"cleanup", "rollback"} /\ UNCHANGED stage
    BY <1>1, <1>5, Moves DEF Flush
  <2>2. BackupsThere(p, committed[p]) /\ \A n \in CsvFiles : ~Gone(n)
    BY <2>1 DEF LossTraced
  <2> QED
    BY <1>2, <1>3, <2>1, <2>2 DEF LossTraced, BackupsThere
<1>6. CASE Cleanup(p)
  <2>1. pc[p] = "cleanup" /\ pc'[p] = "done" /\ err'[p] = err[p]
    BY <1>1, <1>6, Moves DEF Cleanup
  <2> QED
    BY <1>3, <2>1 DEF LossTraced
<1> QED
  BY <1>4, <1>5, <1>6

\* A step that changes nothing of the script's but who is alive.
LEMMA StillTraced ==
  ASSUME NEW p \in Procs, LossTraced(p),
         UNCHANGED <<live, orig, pc, stage, touched, committed, hadOriginal, err>>
  PROVE  LossTraced(p)'
<1>1. /\ TakenForNew(p)' = TakenForNew(p)
      /\ \A n : Gone(n)' <=> Gone(n)
      /\ \A m : BackupsThere(p, m)' <=> BackupsThere(p, m)
      /\ Target(p)' = Target(p) /\ Backup(p)' = Backup(p) /\ Temp(p)' = Temp(p)
  BY StillTakenForNew DEF Gone, BackupsThere, Target, Backup, Temp
<1> QED
  BY <1>1 DEF LossTraced

----------------------------------------------------------------------------
\* Every step leaves every missing table where it can be accounted for.
LEMMA NextTraced ==
  ASSUME NEW p \in Procs, Alone(p), Typed, LossTraced(p), [Next]_vars
  PROVE  LossTraced(p)'
<1>1. CASE UNCHANGED vars
  BY <1>1, StillTraced DEF vars
<1>2. CASE Terminated
  BY <1>1, <1>2 DEF Terminated
<1>3. CASE Step(p)
  <2>1. CASE DieOnSchema(p)
    BY <2>1, StillTraced DEF DieOnSchema, lists, output
  <2> QED
    BY <1>3, <2>1, BeforeCommitTraced, CommitCopyTraced, CommitCheckTraced,
       BackUpOriginalTraced, ReplaceTraced, RestoreCurrentTraced, RollbackRemoveTraced,
       RollbackMoveTraced, EndTraced DEF Step
<1>4. CASE Crash(p)
  <2> USE DEF Crash, lists
  <2>1. CASE UNCHANGED stage
    BY <1>4, <2>1, StillTraced
  <2>2. CASE pc[p] = "cleanup"
    <3>1. TakenForNew(p)' = TakenForNew(p) /\ \A n : Gone(n)' <=> Gone(n)
      BY <1>4, StillTakenForNew DEF Gone
    <3> QED
      BY <1>4, <2>2, <3>1 DEF LossTraced, EarlyLabels, StatementLabels, UndoLabels
  <2> QED
    BY <1>4, <2>1, <2>2
<1>5. \A q \in Procs : q = p
  BY DEF Alone
<1> QED
  BY <1>1, <1>2, <1>3, <1>4, <1>5 DEF Next

\* No table is lost silently: one that was there and is gone once the script
\* has returned is reported as a failed rollback, unless the commit took it for
\* a new one because file_exists had missed it, whichever calls fail and
\* wherever p is killed.
THEOREM LostTablesAreReported ==
  ASSUME NEW p \in Procs, Alone(p)
  PROVE  Spec => []LossIsReported
<1>1. Init => LossTraced(p)
  BY InitTraced
<1>2. Typed /\ LossTraced(p) /\ [Next]_vars => LossTraced(p)'
  BY NextTraced
<1>3. LossTraced(p) => LossIsReported
  BY DEF Alone, LossTraced, LossIsReported, Returned, Gone
<1> QED
  BY <1>1, <1>2, <1>3, TypedCorrect, PTL DEF Spec
=============================================================================
