----------------------------- MODULE ScriptExec -----------------------------
(***************************************************************************)
(* src/execute.c: one execute_script call per process of Procs, all on the *)
(* same data directory, which nothing locks.                               *)
(*                                                                         *)
(* A script with an INSERT runs on copies in a private stage directory and *)
(* is committed one CSV file at a time: copy the staged CSV to             *)
(* __commit_<i>.csv, move the live CSV to __rollback_<i>.csv, move the     *)
(* copy into place.  Only then is the buffered output written out.  Every  *)
(* file operation another process could see or a crash could separate is   *)
(* a step of its own.                                                      *)
(*                                                                         *)
(* FaultPoints says which library calls may fail, MaxFaults how often in   *)
(* one behaviour.  Allocation failures are not modelled.                   *)
(***************************************************************************)
EXTENDS Storage, Integers, TLC

CONSTANTS Procs,          \* the processes
          ScriptsOf,      \* the scripts each may be given
          DataDirs,       \* the data directories they may start from
          MaxStatements,  \* bound: statements in a script
          FaultPoints,    \* the calls that may fail
          MaxFaults,      \* bound: failures in one behaviour
          Crashable       \* the processes that may be killed

ASSUME MaxStatementsIsPositive == MaxStatements \in Nat \ {0}

ASSUME ScriptsFit ==
  \A p \in Procs : \A s \in ScriptsOf[p] :
    s \in Seq(Statement) /\ Len(s) \in 1 .. MaxStatements

ASSUME DataDirsHoldFiles == \A d \in DataDirs : d \in DataDir

ASSUME MaxFaultsIsNat == MaxFaults \in Nat

\* commit_staged_csvs keeps two reserved files per table it commits.
Index       == 0 .. (MaxStatements - 1)
Rollback(i) == <<"__rollback_" \o ToString(i), ".csv">>
Commit(i)   == <<"__commit_" \o ToString(i), ".csv">>

StageFiles == TableFiles \cup {Rollback(i) : i \in Index} \cup {Commit(i) : i \in Index}

ASSUME ReservedNamesDistinct ==
  \A i, j \in Index : /\ Rollback(i) = Rollback(j) => i = j
                      /\ Commit(i) = Commit(j) => i = j
                      /\ Rollback(i) # Commit(j)

VARIABLES
  live,         \* the data directory
  orig,         \* history: the data directory as the scripts found it
  script,       \* the script of each process
  pc,           \* the operation it performs next
  alive,        \* FALSE once it is killed or has died
  idx,          \* the statement it is at
  stageDir,     \* its stage directory exists
  stage,        \* the files in it
  managed,      \* managed_files: what cleanup_stage_dir removes
  touched,      \* touched_csvs: the CSV files to commit
  committed,    \* how many of them are in place, or left to roll back
  hadOriginal,  \* commit_had_original: the indices whose live CSV was moved away
  buf,          \* the output buffer file
  out,          \* what reached the caller's stream
  err,          \* the error it reports
  faults        \* the failures so far

program == <<orig, script, alive>>
lists   == <<touched, committed, hadOriginal>>
output  == <<buf, out>>
vars    == <<live, orig, script, pc, alive, idx, stageDir, stage, managed, touched,
             committed, hadOriginal, buf, out, err, faults>>

Labels == {"mkdir", "buffer", "stageCsv", "copyCsv", "stageSchema", "exec",
           "commitCopy", "commitCheck", "backup", "replace", "restore",
           "rollback", "rollbackRemove", "rollbackMove", "flush", "cleanup", "done"}

\* needs_staging
Staging(p) == \E k \in DOMAIN script[p] : script[p][k].kind = "INSERT"

Init ==
  /\ live \in DataDirs
  /\ orig = live
  /\ script \in [Procs -> UNION {ScriptsOf[p] : p \in Procs}]
  /\ \A p \in Procs : script[p] \in ScriptsOf[p]
  /\ pc = [p \in Procs |-> IF Staging(p) THEN "mkdir" ELSE "buffer"]
  /\ alive = [p \in Procs |-> TRUE]
  /\ idx = [p \in Procs |-> 1]
  /\ stageDir = [p \in Procs |-> FALSE]
  /\ stage = [p \in Procs |-> [n \in StageFiles |-> NoFile]]
  /\ managed = [p \in Procs |-> {}]
  /\ touched = [p \in Procs |-> <<>>]
  /\ committed = [p \in Procs |-> 0]
  /\ hadOriginal = [p \in Procs |-> {}]
  /\ buf = [p \in Procs |-> NoFile]
  /\ out = [p \in Procs |-> <<>>]
  /\ err = [p \in Procs |-> "none"]
  /\ faults = 0

----------------------------------------------------------------------------
NoFault  == UNCHANGED faults
Fault(k) == k \in FaultPoints /\ faults < MaxFaults /\ faults' = faults + 1

Goto(p, label)      == pc' = [pc EXCEPT ![p] = label]
Fail(p, e, label)   == err' = [err EXCEPT ![p] = e] /\ Goto(p, label)
Proceed(p, label)   == Goto(p, label) /\ UNCHANGED err
PutStaged(p, n, f)  == stage' = [stage EXCEPT ![p][n] = f]
PutLive(n, f)       == live' = [live EXCEPT ![n] = f]
AppendUnique(s, n)  == IF \E k \in DOMAIN s : s[k] = n THEN s ELSE Append(s, n)

\* create_stage_dir; a failure returns at once, before any cleanup.
MakeStageDir(p) ==
  /\ pc[p] = "mkdir"
  /\ \/ /\ NoFault
        /\ stageDir' = [stageDir EXCEPT ![p] = TRUE]
        /\ Proceed(p, "buffer")
     \/ Fault("mkdir") /\ Fail(p, "io", "done") /\ UNCHANGED stageDir
  /\ UNCHANGED <<program, live, idx, stage, managed, lists, output>>

FirstLabel(p) == IF Staging(p) THEN "stageCsv" ELSE "exec"

\* create_temp_file_in_dir: in the stage directory, or beside the live files.
OpenBuffer(p) ==
  /\ pc[p] = "buffer"
  /\ \/ NoFault /\ buf' = [buf EXCEPT ![p] = <<>>] /\ Proceed(p, FirstLabel(p))
     \/ Fault("buffer") /\ Fail(p, "io", "cleanup") /\ UNCHANGED buf
  /\ UNCHANGED <<program, live, idx, stageDir, stage, managed, lists, out>>

----------------------------------------------------------------------------
(***************************************************************************)
(* ensure_staged_table, for every statement of a script that stages.  Both *)
(* names are recorded before anything is copied.  file_exists is an fopen  *)
(* that succeeds, so a file that is there may pass for missing.            *)
(***************************************************************************)
Stmt(p) == script[p][idx[p]]

\* Planted fault: a table is copied again for every statement on it.
CopiesAgain(p, n) == live[n] # NoFile

\* The stage copy is taken if the stage has no file and the live directory has.
WantsCopy(p, n) == stage[p][n] = NoFile /\ live[n] # NoFile
CopyLabel(wanted) == IF wanted THEN "copyCsv" ELSE "stageSchema"

\* Planted fault: the schema file's name is not recorded.
StageCsvAlone(p) ==
  LET t == Stmt(p).table IN
  /\ pc[p] = "stageCsv"
  /\ managed' = [managed EXCEPT ![p] = @ \cup {Csv(t)}]
  /\ NoFault /\ Proceed(p, CopyLabel(WantsCopy(p, Csv(t))))
  /\ UNCHANGED <<program, live, idx, stageDir, stage, lists, output>>

StageCsv(p) ==
  LET t == Stmt(p).table IN
  /\ pc[p] = "stageCsv"
  /\ managed' = [managed EXCEPT ![p] = @ \cup {Csv(t), Schema(t)}]
  /\ \/ NoFault /\ Proceed(p, CopyLabel(WantsCopy(p, Csv(t))))
     \/ /\ Fault("exists")
        /\ live[Csv(t)] # NoFile
        /\ Proceed(p, CopyLabel(~WantsCopy(p, Csv(t))))
  /\ UNCHANGED <<program, live, idx, stageDir, stage, lists, output>>

\* copy_file_bytes; the live file may have gone since it was seen.
CopyCsv(p) ==
  LET n == Csv(Stmt(p).table) IN
  /\ pc[p] = "copyCsv"
  /\ \/ /\ NoFault
        /\ live[n] # NoFile
        /\ PutStaged(p, n, live[n])
        /\ Proceed(p, "stageSchema")
     \/ /\ NoFault
        /\ live[n] = NoFile
        /\ Fail(p, "io", "cleanup")
        /\ UNCHANGED stage
     \/ /\ Fault("stageCopy")
        /\ Fail(p, "io", "cleanup")
        /\ \E torn \in {stage[p][n], <<>>} : PutStaged(p, n, torn)
  /\ UNCHANGED <<program, live, idx, stageDir, managed, lists, output>>

\* The schema file: nothing ever writes a live one, so one step suffices.
StageSchema(p) ==
  LET n == Schema(Stmt(p).table) IN
  /\ pc[p] = "stageSchema"
  /\ \/ /\ NoFault
        /\ IF WantsCopy(p, n) THEN PutStaged(p, n, live[n]) ELSE UNCHANGED stage
        /\ Proceed(p, "exec")
     \/ /\ Fault("exists")
        /\ live[n] # NoFile
        /\ IF WantsCopy(p, n) THEN UNCHANGED stage ELSE PutStaged(p, n, live[n])
        /\ Proceed(p, "exec")
     \/ /\ Fault("stageCopy")
        /\ WantsCopy(p, n)
        /\ Fail(p, "io", "cleanup")
        /\ \E torn \in {NoFile, <<>>} : PutStaged(p, n, torn)
  /\ UNCHANGED <<program, live, idx, stageDir, managed, lists, output>>

----------------------------------------------------------------------------
(***************************************************************************)
(* execute_statement_unstaged on the stage copies, or on the live files if *)
(* the script only reads, and the bookkeeping execute_script does after    *)
(* it.                                                                     *)
(***************************************************************************)
ExecDir(p) == IF Staging(p) THEN stage[p] ELSE live

NextLabel(p) ==
  CASE idx[p] < Len(script[p])  -> FirstLabel(p)
    [] idx[p] >= Len(script[p]) -> IF Staging(p) THEN "commitCopy" ELSE "flush"

\* The statement takes effect: c is the CSV file as file_exists and fopen see it.
Perform(p, s, c) ==
  LET n == Csv(Stmt(p).table) IN
  /\ Accepts(s, c, Stmt(p))
  /\ IF Stmt(p).kind = "INSERT"
     THEN /\ PutStaged(p, n, FileAfter(s, c, Stmt(p)))
          /\ touched' = [touched EXCEPT ![p] = AppendUnique(@, n)]
     ELSE UNCHANGED <<stage, touched>>
  /\ buf' = [buf EXCEPT ![p] = @ \o Reply(s, c, Stmt(p))]
  /\ idx' = [idx EXCEPT ![p] = @ + 1]
  /\ Proceed(p, NextLabel(p))

\* The statement is rejected and the files are as they were.
Reject(p, s, c) ==
  /\ ~Accepts(s, c, Stmt(p))
  /\ Fail(p, "statement", "cleanup")
  /\ UNCHANGED <<stage, touched, buf, idx>>

ExecuteStatement(p) ==
  LET s == ExecDir(p)[Schema(Stmt(p).table)]
      n == Csv(Stmt(p).table)
      c == ExecDir(p)[n]
  IN
  /\ pc[p] = "exec"
  /\ ~SchemaCrashes(s)
  /\ \/ NoFault /\ (Perform(p, s, c) \/ Reject(p, s, c))
     \/ /\ Fault("exists")
        /\ Stmt(p).kind = "INSERT"
        /\ c # NoFile
        /\ (Perform(p, s, NoFile) \/ Reject(p, s, NoFile))
     \/ /\ Fault("exec")
        /\ Fail(p, "io", "cleanup")
        /\ \/ UNCHANGED stage
           \/ /\ Stmt(p).kind = "INSERT"
              /\ Accepts(s, c, Stmt(p))
              /\ PutStaged(p, n, TornFile(c))
        /\ UNCHANGED <<touched, buf, idx>>
  /\ UNCHANGED <<program, live, stageDir, managed, committed, hadOriginal, out>>

\* load_table_schema reads row.fields after csv_row_free cleared it: a null
\* pointer, so the process dies and leaves what it had made.
DieOnSchema(p) ==
  /\ pc[p] = "exec"
  /\ SchemaCrashes(ExecDir(p)[Schema(Stmt(p).table)])
  /\ alive' = [alive EXCEPT ![p] = FALSE]
  /\ UNCHANGED <<live, orig, script, pc, idx, stageDir, stage, managed, lists,
                 output, err, faults>>

----------------------------------------------------------------------------
(***************************************************************************)
(* commit_staged_csvs.  Position committed[p] + 1 of touched[p] is the CSV *)
(* file in hand, committed[p] the index in its reserved names.             *)
(***************************************************************************)
Target(p) == touched[p][committed[p] + 1]
Backup(p) == Rollback(committed[p])
Temp(p)   == Commit(committed[p])

\* copy_file_bytes(source, temp).  A table named like the temp file is copied
\* onto itself: opening the target truncates the source before it is read.
CopiedForCommit(p) == IF Target(p) = Temp(p) THEN <<>> ELSE stage[p][Target(p)]

CommitCopy(p) ==
  /\ pc[p] = "commitCopy"
  /\ managed' = [managed EXCEPT ![p] = @ \cup {Backup(p), Temp(p)}]
  /\ \/ /\ NoFault
        /\ stage[p][Target(p)] # NoFile
        /\ PutStaged(p, Temp(p), CopiedForCommit(p))
        /\ Proceed(p, "commitCheck")
     \/ /\ NoFault
        /\ stage[p][Target(p)] = NoFile
        /\ Fail(p, "io", "cleanup")
        /\ UNCHANGED stage
     \/ /\ Fault("commitCopy")
        /\ Fail(p, "io", "cleanup")
        /\ \E torn \in {stage[p][Temp(p)], <<>>} : PutStaged(p, Temp(p), torn)
  /\ UNCHANGED <<program, live, idx, stageDir, lists, output>>

\* Planted fault: that the CSV file was there is not recorded.
CommitForgets(p) ==
  /\ pc[p] = "commitCheck"
  /\ NoFault
  /\ Proceed(p, IF live[Target(p)] # NoFile THEN "backup" ELSE "replace")
  /\ UNCHANGED <<program, live, idx, stageDir, stage, managed, lists, output>>

CommitCheck(p) ==
  /\ pc[p] = "commitCheck"
  /\ \/ /\ NoFault
        /\ live[Target(p)] # NoFile
        /\ hadOriginal' = [hadOriginal EXCEPT ![p] = @ \cup {committed[p]}]
        /\ Proceed(p, "backup")
     \/ /\ \/ NoFault /\ live[Target(p)] = NoFile
           \/ Fault("exists") /\ live[Target(p)] # NoFile
        /\ Proceed(p, "replace")
        /\ UNCHANGED hadOriginal
  /\ UNCHANGED <<program, live, idx, stageDir, stage, managed, touched, committed, output>>

\* Planted fault: the live file is removed to make room, not moved away.
RemoveOriginal(p) ==
  /\ pc[p] = "backup"
  /\ NoFault
  /\ PutLive(Target(p), NoFile)
  /\ Proceed(p, "replace")
  /\ UNCHANGED <<program, idx, stageDir, stage, managed, lists, output>>

\* Planted fault: the live file is cut short to be written anew in place.
CutOriginal(p) ==
  /\ pc[p] = "backup"
  /\ NoFault /\ live[Target(p)] # NoFile
  /\ PutStaged(p, Backup(p), live[Target(p)])
  /\ PutLive(Target(p), SubSeq(live[Target(p)], 1, 1))
  /\ Proceed(p, "replace")
  /\ UNCHANGED <<program, idx, stageDir, managed, lists, output>>

\* rename moves the file over whatever the new name held.
BackUpOriginal(p) ==
  /\ pc[p] = "backup"
  /\ \/ /\ NoFault
        /\ live[Target(p)] # NoFile
        /\ PutStaged(p, Backup(p), live[Target(p)])
        /\ PutLive(Target(p), NoFile)
        /\ Proceed(p, "replace")
     \/ /\ \/ NoFault /\ live[Target(p)] = NoFile
           \/ Fault("backup") /\ live[Target(p)] # NoFile
        /\ Fail(p, "io", "cleanup")
        /\ UNCHANGED <<live, stage>>
  /\ UNCHANGED <<program, idx, stageDir, managed, lists, output>>

\* Planted fault: a failed replace rolls back the earlier files only.
ReplaceOrRollBack(p) ==
  /\ pc[p] = "replace"
  /\ \/ /\ NoFault
        /\ PutLive(Target(p), stage[p][Temp(p)])
        /\ PutStaged(p, Temp(p), NoFile)
        /\ committed' = [committed EXCEPT ![p] = @ + 1]
        /\ Proceed(p, IF committed[p] + 1 < Len(touched[p]) THEN "commitCopy" ELSE "flush")
     \/ Fault("replace") /\ Fail(p, "io", "rollback") /\ UNCHANGED <<live, stage, committed>>
  /\ UNCHANGED <<program, idx, stageDir, managed, touched, hadOriginal, output>>

Replace(p) ==
  /\ pc[p] = "replace"
  /\ \/ /\ NoFault
        /\ PutLive(Target(p), stage[p][Temp(p)])
        /\ PutStaged(p, Temp(p), NoFile)
        /\ committed' = [committed EXCEPT ![p] = @ + 1]
        /\ Proceed(p, IF committed[p] + 1 < Len(touched[p]) THEN "commitCopy" ELSE "flush")
     \/ /\ Fault("replace")
        /\ Fail(p, "io", IF committed[p] \in hadOriginal[p] THEN "restore" ELSE "rollback")
        /\ UNCHANGED <<live, stage, committed>>
  /\ UNCHANGED <<program, idx, stageDir, managed, touched, hadOriginal, output>>

\* Planted fault: a failed restore keeps the error of the failed replace.
RestoreQuietly(p) ==
  /\ pc[p] = "restore"
  /\ \/ /\ NoFault
        /\ PutLive(Target(p), stage[p][Backup(p)])
        /\ PutStaged(p, Backup(p), NoFile)
        /\ Proceed(p, "rollback")
     \/ Fault("restore") /\ Proceed(p, "cleanup") /\ UNCHANGED <<live, stage>>
  /\ UNCHANGED <<program, idx, stageDir, managed, lists, output>>

\* The CSV file in hand first; if that fails the earlier ones are not tried.
RestoreCurrent(p) ==
  /\ pc[p] = "restore"
  /\ \/ /\ NoFault
        /\ PutLive(Target(p), stage[p][Backup(p)])
        /\ PutStaged(p, Backup(p), NoFile)
        /\ Proceed(p, "rollback")
     \/ Fault("restore") /\ Fail(p, "rollback", "cleanup") /\ UNCHANGED <<live, stage>>
  /\ UNCHANGED <<program, idx, stageDir, managed, lists, output>>

----------------------------------------------------------------------------
(***************************************************************************)
(* rollback_committed_csvs: the committed CSV files, last one first.  The  *)
(* first failure ends it and takes the place of the error reported so far. *)
(***************************************************************************)
\* Planted fault: the index is not counted down.
UndoneAgain(p) == UNCHANGED committed /\ Proceed(p, "rollback")

Undone(p) == committed' = [committed EXCEPT ![p] = @ - 1] /\ Proceed(p, "rollback")

\* The file is gone: its backup comes back, or the next file is undone.
Removed(p) ==
  IF committed[p] - 1 \in hadOriginal[p]
  THEN Proceed(p, "rollbackMove") /\ UNCHANGED committed
  ELSE Undone(p)

\* remove_file_if_exists: the file is looked for, then removed; it may have
\* gone in between.
RollbackCheck(p) ==
  LET n == touched[p][committed[p]] IN
  /\ pc[p] = "rollback"
  /\ committed[p] > 0
  /\ \/ NoFault /\ live[n] # NoFile /\ Proceed(p, "rollbackRemove") /\ UNCHANGED committed
     \/ NoFault /\ live[n] = NoFile /\ Removed(p)
     \/ Fault("exists") /\ live[n] # NoFile /\ Removed(p)
  /\ UNCHANGED <<program, live, idx, stageDir, stage, managed, touched, hadOriginal, output>>

RollbackRemove(p) ==
  LET n == touched[p][committed[p]] IN
  /\ pc[p] = "rollbackRemove"
  /\ \/ NoFault /\ live[n] # NoFile /\ PutLive(n, NoFile) /\ Removed(p)
     \/ /\ \/ NoFault /\ live[n] = NoFile
           \/ Fault("remove") /\ live[n] # NoFile
        /\ Fail(p, "rollback", "cleanup")
        /\ UNCHANGED <<live, committed>>
  /\ UNCHANGED <<program, idx, stageDir, stage, managed, touched, hadOriginal, output>>

\* Planted fault: the backup of the next file is moved back.
RollbackMoveNext(p) ==
  LET n == touched[p][committed[p]]
      b == Rollback(committed[p])
  IN
  /\ pc[p] = "rollbackMove"
  /\ NoFault /\ PutLive(n, stage[p][b]) /\ PutStaged(p, b, NoFile) /\ Undone(p)
  /\ UNCHANGED <<program, idx, stageDir, managed, touched, hadOriginal, output>>

RollbackMove(p) ==
  LET n == touched[p][committed[p]]
      b == Rollback(committed[p] - 1)
  IN
  /\ pc[p] = "rollbackMove"
  /\ \/ NoFault /\ PutLive(n, stage[p][b]) /\ PutStaged(p, b, NoFile) /\ Undone(p)
     \/ /\ Fault("restore")
        /\ Fail(p, "rollback", "cleanup")
        /\ UNCHANGED <<live, stage, committed>>
  /\ UNCHANGED <<program, idx, stageDir, managed, touched, hadOriginal, output>>

\* Planted fault: the loop leaves its index below zero.
RollbackEndsBelow(p) ==
  /\ pc[p] = "rollback"
  /\ committed[p] = 0
  /\ NoFault
  /\ committed' = [committed EXCEPT ![p] = @ - 1]
  /\ Proceed(p, "cleanup")
  /\ UNCHANGED <<program, live, idx, stageDir, stage, managed, touched, hadOriginal, output>>

RollbackEnds(p) ==
  /\ pc[p] = "rollback"
  /\ committed[p] = 0
  /\ NoFault
  /\ Proceed(p, "cleanup")
  /\ UNCHANGED <<program, live, idx, stageDir, stage, managed, lists, output>>

----------------------------------------------------------------------------
Prefix(s, k) == SubSeq(s, 1, k)

\* Planted fault: the tables stay committed when the output fails.
FlushOnly(p) ==
  /\ pc[p] = "flush"
  /\ \/ NoFault /\ out' = [out EXCEPT ![p] = buf[p]] /\ Proceed(p, "cleanup")
     \/ Fault("output") /\ Fail(p, "output", "cleanup") /\ UNCHANGED out
  /\ UNCHANGED <<program, live, idx, stageDir, stage, managed, lists, buf>>

\* flush_and_copy_output; a failure may come after some of the output.
Flush(p) ==
  /\ pc[p] = "flush"
  /\ \/ NoFault /\ out' = [out EXCEPT ![p] = buf[p]] /\ Proceed(p, "cleanup")
     \/ /\ Fault("output")
        /\ \E k \in 0 .. Len(buf[p]) : out' = [out EXCEPT ![p] = Prefix(buf[p], k)]
        /\ Fail(p, "output", IF Staging(p) THEN "rollback" ELSE "cleanup")
  /\ UNCHANGED <<program, live, idx, stageDir, stage, managed, lists, buf>>

\* Planted fault: rmdir comes before the buffer is removed.
SweepBufferLast(p, bufStays, staying, dirStays) ==
  LET left == [n \in StageFiles |-> IF n \in managed[p] \ staying THEN NoFile
                                                                 ELSE stage[p][n]]
  IN
  /\ buf' = [buf EXCEPT ![p] = IF bufStays THEN @ ELSE NoFile]
  /\ stage' = [stage EXCEPT ![p] = left]
  /\ stageDir' = [stageDir EXCEPT ![p] = /\ @
                                         /\ \/ dirStays \/ buf[p] # NoFile
                                            \/ \E n \in StageFiles : left[n] # NoFile]

\* The buffer and the managed files are removed, except those that stay, and
\* the directory goes unless it stays too or is not empty.
Sweep(p, bufStays, staying, dirStays) ==
  LET left == [n \in StageFiles |-> IF n \in managed[p] \ staying THEN NoFile
                                                                 ELSE stage[p][n]]
  IN
  /\ buf' = [buf EXCEPT ![p] = IF bufStays THEN @ ELSE NoFile]
  /\ stage' = [stage EXCEPT ![p] = left]
  /\ stageDir' = [stageDir EXCEPT ![p] = /\ @
                                         /\ \/ dirStays \/ bufStays
                                            \/ \E n \in StageFiles : left[n] # NoFile]

\* What may be left of the managed files by a remove that fails or is not reached.
Unswept(p) == SUBSET {n \in managed[p] : stage[p][n] # NoFile}

\* cleanup_stage_dir and the removal of the buffer before it.  Failures are
\* ignored; one of the count MaxFaults lets any of the removes and the rmdir fail.
Cleanup(p) ==
  /\ pc[p] = "cleanup"
  /\ \/ NoFault /\ Sweep(p, FALSE, {}, FALSE)
     \/ /\ Fault("cleanup")
        /\ \E bufStays, dirStays \in BOOLEAN, staying \in Unswept(p) :
             Sweep(p, bufStays, staying, dirStays)
  /\ Proceed(p, "done")
  /\ UNCHANGED <<program, live, idx, managed, lists, out>>

----------------------------------------------------------------------------
Step(p) ==
  /\ alive[p]
  /\ \/ MakeStageDir(p)     \/ OpenBuffer(p)   \/ StageCsv(p)       \/ CopyCsv(p)
     \/ StageSchema(p)      \/ DieOnSchema(p)  \/ ExecuteStatement(p)
     \/ CommitCopy(p)       \/ CommitCheck(p)  \/ BackUpOriginal(p) \/ Replace(p)
     \/ RestoreCurrent(p)   \/ RollbackCheck(p)  \/ RollbackRemove(p)
     \/ RollbackMove(p)     \/ RollbackEnds(p) \/ Flush(p)         \/ Cleanup(p)

\* The process is killed: inside Flush some of the output may be out, inside
\* Cleanup the buffer and some of the managed files may be gone.
Crash(p) ==
  /\ p \in Crashable
  /\ alive[p]
  /\ pc[p] # "done"
  /\ alive' = [alive EXCEPT ![p] = FALSE]
  /\ \/ UNCHANGED <<out, buf, stage, stageDir>>
     \/ /\ pc[p] = "flush"
        /\ \E k \in 1 .. Len(buf[p]) : out' = [out EXCEPT ![p] = Prefix(buf[p], k)]
        /\ UNCHANGED <<buf, stage, stageDir>>
     \/ /\ pc[p] = "cleanup"
        /\ \E staying \in Unswept(p) : Sweep(p, FALSE, staying, TRUE)
        /\ UNCHANGED out
  /\ UNCHANGED <<live, orig, script, pc, idx, managed, lists, err, faults>>

\* Every process has returned or is gone.
Terminated ==
  /\ \A p \in Procs : pc[p] = "done" \/ ~alive[p]
  /\ UNCHANGED vars

Next == Terminated \/ \E p \in Procs : Step(p) \/ Crash(p)

Spec == Init /\ [][Next]_vars /\ \A p \in Procs : WF_vars(Step(p))

----------------------------------------------------------------------------
\* Every variable has its type.
TypeOK ==
  /\ live \in DataDir
  /\ orig \in DataDir
  /\ script \in [Procs -> Seq(Statement)]
  /\ pc \in [Procs -> Labels]
  /\ alive \in [Procs -> BOOLEAN]
  /\ idx \in [Procs -> 1 .. (MaxStatements + 1)]
  /\ stageDir \in [Procs -> BOOLEAN]
  /\ stage \in [Procs -> [StageFiles -> File]]
  /\ managed \in [Procs -> SUBSET StageFiles]
  /\ touched \in [Procs -> Seq(CsvFiles)]
  /\ committed \in [Procs -> 0 .. MaxStatements]
  /\ hadOriginal \in [Procs -> SUBSET Index]
  /\ buf \in [Procs -> File]
  /\ out \in [Procs -> Content]
  /\ err \in [Procs -> {"none", "statement", "io", "output", "rollback"}]
  /\ faults \in 0 .. MaxFaults
=============================================================================
