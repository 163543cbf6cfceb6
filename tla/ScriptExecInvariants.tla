------------------------ MODULE ScriptExecInvariants ------------------------
(***************************************************************************)
(* Invariants of ScriptExec that the proofs establish for every value of   *)
(* the constants, and the strengthenings that make them inductive.         *)
(***************************************************************************)
EXTENDS ScriptExec

----------------------------------------------------------------------------
(***************************************************************************)
(* Where the counters and lists stand at each label: what makes TypeOK     *)
(* inductive.                                                              *)
(***************************************************************************)
StatementLabels == {"stageCsv", "copyCsv", "stageSchema", "exec"}
CommitLabels    == {"commitCopy", "commitCheck", "backup", "replace", "restore"}
BufferedLabels  == StatementLabels \cup CommitLabels \cup {"flush"}
EarlyLabels     == StatementLabels \cup {"mkdir", "buffer"}

\* A statement is at hand while one is executed, and a CSV file while one is
\* committed; the touched CSV files are no more than the statements behind.
InStep(p) ==
  /\ Len(script[p]) <= MaxStatements
  /\ idx[p] <= Len(script[p]) + 1
  /\ Len(touched[p]) < idx[p]
  /\ committed[p] <= Len(touched[p])
  /\ pc[p] \in EarlyLabels => idx[p] <= Len(script[p]) /\ committed[p] = 0
  /\ pc[p] \in CommitLabels => committed[p] < Len(touched[p])
  /\ pc[p] \in {"rollbackRemove", "rollbackMove"} => committed[p] > 0
  /\ pc[p] \in BufferedLabels => buf[p] # NoFile
  /\ \A k \in 1 .. (idx[p] - 1) : script[p][k].kind = "INSERT" => touched[p] # <<>>

ListsInStep == \A p \in Procs : InStep(p)
----------------------------------------------------------------------------
(***************************************************************************)
(* What cleanup_stage_dir relies on.                                       *)
(***************************************************************************)
Returned(p) == pc[p] = "done"

\* Nothing of p's is left: no buffer, no stage directory, no file in it.
Clean(p) ==
  /\ buf[p] = NoFile
  /\ ~stageDir[p]
  /\ \A n \in StageFiles : stage[p][n] = NoFile

\* Every file in a stage directory is on the list cleanup_stage_dir works
\* from, however far the script got and whatever failed on the way.
StageFilesManaged ==
  \A p \in Procs, n \in StageFiles : stage[p][n] # NoFile => n \in managed[p]

\* A script that has returned leaves no file and no stage directory behind,
\* whatever else failed, as long as no remove fails in cleanup_stage_dir.
NoResidue ==
  \A p \in Procs : Returned(p) /\ "cleanup" \notin FaultPoints => Clean(p)

\* The names the operation at hand may create are on the list before it runs.
NamesInHand(p) ==
  /\ pc[p] \in {"copyCsv", "stageSchema"} \/ (pc[p] = "exec" /\ Staging(p)) =>
       {Csv(Stmt(p).table), Schema(Stmt(p).table)} \subseteq managed[p]
  /\ pc[p] \in {"commitCheck", "backup", "replace"} =>
       {Backup(p), Temp(p)} \subseteq managed[p]

\* What makes the two inductive.
Covered(p) ==
  /\ \A n \in StageFiles : stage[p][n] # NoFile => n \in managed[p]
  /\ pc[p] = "mkdir" \/ (Returned(p) /\ "cleanup" \notin FaultPoints) => Clean(p)
  /\ NamesInHand(p)
----------------------------------------------------------------------------
(***************************************************************************)
(* What a script does to the tables it found.                              *)
(***************************************************************************)
\* How a script stands for its caller: the error, or success once its output
\* is out, or failure if it was killed before.
Outcome ==
  [p \in Procs |->
     IF err[p] # "none" THEN "failed"
     ELSE IF pc[p] \in {"cleanup", "done"} THEN "ok"
     ELSE IF alive[p] THEN "running" ELSE "failed"]

\* The CSV files p's statements have changed so far.
Touched(p) == {touched[p][k] : k \in DOMAIN touched[p]}

\* No table's rows are ever out of reach: until a script that changed it has
\* succeeded, the original of each CSV file is in place or under its rollback
\* name in a stage directory, whatever fails and wherever the process is killed
\* (commit_staged_csvs moves originals before it replaces them).
OriginalRecoverable ==
  \A n \in CsvFiles :
    \/ orig[n] = NoFile
    \/ live[n] = orig[n]
    \/ \E p \in Procs : Outcome[p] = "ok" /\ n \in Touched(p)
    \/ \E p \in Procs, i \in Index : stage[p][Rollback(i)] = orig[n]

\* A script that fails, its rollback having worked, leaves the data directory
\* as it was (PHASE3_IMPLEMENTATION_NOTES.md:195, EDGE_CASE_FIXES.md:19-20),
\* but for the tables other scripts have changed.
FailedScriptLeavesData ==
  \A p \in Procs :
    Returned(p) /\ err[p] \notin {"none", "rollback"} =>
      \A n \in TableFiles : live[n] = orig[n] \/ \E q \in Procs \ {p} : n \in Touched(q)

\* The CSV files whose commit took them for new ones.
TakenForNew(p) == {touched[p][k] : k \in {j \in DOMAIN touched[p] : (j - 1) \notin hadOriginal[p]}}

\* A table that was there and is gone once its script has returned is never
\* passed over: the error is the failed rollback, whatever went wrong before
\* (EDGE_CASE_FIXES.md:20 and 36), unless the commit took the table for a new one.
LossIsReported ==
  \A p \in Procs, n \in CsvFiles :
    Returned(p) /\ orig[n] # NoFile /\ live[n] = NoFile =>
      err[p] = "rollback" \/ n \in TakenForNew(p)

----------------------------------------------------------------------------
(***************************************************************************)
(* What makes the first two inductive, for processes that do not write     *)
(* what others use and whose failures the code undoes: where the original  *)
(* of each table is during the commit.                                     *)
(***************************************************************************)
\* The files the scripts of p may name, and those they may write.
Uses(p) ==
  {n \in TableFiles : \E s \in ScriptsOf[p] : \E k \in DOMAIN s :
                        n \in {Csv(s[k].table), Schema(s[k].table)}}
Writes(p) ==
  {n \in TableFiles : \E s \in ScriptsOf[p] : \E k \in DOMAIN s :
                        s[k].kind = "INSERT" /\ n = Csv(s[k].table)}

\* No process may write what another uses.  One process alone satisfies this.
Apart == \A p, q \in Procs : p # q => Writes(p) \cap Uses(q) = {}

\* What p uses is as p found it: as in d, the data directory when p began.
AsFound(p, d) == \A n \in Uses(p) : live[n] = d[n]

\* The original of the k-th touched CSV file is under its rollback name, or
\* there was none.
Kept(p, d, k) ==
  IF k - 1 \in hadOriginal[p]
  THEN d[touched[p][k]] # NoFile /\ stage[p][Rollback(k - 1)] = d[touched[p][k]]
  ELSE d[touched[p][k]] = NoFile

\* The same for the CSV file in hand.
KeptInHand(p, d) ==
  IF committed[p] \in hadOriginal[p]
  THEN d[Target(p)] # NoFile /\ stage[p][Backup(p)] = d[Target(p)]
  ELSE d[Target(p)] = NoFile

\* Of what p uses, only its first m touched CSV files may differ from what was
\* found.
RestAsFound(p, d, m) ==
  \A n \in Uses(p) : (\A k \in 1 .. m : touched[p][k] # n) => live[n] = d[n]

UndoLabels == {"restore", "rollback", "rollbackRemove", "rollbackMove"}

\* The touched CSV files are distinct, among those p's script inserts into, and
\* staged until the stage is swept.
TouchedStaged(p) ==
  /\ Touched(p) \subseteq Writes(p)
  /\ \A j, k \in DOMAIN touched[p] : touched[p][j] = touched[p][k] => j = k
  /\ pc[p] \notin {"cleanup", "done"} =>
       \A k \in DOMAIN touched[p] : stage[p][touched[p][k]] # NoFile

\* An error is reported exactly where the commit is being undone.
ErrorInStep(p) ==
  /\ pc[p] \in UndoLabels => err[p] # "none"
  /\ pc[p] \in (Labels \ UndoLabels) \ {"cleanup", "done"} => err[p] = "none"

OriginalsKept(p, d) ==
  /\ pc[p] \in EarlyLabels => hadOriginal[p] = {} /\ AsFound(p, d)
  /\ pc[p] \in {"cleanup", "done"} /\ err[p] # "none" => AsFound(p, d)
  /\ pc[p] \in CommitLabels \cup UndoLabels \cup {"flush"} =>
       \A k \in 1 .. committed[p] : Kept(p, d, k)
  /\ pc[p] \in {"commitCopy", "commitCheck", "backup", "rollback", "rollbackRemove",
                "rollbackMove", "flush"} =>
       RestAsFound(p, d, committed[p])
  /\ pc[p] \in {"commitCopy", "commitCheck"} =>
       hadOriginal[p] \subseteq 0 .. (committed[p] - 1)
  /\ pc[p] = "backup" =>
       /\ hadOriginal[p] \subseteq 0 .. committed[p]
       /\ committed[p] \in hadOriginal[p]
       /\ live[Target(p)] # NoFile
  /\ pc[p] \in {"replace", "restore"} =>
       /\ hadOriginal[p] \subseteq 0 .. committed[p]
       /\ RestAsFound(p, d, committed[p] + 1)
       /\ KeptInHand(p, d)
       /\ pc[p] = "restore" => committed[p] \in hadOriginal[p]
       /\ live[Target(p)] = NoFile
  /\ pc[p] = "rollbackRemove" => live[touched[p][committed[p]]] # NoFile
  /\ pc[p] = "rollbackMove" =>
       /\ committed[p] - 1 \in hadOriginal[p]
       /\ live[touched[p][committed[p]]] = NoFile

\* Whatever the tables are, the file of one no script has changed is in place.
OthersAsFound ==
  \A n \in TableFiles : live[n] = orig[n] \/ \E p \in Procs : n \in Touched(p)

Guarded(p, d) == TouchedStaged(p) /\ ErrorInStep(p) /\ OriginalsKept(p, d)

----------------------------------------------------------------------------
(***************************************************************************)
(* What makes the third inductive, for one process and any failures: which *)
(* table may be missing at each label, and what it can be put back from.   *)
(***************************************************************************)
Gone(n) == orig[n] # NoFile /\ live[n] = NoFile

\* Every original moved away before the m-th is under its rollback name.
BackupsThere(p, m) ==
  /\ hadOriginal[p] \subseteq 0 .. (m - 1)
  /\ \A i \in hadOriginal[p] : i < committed[p] => stage[p][Rollback(i)] # NoFile

LossTraced(p) ==
  /\ pc[p] \in EarlyLabels => live = orig /\ hadOriginal[p] = {}
  /\ pc[p] \in {"commitCopy", "commitCheck", "flush"} => BackupsThere(p, committed[p])
  /\ pc[p] \in {"backup", "replace", "restore"} => BackupsThere(p, committed[p] + 1)
  /\ pc[p] \in UndoLabels =>
       \A i \in hadOriginal[p] : i < committed[p] => stage[p][Rollback(i)] # NoFile
  /\ pc[p] \in {"commitCheck", "backup", "replace"} => stage[p][Temp(p)] # NoFile
  /\ pc[p] \in {"commitCopy", "commitCheck", "backup", "flush"} => \A n \in CsvFiles : ~Gone(n)
  /\ pc[p] \in {"replace", "restore"} =>
       /\ \A n \in CsvFiles : Gone(n) => n = Target(p) /\ committed[p] \in hadOriginal[p]
       /\ committed[p] \in hadOriginal[p] => stage[p][Backup(p)] # NoFile
  /\ pc[p] \in {"backup", "restore"} => committed[p] \in hadOriginal[p]
  /\ pc[p] \in {"rollback", "rollbackRemove"} =>
       \A n \in CsvFiles : Gone(n) => n \in TakenForNew(p)
  /\ pc[p] = "rollbackMove" =>
       /\ \A n \in CsvFiles : Gone(n) => n \in TakenForNew(p) \/ n = touched[p][committed[p]]
       /\ committed[p] - 1 \in hadOriginal[p]
  /\ pc[p] \in {"cleanup", "done"} =>
       \A n \in CsvFiles : Gone(n) => err[p] = "rollback" \/ n \in TakenForNew(p)
=============================================================================
