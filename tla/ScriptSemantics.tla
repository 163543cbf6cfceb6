-------------------------- MODULE ScriptSemantics --------------------------
(***************************************************************************)
(* What a script is meant to do: its statements, one after the other,      *)
(* directly on the data directory, up to the first one that is rejected.   *)
(* No stage, no buffer, no files that come and go.                         *)
(***************************************************************************)
EXTENDS Storage, SequencesExt

Fresh(dir) == [dir |-> dir, lines |-> <<>>, ok |-> TRUE]

\* One statement, as execute_statement_unstaged performs it.
Do(st, stmt) ==
  LET s == st.dir[Schema(stmt.table)]
      c == st.dir[Csv(stmt.table)]
  IN  IF st.ok /\ Accepts(s, c, stmt)
      THEN [st EXCEPT !.dir[Csv(stmt.table)] = FileAfter(s, c, stmt),
                      !.lines = @ \o Reply(s, c, stmt)]
      ELSE [st EXCEPT !.ok = FALSE]

\* The ways the first k statements may go on a directory, and the whole
\* script: there is one.
Progress(dir, script) ==
  LET after[k \in 0 .. Len(script)] ==
        IF k = 0 THEN {Fresh(dir)} ELSE {Do(st, script[k]) : st \in after[k - 1]}
  IN  after

Results(dir, script) == Progress(dir, script)[Len(script)]

\* The CSV files the first k statements insert into.
InsertedUpTo(k, script) ==
  {Csv(script[i].table) : i \in {j \in DOMAIN script : j <= k /\ script[j].kind = "INSERT"}}

\* Where a commit, or the undoing of one, may stop for good (the returns of
\* commit_staged_csvs and rollback_committed_csvs that undo nothing or no more):
\* the files of the first statements are as the whole script makes them, the
\* next one may be moved away, and the rest is as it was.
Halfway(dir, script) ==
  {[n \in TableFiles |-> IF n \in InsertedUpTo(k, script) THEN r.dir[n]
                         ELSE IF n \in InsertedUpTo(k + moving, script) THEN NoFile ELSE dir[n]] :
     r \in {q \in Results(dir, script) : q.ok}, k \in 0 .. Len(script), moving \in 0 .. 1}
=============================================================================
