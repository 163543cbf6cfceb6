---------------------------- MODULE AtomicScript ----------------------------
(***************************************************************************)
(* The contract of docs/PHASE3_IMPLEMENTATION_NOTES.md (sections 9 and 10) *)
(* as a specification: each script happens at one instant.  Either all its *)
(* statements take effect and all its output is shown, or no table changes *)
(* and what is shown is at most a beginning of that output, which          *)
(* docs/EDGE_CASE_FIXES.md concedes for a stream that fails half way.      *)
(***************************************************************************)
EXTENDS Naturals, Sequences

CONSTANTS Procs, DataDirs, ScriptsOf,
          Results(_, _)   \* the ways a script may go on a data directory

VARIABLES tables,   \* the data directory
          script,   \* the script of each process
          shown,    \* what each has written to its stream
          outcome   \* "running", "ok" or "failed"

avars == <<tables, script, shown, outcome>>

Init ==
  /\ tables \in DataDirs
  /\ script \in [Procs -> UNION {ScriptsOf[p] : p \in Procs}]
  /\ shown = [p \in Procs |-> <<>>]
  /\ outcome = [p \in Procs |-> "running"]

Commit(p) ==
  /\ outcome[p] = "running"
  /\ \E r \in Results(tables, script[p]) :
       /\ r.ok
       /\ tables' = r.dir
       /\ shown' = [shown EXCEPT ![p] = r.lines]
  /\ outcome' = [outcome EXCEPT ![p] = "ok"]
  /\ UNCHANGED script

\* Rejected, refused by the file system, or killed.
Abort(p) ==
  /\ outcome[p] = "running"
  /\ \E r \in Results(tables, script[p]) :
       \E k \in 0 .. (IF r.ok THEN Len(r.lines) ELSE 0) :
         shown' = [shown EXCEPT ![p] = SubSeq(r.lines, 1, k)]
  /\ outcome' = [outcome EXCEPT ![p] = "failed"]
  /\ UNCHANGED <<tables, script>>

Next == \E p \in Procs : Commit(p) \/ Abort(p)

Spec == Init /\ [][Next]_avars /\ \A p \in Procs : WF_avars(Commit(p) \/ Abort(p))
=============================================================================
