---------------------------- MODULE ScriptOrder ----------------------------
(***************************************************************************)
(* ScriptExec with a record of which scripts were over before another      *)
(* began.  Nothing in the program keeps two processes apart; whoever calls *)
(* it may do so by running them one after the other.                       *)
(***************************************************************************)
EXTENDS ScriptExecProps

VARIABLE earlier    \* history: the processes that were over when each began

Waiting(p) == pc[p] = IF Staging(p) THEN "mkdir" ELSE "buffer"

OrderInit == Init /\ earlier = [p \in Procs |-> {}]

OrderNext ==
  /\ Next
  /\ earlier' = [p \in Procs |->
                   IF Waiting(p) /\ pc'[p] # pc[p] THEN {q \in Procs : Returned(q) \/ ~alive[q]} ELSE earlier[p]]

OrderSpec == OrderInit /\ [][OrderNext]_<<vars, earlier>>

----------------------------------------------------------------------------
\* What p does to a directory it has for itself: all it was asked, or nothing.
Effect(p, dir) ==
  IF Succeeded(p) THEN LET r == CHOOSE q \in Results(dir, script[p]) : TRUE IN r.dir ELSE dir

\* Two scripts that do not overlap are serial: the second works on the tables
\* the first has left, rows and all, no row of either is lost, and a failed one
\* might as well not have run.  Nothing the first left behind, in the stage or
\* in its lists, reaches the second (execute_script from its first call to
\* cleanup_stage_dir).
SerialScriptsAdd ==
  \A p, q \in Procs :
    Procs = {p, q} /\ p \in earlier[q] /\ Returned(p) /\ Returned(q) =>
      /\ live = Effect(q, Effect(p, orig))
      /\ Succeeded(q) => \E r \in Results(Effect(p, orig), script[q]) : r.ok /\ out[q] = r.lines

\* The table p had moved away when it was killed, and not yet put in place.
InHand(p) ==
  {touched[p][k] : k \in {j \in DOMAIN touched[p] :
                            /\ (j - 1) \in hadOriginal[p]
                            /\ \/ pc[p] \in {"replace", "restore"} /\ j = committed[p] + 1
                               \/ pc[p] = "rollbackMove" /\ j = committed[p]}}

\* What a killed script leaves of a table.
Left(p, t) ==
  IF Csv(t) \in InHand(p) THEN {NoFile}
                          ELSE {orig[Csv(t)]} \cup WholeVersions(p, t, orig[Csv(t)])

\* A script that is run after another was killed works on whole tables: each is
\* as the killed script found it or as it meant to leave it, and loses no row.
\* Only the one table it had moved away is missing, and is then created anew or
\* reported (commit_staged_csvs, which has no record to recover from).
RestartFindsWholeTables ==
  \A p, q \in Procs :
    Procs = {p, q} /\ p \in earlier[q] /\ ~alive[p] /\ Succeeded(q) =>
      \A t \in Tables : live[Csv(t)] \in UNION {WholeVersions(q, t, f) : f \in Left(p, t)}
=============================================================================
