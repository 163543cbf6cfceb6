-------------------------- MODULE ScriptExecProps --------------------------
(***************************************************************************)
(* What ScriptExec must guarantee, against the reference of                *)
(* ScriptSemantics and the contract of AtomicScript.                       *)
(***************************************************************************)
EXTENDS ScriptExecInvariants, ScriptSemantics

Succeeded(p) == Returned(p) /\ err[p] = "none"

----------------------------------------------------------------------------
(***************************************************************************)
(* The refinement: the data directory a recovery would leave.  While a     *)
(* process has started to commit and has not yet shown its output, every   *)
(* table it has moved away counts as still there.                          *)
(***************************************************************************)
Committing == {"commitCopy", "commitCheck", "backup", "replace", "restore",
               "rollback", "rollbackRemove", "rollbackMove", "flush"}

InDoubt == {p \in Procs : pc[p] \in Committing}

\* The live CSV files p has moved away, by the index of their backup.
Moved(p) ==
  {k \in DOMAIN touched[p] : stage[p][Rollback(k - 1)] # NoFile}

\* The CSV files p has put where there was none.
Created(p) == {k \in 1 .. committed[p] : (k - 1) \notin hadOriginal[p]}

Undo(p) ==
  [n \in {touched[p][k] : k \in Moved(p) \cup Created(p)} |->
     LET k == CHOOSE j \in DOMAIN touched[p] : touched[p][j] = n
     IN  stage[p][Rollback(k - 1)]]

InDoubtFor(n) == {p \in InDoubt : n \in DOMAIN Undo(p)}

Logical ==
  [n \in TableFiles |->
     IF InDoubtFor(n) = {} THEN live[n] ELSE Undo(CHOOSE p \in InDoubtFor(n) : TRUE)[n]]

Atomic == INSTANCE AtomicScript WITH tables <- Logical, shown <- out, outcome <- Outcome

\* Every script is atomic: it commits all its tables and shows all its output,
\* or leaves the tables alone, and in the end it does one or the other.  The
\* stage, the backups, the rollback after a failed replace or a failed flush
\* and the leftovers of a killed process implement exactly this
\* (execute_script, commit_staged_csvs, rollback_committed_csvs).
ImplementsAtomicScript == Atomic!Spec

\* The part of it that no fairness is needed for: every step is the whole of
\* a script, the end of one that changes nothing, or no step at all.
StepsAreAtomic == Atomic!Init /\ [][Atomic!Next]_(Atomic!avars)

----------------------------------------------------------------------------
\* What other processes have changed.
ByOthers(p) == UNION {Touched(q) : q \in Procs \ {p}}

\* A script that reports success has made exactly the changes its statements
\* make in order, but for the tables other scripts have changed, and shown
\* exactly their output.
SuccessIsWhole ==
  \A p \in Procs :
    Succeeded(p) => \E r \in Results(orig, script[p]) :
                      /\ r.ok /\ out[p] = r.lines
                      /\ \A n \in TableFiles \ ByOthers(p) : live[n] = r.dir[n]

\* INSERT only appends: a script that reports success has lost no row that was
\* there when it began (append_row_to_file, commit_staged_csvs).
SuccessKeepsRows ==
  \A p \in Procs : \A n \in CsvFiles \ ByOthers(p) :
    Succeeded(p) /\ orig[n] # NoFile => live[n] # NoFile /\ IsPrefix(orig[n], live[n])

\* Whatever stops a script, a failure the code does not undo or a kill, stops it
\* between two CSV files: those it inserted into first are as the whole script
\* makes them, one may be moved away, the rest is as found, but for what other
\* scripts have changed.  The rollback goes backward for the same reason
\* (commit_staged_csvs, rollback_committed_csvs).
StopsBetweenFiles ==
  \A p \in Procs :
    \E d \in {orig} \cup Halfway(orig, script[p]) :
      \A n \in TableFiles \ ByOthers(p) : live[n] = d[n]

\* A process ends by returning an error or a result, unless it is killed from
\* outside: an unsupported type or a repeated column in a schema file is an
\* error to report (load_table_schema, storage.c:630 and 640).
NeverDies == \A p \in Procs \ Crashable : alive[p]

----------------------------------------------------------------------------
(***************************************************************************)
(* Processes that write the same tables.                                   *)
(***************************************************************************)
\* What the first k statements of p alone make of table t, found with the
\* contents f: those on t are performed if they are accepted.
Versions(p, t, f) ==
  LET s == orig[Schema(t)]
      after[k \in 0 .. Len(script[p])] ==
        IF k = 0 THEN {f}
        ELSE IF script[p][k].table # t THEN after[k - 1]
        ELSE {FileAfter(s, c, script[p][k]) :
                c \in {d \in after[k - 1] : Accepts(s, d, script[p][k])}}
  IN  after

\* What the whole script makes of it.
WholeVersions(p, t, f) == Versions(p, t, f)[Len(script[p])]

Found(t) == {orig[Csv(t)], NoFile}

\* The table as found or missing, and what one or two scripts make of that.
AnyVersion(t) ==
  LET once  == UNION {WholeVersions(p, t, f) : p \in Procs, f \in Found(t)}
      twice == UNION {WholeVersions(p, t, f) : p \in Procs, f \in once}
  IN  Found(t) \cup once \cup twice

\* Two scripts that commit to one table may lose one another's rows, but never
\* mix them: the file in place is always what the scripts, one after another,
\* make of the table as it was found or of a table that was missing.
LiveIsSomeVersion == \A t \in Tables : live[Csv(t)] \in AnyVersion(t)

\* A script of SELECTs alone, which reads the live files while others replace
\* them, shows of each table one whole version and never part of two
\* (execute_script, which stages nothing for it).
ReadsOnly(p) == \A stmt \in ToSet(script[p]) : stmt.kind = "SELECT"

PossibleOutputs(p) ==
  LET outs[k \in 0 .. Len(script[p])] ==
        IF k = 0 THEN {<<>>}
        ELSE {lines \o SelectOutput(orig[Schema(script[p][k].table)], c, script[p][k]) :
                lines \in outs[k - 1], c \in AnyVersion(script[p][k].table) \ {NoFile}}
  IN  outs

ReadersSeeWholeVersions ==
  \A p \in Procs : Succeeded(p) /\ ReadsOnly(p) => out[p] \in PossibleOutputs(p)[Len(script[p])]

----------------------------------------------------------------------------
\* Every script that is not killed returns.
Termination == \A p \in Procs : <>(pc[p] = "done" \/ ~alive[p])

\* A table missing from the data directory because its file is moved away does
\* not stay missing, unless a process is killed in between: the replacement
\* follows, or the original comes back.
MovedTableReturns ==
  \A t \in Tables :
    (orig[Csv(t)] # NoFile /\ live[Csv(t)] = NoFile)
      ~> (live[Csv(t)] # NoFile \/ \E p \in Procs : ~alive[p])
=============================================================================
