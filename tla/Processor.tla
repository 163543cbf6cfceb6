----------------------------- MODULE Processor -----------------------------
(***************************************************************************)
(* The program (src/main.c): it reads the SQL file, parses all of it and   *)
(* then hands the whole script to the executor once.  The parser is        *)
(* SqlParser, step by step.  The executor is its contract: AtomicScript,   *)
(* which ScriptExec is shown to implement where the code undoes what       *)
(* fails, or, where it does not, a commit that stopped half way, which     *)
(* StopsBetweenFiles says of ScriptExec.                                   *)
(***************************************************************************)
EXTENDS SqlParser, ScriptSemantics

CONSTANT DataDirs          \* the data directories the program may be given

Main == "main"

VARIABLES tables,   \* the data directory
          shown,    \* what has been written to stdout
          outcome,  \* "running", "ok" for EXIT_SUCCESS, "failed" for EXIT_FAILURE
          orig      \* the data directory the program found

evars == <<tables, shown, outcome, orig>>
vars  == <<pvars, evars>>

----------------------------------------------------------------------------
\* build_relative_name: the stem of [schema.]table.
Stem(st) == IF st.schema = NoName THEN st.table ELSE st.schema \o "__" \o st.table

\* A statement of the parser as the executor is given it.
ToExecute(st) ==
  [kind |-> st.kind, table |-> Stem(st), cols |-> st.cols, all |-> st.all,
   vals |-> [i \in DOMAIN st.vals |-> StrValue(st.vals[i])]]

Executable(sts) == [p \in {Main} |-> [k \in DOMAIN sts |-> ToExecute(sts[k])]]

Executor == INSTANCE AtomicScript
              WITH Procs <- {Main}, ScriptsOf <- Executable(<<>>), script <- Executable(script)

----------------------------------------------------------------------------
ProgramInit ==
  /\ place = "unread" /\ tok = End
  /\ seen = <<>> /\ stmt = NoStatement /\ script = <<>>
  /\ tables \in DataDirs /\ orig = tables
  /\ shown = [p \in {Main} |-> <<>>]
  /\ outcome = [p \in {Main} |-> "running"]

Running == outcome[Main] = "running"

Exit == outcome' = [outcome EXCEPT ![Main] = "failed"] /\ UNCHANGED <<tables, shown, orig>>

\* read_entire_file: all of the file, or the program ends.
ReadEntireFile ==
  /\ place = "unread" /\ Running
  /\ \/ /\ GoTo("statement") /\ tok' \in Tokens \cup {End}
        /\ UNCHANGED <<seen, stmt, script, evars>>
     \/ Exit /\ UNCHANGED pvars

Parse == Running /\ ParserNext /\ UNCHANGED evars

\* Planted fault: the error of the parser is printed and nothing more.
ParseOver == place \in {"parsed", "failed"}

\* Nothing is executed before the whole file has been parsed.
Parsed == place = "parsed"

ReportParseError == place = "failed" /\ Running /\ Exit /\ UNCHANGED pvars

\* A commit that failed and was not undone, or not to the end: the early returns
\* of commit_staged_csvs, and those of a failed restore or rollback, which may
\* come after some output.
StopHalfway ==
  /\ Running
  /\ \E r \in Results(tables, Executable(script)[Main]) :
       /\ r.ok
       /\ \E k \in 0 .. Len(r.lines) : shown' = [shown EXCEPT ![Main] = SubSeq(r.lines, 1, k)]
  /\ tables' \in Halfway(tables, Executable(script)[Main])
  /\ outcome' = [outcome EXCEPT ![Main] = "failed"]

\* execute_script.
Execute ==
  /\ Parsed
  /\ UNCHANGED <<pvars, orig>>
  /\ Executor!Commit(Main) \/ Executor!Abort(Main) \/ StopHalfway

Done == ~Running /\ UNCHANGED vars

Next == ReadEntireFile \/ Parse \/ ReportParseError \/ Execute \/ Done

Spec == ProgramInit /\ [][Next]_vars
=============================================================================
