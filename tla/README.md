# A TLA+ verification of the mini SQL processor

This directory specifies the C program under `src/`, a command line tool that runs a file of SQL
statements against a directory of CSV tables, model-checks it with TLC and proves part of it with
TLAPS. Paths below are relative to the repository.

## 1. The system

| Part | Code | State | Operations | What makes it correct |
|---|---|---|---|---|
| Script executor | `src/execute.c` | stage directory, staged files, `managed_files`, `touched_csvs`, `commit_had_original`, output buffer | `execute_script`, `execute_statement` | a script takes effect as a whole or not at all; no table is lost; nothing is left behind |
| CSV storage | `src/storage.c` | the two files of a table | `storage_append_row`, `storage_select_projection`, `storage_select_all` | a row lands in schema order with the types of the schema; a bad file is rejected, not read past |
| SQL parser | `src/parser.c` | cursor in the text | `parse_sql_script`, `parse_sql` | exactly the accepted grammar; no integer wraps |
| Statements, errors | `src/statement.c`, `src/sql_error.c` | records | init, free, set | ownership of memory |
| Command line | `src/main.c` | none | read the file, parse, execute, print | exit status |
| Stubs, tests, data, CI | `src/*_stub.c`, `tests/`, `data/`, `queries/`, `Makefile` | | | |

**How they interact.** `main` reads one file, `parse_sql_script` turns it into a `SqlScript`, and
one call of `execute_script` runs it. That call is synchronous and has no threads, but several
processes may work on one data directory at a time and nothing locks it (the repository's README
lists locks as future work). All communication is through the file system: the *live* tables in the
data directory, and a private stage directory `.sql_stage_<pid>_...` in it.

A script with an INSERT is executed on copies in the stage directory, with its output in a buffer
file. Then `commit_staged_csvs` treats each changed CSV file in turn: copy it to `__commit_<i>.csv`,
move the live file to `__rollback_<i>.csv`, move the copy into place. Then `flush_and_copy_output`
writes the buffer out. If the last move or the output fails, `rollback_committed_csvs` moves the
originals back, last one first. `cleanup_stage_dir` removes everything on `managed_files` and the
directory. A script of SELECTs alone is not staged.

**What is hard.** The commit replaces several files and no step of it is atomic over two of them:
any call may fail, the process may be killed between two calls, and a failure may come during the
rollback of another. Two processes interleave freely. The bookkeeping lists must match the files on
seven return paths. `file_exists` is an `fopen` that succeeds, so it cannot tell missing from
unopenable. Error paths of the schema loader read a row they have freed. Below the executor, a row
is appended to whatever bytes the file ends in, and the reader that finds the records has a looser
grammar than the one that splits them into fields. Above it, no word of the SQL is reserved, and
nothing may take effect before the last statement of a file has been parsed. `PROJECT.json` lists
these hazards with their lines and the properties for each.

## 2. Modules

| Module | Contents |
|---|---|
| `Storage` | the files of a table and what one statement makes of them, as operators: `SchemaValid`, `AppendAccepts`, `AppendedFile`, `SelectAccepts`, `SelectOutput` |
| `ScriptExec` | `execute_script` in any number of processes: one action per file operation |
| `ScriptExecInvariants` | the invariants the proofs establish, and their strengthenings |
| `ScriptSemantics` | the reference: a script run directly on a data directory, one statement after another; where a commit may stop half way (`Halfway`) |
| `AtomicScript` | the abstract specification: each script happens at one instant. What a script makes of a directory is its parameter `Results` |
| `ScriptExecProps` | the refinement mapping and the other properties |
| `ScriptOrder` | `ScriptExec` with a history variable: which scripts were over when another began |
| `CsvCodec` | the CSV text format: reading records and fields, writing values and lines, as operators on texts |
| `AppendRow`, `AppendRowProps` | `storage_append_row` and `storage_select_projection` on bytes, one action per file operation; their properties against `Storage` |
| `SqlParser` | `parse_sql_script`: one action per parse function or place in one |
| `Processor`, `ProcessorProps` | `main` around the parser and the contract of the executor; the properties, with a grammar stated apart from the parser |
| `MCScriptExec`, `MCScriptOrder`, `MCAppendRow`, `MCProcessor` | small instances for TLC |
| `StorageProofs` | lemmas on the file operators and on `FlattenSeq`, and recursion |
| `ScriptExecProofs` | theorems on `ScriptExec`: types and the cleanup list; recovery and lost tables |
| `RefinementProofs` | `ScriptExec` implements `AtomicScript`; what a success means |
| `SharedProofs` | two processes on the same tables, at once: every file is a whole version; one after the other: each finds what the first has left |
| `ProcessorProofs` | theorems on the parser and the program |
| `CodecProofs`, `RowProofs` | lemmas on `CsvCodec`: what the reader finds in a file that has grown; what is written is read back, as a row and as a table of lines |
| `AppendRowProofs` | theorems on `storage_append_row` and `storage_select_projection` |

`ScriptExec` EXTENDS `Storage`; `ScriptExecProps` compares it with `ScriptSemantics` (a function of
the script) and `AtomicScript` (a specification, through INSTANCE ... WITH).

The three layers meet at the same contracts. `Storage` is what `ScriptExec` takes a statement to do;
`AppendRow` does it byte by byte, and its properties compare the outcome with `Storage`.
`AtomicScript` is what `ScriptExec` implements where the code undoes what fails; `Processor` calls
it (INSTANCE ... WITH) for the script that `SqlParser` has made of a file. Where the code does not
undo (the early returns of `commit_staged_csvs`, a failed restore, a failed rollback), `Processor`
takes the executor to stop half way (`StopHalfway`), and the run `halfway` shows that `ScriptExec`
stops nowhere else. Not in either contract are what section 6 shows of a `file_exists` that misses a
file and of reserved table names.

### The state of ScriptExec and the code

| Variable | In the code |
|---|---|
| `live` | the files of `data_dir`; `orig` is their value at the start (history) |
| `stageDir`, `stage` | the stage directory and the files in it |
| `managed`, `touched`, `hadOriginal` | `managed_files`, `touched_csvs`, `commit_had_original` (as the set of indices that are 1) |
| `committed` | `i` in `commit_staged_csvs`, `committed_count` and then `i` in `rollback_committed_csvs` |
| `idx` | the statement loop's index, counted from 1 |
| `buf`, `out` | the `__sql_output` file, and what reached the caller's stream |
| `err` | which error is reported: a rejected statement, a failed file operation, failed output, a failed rollback |
| `pc`, `alive` | which file operation is next; whether the process still runs |
| `faults` | how many failures the behaviour has had (a bound of the model) |

| Action | Function |
|---|---|
| `MakeStageDir`, `OpenBuffer` | `create_stage_dir`, `create_temp_file_in_dir` |
| `StageCsv`, `CopyCsv`, `StageSchema` | `ensure_staged_table`: the check, the copy of the CSV file, the schema file |
| `ExecuteStatement` (`Perform`, `Reject`) | `execute_statement_unstaged` and the bookkeeping after it |
| `DieOnSchema` | the null pointer in `load_table_schema` |
| `CommitCopy`, `CommitCheck`, `BackUpOriginal`, `Replace`, `RestoreCurrent` | the loop of `commit_staged_csvs`; a failure at each returns or rolls back as the code does |
| `RollbackCheck`, `RollbackRemove`, `RollbackMove`, `RollbackEnds` | `rollback_committed_csvs`; the first two are `remove_file_if_exists`, between whose calls another process may act |
| `Flush` | `flush_and_copy_output` and the branch after it |
| `Cleanup` | `fclose`, `remove` of the buffer, `cleanup_stage_dir`; any of the removes and the `rmdir` may fail |
| `Crash`, `Terminated` | the operating system kills a process, also with some of the output shown or some of the stage removed; every process has returned or is gone |

### The state of AppendRow and the code

`schema` and `csv` are the bytes of the table's two files, `at` the point reached, `stmt` the
statement of the call, `created` the flag `created_csv`, `shown` what a SELECT has printed. The
history variables `before` and `met` keep the CSV file as the call found it and the operations that
failed during the call.

| Action | Function |
|---|---|
| `AppendCall`, `LoadSchema` | entry of `storage_append_row`; `load_table_schema`, `map_values_to_schema`, `validate_value_types` |
| `CheckExists`, `CreateCsv` | `file_exists`, `create_csv_from_schema` |
| `CheckHeader`, `Reopen`, `AppendBytes` | `load_csv_header` and the two header checks; `fopen`; `append_row_to_file` |
| `CleanupCreated` | `cleanup_created_csv`, on every error return after a creation |
| `SelectCall` | `storage_select_projection`, which changes no file |

### The state of SqlParser and Processor and the code

`place` is where in the parse functions control stands, `tok` the token at `parser->pos`, `seen` the
tokens before it, `stmt` and `script` the objects being filled. A token is chosen when the parser
gets to it, so one run covers every file up to the bound. `Processor` adds `outcome` (the exit
status), `tables`, `shown` and `orig`. Each action of `SqlParser` names its function; those of
`Processor` are `ReadEntireFile`, `Parse`, `ReportParseError` and `Execute`, the lines of `main` in
order.

Operators whose comment starts with "Planted fault" are bugs somebody might write. They are no part
of the specification: each is put in the place of the definition after it to see that a property
notices.

### What is abstracted

A file is the sequence of records the CSV reader finds in it, and a record the sequence of its
fields; a record the reader rejects is `<<>>`. A name, a field and a value are atomic texts.
`[schema.]table` is the file stem made of it. `SchemaValid` keeps the order of the checks, because
the first bad row decides between an error and a null pointer. The operations on files are atomic
one by one, except that a failed copy or append may leave a torn file and failed output may have
shown a beginning. `ExecuteStatement` is one step: it touches only the process's own stage, or only
reads. `Cleanup` is one step because nothing reads a stage that is being removed; whatever subset of
it a failure or a kill may leave is an outcome of `Cleanup` or `Crash`.

In `CsvCodec` and `AppendRow` a text is a sequence of characters; the three bytes of the byte order
mark are one symbol, since they only count together. A failed write leaves any prefix of the bytes
it was to write. `Char` is the set of characters and `LongMax` the largest integer, `LLONG_MAX` in
the code; the magnitude of an integer is computed modulo `2 * LongMax + 2`, as
`write_signed_integer` does with an unsigned type of the same width. In `SqlParser` the text is its
tokens, because the scanner skips white space before each decision; a number token has its sign and
digits, a text literal its characters.

## 3. Runs

Those of `ScriptExec` have the tables `users` (CSV and schema), `logs` (schema only, so the first
INSERT creates the CSV file) and `notes` (CSV only).

| Run | Instance | Checks |
|---|---|---|
| `atomic` | one process, five scripts, three data directories, failures of every call but those named in section 6, at most 2, killed anywhere | `TypeOK`, `OriginalRecoverable`, `FailedScriptLeavesData`, `ImplementsAtomicScript` |
| `faults` | the same scripts, every call may fail, at most 3 failures | `StageFilesManaged`, `LossIsReported`, `Termination` |
| `disjoint` | two processes on different tables, one failure, one of the two may be killed | `NoResidue`, `SuccessIsWhole`, `SuccessKeepsRows`, `ImplementsAtomicScript`, `MovedTableReturns` |
| `halfway` | the scripts of `faults`, every call of staging, commit and rollback may fail but `file_exists`, at most 3 failures, killed anywhere | `StopsBetweenFiles` |
| `shared` | two processes on the same tables, one that may only read, one failing replace or output, one of the two may be killed | `LiveIsSomeVersion`, `ReadersSeeWholeVersions`, `SerialScriptsAdd`, `RestartFindsWholeTables` |
| `append` | two calls of storage on one table, 141 pairs of files, 27 INSERTs and 5 SELECTs, one failing file operation | `TypeOK`, `ReaderCountsQuotes`, `AcceptsAsSpecified`, `RowReadsBack`, `ValuesLandInTheirColumns`, `FailedAppendKeepsRecords`, `CreatedTableIsRemoved`, `SelectPrintsTable` |
| `program` | all SQL files of up to 15 tokens, lists of up to 2 | `TypeOK`, `ScriptIsTheFile`, `StatementsWellFormed`, `RefusesNoSentence`, `OnlyWholeFilesTakeEffect` |
| `partial_commit`, `reserved_names`, `unopenable`, `bad_schema`, `created_trace` | the smallest instances in which the code departs from its documents | see section 6 |

`ImplementsAtomicScript` is the main one. Under the mapping `Logical`, a data directory in which a
process has begun to commit and has not shown its output counts as what a recovery would make of it:
moved originals back in place, new files gone. With that, every behaviour of `ScriptExec` is one of
`AtomicScript`, in which a script either commits all its tables and shows all its output, or changes
nothing and shows at most a beginning of its output (`docs/EDGE_CASE_FIXES.md` concedes that bytes
written to a stream cannot be taken back). The refinement covers crashes, the rollback after a
failed replace or a failed output, column reordering, tables named twice, auto-creation and rejected
statements, because the abstract step is computed by `ScriptSemantics` and not by the stage. It
includes liveness: every script that is not killed ends. `StepsAreAtomic` is its safety part, stated
by itself as the goal of a proof.

`halfway` is about what that contract leaves out: failures the code does not undo. With any of them,
and with a kill at any point, the tables are those of a commit stopped between two files: the first
ones as the whole script makes them, at most one moved away, the rest as found. So no table holds
part of its statements, and none is changed before an earlier one.

`shared` has no lock and so no refinement: overlapping scripts do lose one another's rows. What
holds is stated by four properties. The file in place is always what the scripts, one after another,
make of the table as found or of a missing one (`LiveIsSomeVersion`); a script of SELECTs, which is
not staged, shows of each table one such version (`ReadersSeeWholeVersions`); two scripts that do
not overlap add up (`SerialScriptsAdd`); and a script run after a killed one finds each table as the
killed one found it or as it meant to leave it, the committed ones included; only the one table that
was moved away and not yet replaced or moved back is missing (`RestartFindsWholeTables`).

`append` closes the gap between records and bytes. `ReaderCountsQuotes` gives the reader a second
definition, by the parity of the quotes, without positions or look ahead. `AcceptsAsSpecified`,
`RowReadsBack` and `SelectPrintsTable` say that the bytes come to what `Storage` says of records:
`RowReadsBack` is the round trip of quotes, commas, line ends and integers at both limits, after a
file that ends in any way but inside quotes. These share the mapping of a column list to the schema
(`MapsToSchema`, `OrderedValues`) with `AppendRow`; `ValuesLandInTheirColumns` does not use it, and
says of the header and the last record in the file that each value is under the name it was listed
for. `SelectPrintsTable` is also about a SELECT that fails: it has printed nothing, or the records
before the first bad one and none of that one. `FailedAppendKeepsRecords` and
`CreatedTableIsRemoved` are about each failing operation. Two excepted cases are the code's own
limits and are hazards in `PROJECT.json`: a file that ends inside a quoted field swallows the row,
and a projection prints an INT field as it is, so one that a hand edit has filled with commas or
quotes changes the columns.

`program` compares the parser with a grammar that lists sentences (`Phrases`). `ScriptIsTheFile`
writes the script back and finds the tokens of the file; `RefusesNoSentence` says that a file is
refused only at a token with which no statement can begin. Together they are "exactly the accepted
grammar", including keywords used as names, both integer limits and doubled apostrophes.
`OnlyWholeFilesTakeEffect` does not need the executor to be atomic: a table may be left changed by a
failure, but then by the script that is the whole file, and a mistake in the last statement keeps
the first from being executed.

**Bounds and why they are enough.** Two INSERTs on different tables are needed for a partial commit,
three statements for one table to come back after another (`Twice` has both and a SELECT that must
see the staged rows). One table has an original and one has none, in both orders. Three failures
cover a failed replace, a failed restore after it and a failed remove in the cleanup; the rollback
stops at its first failure. Two processes suffice for every interleaving of two commits; a third
adds another writer of the same kind. The bounds are `MaxStatements`, `MaxFaults` and the sets
`ScriptsOf`, `DataDirs` and `FaultPoints`, which names the calls that may fail in a run.

In `append` (`MaxCalls`, `MaxFaults`, `Again`, `LongMax`) the CSV files are all texts of up to two
of the six characters that matter and longer ones chosen for quotes in every position, each line end
and the byte order mark; the first call meets every one of them with every statement, and the
second, which carries one of the four statements of `Again`, meets what the first has left, also
after a failure. Eight-bit integers have the same two limits as 64-bit ones, and the test values
include both, zero, and numbers that end in zero. In `program` 15 tokens are an INSERT with two
columns and two values, a qualified one with a shorter list, an INSERT and a SELECT, or three
SELECTs, the last of which may be at fault; a list longer than two adds no new place to the parser.
`NameWords` has one keyword among the names, since which one does not matter where a name is
expected; at every other place every token is offered.

**Fairness.** `Spec` assumes weak fairness of `Step(p)` for each process: a process that is alive is
a sequential program whose calls return, so the scheduler lets it take its next step. Nothing is
assumed of failures, of kills, or of the order of two processes. `AppendRow`, `ScriptOrder` and
`Processor` are checked for safety alone and state no fairness.

## 4. Proofs

All theorems are stated of `Spec`, or of `OrderSpec` where scripts take turns, for every value of
the constants that satisfies the named assumptions: any number of processes, any tables, texts and
tokens, any scripts up to `MaxStatements` statements, any data directories and any number of
failures.

### The executor

- `TypeCorrect` (`ScriptExecProofs`): `[]TypeOK`. `TypeOK` is not inductive: that `committed` stays
  in range, that `touched[committed + 1]` exists and that the buffer is a file when a reply is
  appended depend on where the process is. The invariant is `Typed`, which is `TypeOK /\
  ListsInStep`; `InStep(p)` says how `idx`, `touched`, `committed` and `buf` stand at each label.
  `StorageProofs` supplies what the file operators return.
- `StageFilesAreManaged` and `NothingIsLeftBehind` (`ScriptExecProofs`): from `Typed` and
  `Covered(p)`, which adds that the names of the operation at hand are on the list before it runs,
  and that nothing exists before `MakeStageDir` and after an undisturbed `Cleanup`. They hold for
  any number of processes and any failures.
- `NoTableIsLost` and `FailureChangesNothing` (`ScriptExecProofs`): `[]OriginalRecoverable` and
  `[]FailedScriptLeavesData` under `ApartAndUndoable`: no process writes what another uses (one
  process alone is the simplest case, `disjoint` another), no table has a reserved name, and only
  calls fail that the code undoes (section 6 shows what the others do). The invariant is `Guarded(p,
  orig)`: which prefix of `touched` is committed, that each original of it is under its rollback
  name or that there was none (`Kept`), that every other table is as it was found (`RestAsFound`),
  and where the table in hand is at each label of the commit and of the rollback. Each clause is
  needed: without `Kept` for the prefix the rollback could move nothing back; without distinctness
  of `touched` a file could be backed up twice, the second backup being the script's own version.
  `OthersAsFound` adds that a table is changed by nobody but a process that has touched it.
- `LostTablesAreReported` (`ScriptExecProofs`): `[]LossIsReported` for one process alone, with every
  failure possible and any table names. The invariant `LossTraced(p)` says which table may be
  missing at each label (`Gone`) and that whatever the code will try to put back is in the stage
  (`BackupsThere`). It cannot build on `Guarded`, which fails here: after a failed restore the
  earlier tables keep the script's contents. Two processes on the same tables are left out because
  one may take away what the other has just put in place.
- `ScriptsAreAtomic` (`RefinementProofs`): `Spec => StepsAreAtomic`, the safety of the refinement,
  under `ApartAndUndoable`. `Sound(p, orig)` relates the process to `ScriptSemantics`: the copies in
  the stage are faithful (`CopiesFaithful`, `CopiesInHand`), the stage and the buffer hold what the
  statements so far make of the data directory (`WorkDone`), the committed prefix is that result
  (`PutInPlace`), and a success has shown all of it (`Told`). `Settled` is the directory with the
  tables of the successful scripts and everything else as found; `LogicalIsSettled` shows that the
  refinement mapping, which undoes commits by looking at stage directories, computes exactly that.
  Then a step changes `Settled` only when it makes a script succeed, and `ScriptIsLocal` (a script
  reads and writes no table it does not name) turns a result computed from the original directory
  into one computed from the directory as it is by now.
- `SuccessIsComplete` and `SuccessLosesNoRow`: `[]SuccessIsWhole` and `[]SuccessKeepsRows`, from
  `Sound(p, orig)` and, for the rows, from what one statement appends.
- `TablesAreWholeVersions` and `ReadersSeeNoMixture` (`SharedProofs`): `[]LiveIsSomeVersion` and
  `[]ReadersSeeWholeVersions`, for processes that do use the same tables. `Guarded` and `Sound` are
  of no use there: both say that what a process has not touched is as it was found. The invariant
  `Shared` follows single files instead. `Descends(c, W, t)` says that `c` is what scripts of `W`
  make of table `t`, one after the other; it holds of every live file, of every backup
  (`BackupsDescend`), of every stage copy with the statements run so far (`CopiesDescend`), of the
  commit file (`TempReady`), and of what a reader has buffered (`ReadsVersions`). A copy is taken
  from a version the process has no part in, as it stages a table before it commits any. The premise
  `TwoShare` has three parts. At most two processes: with three, a table may be the work of three
  scripts, which `AnyVersion` does not count. No reserved table names, as above. And `file_exists`
  does not miss a file that is there: a table taken for missing a second time is staged anew in the
  middle of a script, which then leaves its last statements alone, no whole version (TLC shows it
  with two INSERTs into one table). Every other call may fail, also those that lose tables.
- `ScriptsInTurnAdd` and `RestartIsOnWholeTables` (`SharedProofs`): `OrderSpec =>
  []SerialScriptsAdd` and `OrderSpec => []RestartFindsWholeTables`, for two scripts on the same
  tables of which the second begins when the first is over, returned or killed. The premise is
  `Undoable`, the part of `ApartAndUndoable` that is about names and failures. `Guarded(p, d)` and
  `Sound(p, d)` speak of the data directory `d` that `p` found, which for the other theorems is
  `orig`. `SoleWriter(p, d)` adds that since then `p` alone has changed anything, and the invariant
  `Orderly` that the first process is a sole writer on `orig` as long as the second waits, and the
  second on some `e` that the first has left. `Leaves(p, d, e)` says what that is: if `p` has
  returned, all of its work or nothing (`ReturnedHasEffect`, for which `OneResult` shows that a
  script has one result on a directory); if it was killed, of each table what was found or a whole
  version, and only the one table moved away at that moment (`InHand`) is missing
  (`LeavesWholeTables`). For a kill during a rollback `ToUndoWhole` has to say besides that the
  tables still to be rolled back are whole, which `Guarded` does not need.

### The parser and the program

- `ProgramTypes` and `NoStatementIsMalformed` (`ProcessorProofs`): from `InPlace`, which says at
  each place of the grammar what the statement in hand already has: its kind, its names, its lists.
  `StatementsWellFormed` alone is not inductive, since a statement joins the script only at its
  semicolon.
- `ScriptIsWholeFile` and `NothingBeforeTheWholeFile`: from `ReadSoFar`, which says that the tokens
  read are those of the finished statements followed by the part of the begun one that `ReadAs`
  assigns to the place, and from `ProgramInStep`, which says that nothing has changed while the
  program runs, and at its end nothing unless the parser is through. Files have any length, and the
  executor may commit, undo or stop half way.
- `LiteralsAreReadBack`, which both use: each literal token that is a value is spelled as its value
  is written back. The tokens are what `LiteralsAreTokens` says of the scanner: a number is a sign
  or none and at least one digit, a text ends where it is closed (`Closes`). For numbers, `Renders`
  follows `strtoll` and `write_signed_integer` digit by digit: the digits written for the value of a
  numeral are those read, from the first that is not a zero (`NumeralsRender`), and the magnitude of
  every integer in range is exact, the smallest one included (`MagnitudeIs`). For texts,
  `RestsAreSpelt` goes from the last character down: behind an even number of apostrophes the rest
  of a closed text is what is written for the characters still to be copied. The parity is needed
  because a closing apostrophe cannot be told from the second of two by its neighbours alone.
- `NoSentenceIsRefused`: `[]RefusesNoSentence`. A machine over the tokens of one statement stands
  between the parser and the grammar: `Can(s, t)` says whether a state takes a token, `Moved(s, t)`
  where it gets to, and `Walk(c, s, s2)` that it gets through the sequence `c`. On one side every
  form of every part of a phrase is walked through (`Leads`), lists of any length among them
  (`ListWalks`, by induction over the list), so whatever begins a sentence is (`BeginsWalks`,
  `SentencesWalk`). On the other the parser follows the machine: `Walked` says that the tokens of
  the statement lead to a state that takes the same tokens with the same outcome as the place the
  parser stands at (`Same`). It has to be the outcome and not the place: the parser goes on from
  `dot` to `columns` and to `values` without taking a token. In `failed` that state does not take
  the token at fault, and since a walk has one end (`WalkUnique`) no sentence goes on with it. That
  the literals of the grammar, of which only the spelling is required, are values the parser accepts
  is `LiteralsAreValues`. The phrases are those of an instance, with lists up to `MaxList`; the
  proof is for every `MaxList`. It uses that no word spells two keywords (`SpellingAssumption`),
  since `match_keyword` compares whole words.

### Storage on bytes

- `AppendTypes`, `CreatedTableGoes` and `FailedInsertLosesNoRecord` (`AppendRowProofs`): `[]TypeOK`,
  `[]CreatedTableIsRemoved` and `[]FailedAppendKeepsRecords` for all texts over `Char`. The
  invariant `AppendInv` says that files hold text (`FilesAreBytes`), that what `LoadSchema` has
  accepted stays accepted (`Checked`), when the file is the one found and when the one created
  (`CreatedInStep`), and that a failed INSERT leaves the file it found, grown by bytes that start at
  a new line (`FailureLeaves`).
- The step from bytes to records is `RecordsKept`: if a file does not end inside quotes, and what
  follows it begins with a line end or comes after one, then its records are a prefix of the longer
  file's. It needs `ScanGrown`: from any position the reader takes the same decisions in the longer
  file, up to the end of the shorter one, where its look ahead at `""` and CR LF could tell them
  apart.
- `EveryQuoteIsCounted`: `[]ReaderCountsQuotes`, without a hypothesis. `ScanCounts` follows the
  reader from any position whose side of the quotes is right: it passes over no line end outside
  quotes and stops at one or with the file, `open` telling which side of the quotes that is.
  `RecordCounts` adds that the next record starts outside quotes and not between CR and LF
  (`Starts`), and `RawCounts` sums up the texts, the ends and the quotes of the records by downward
  induction on where they start.
- `StoredRowIsReadBack`: `[]RowReadsBack`, the round trip. `Cell(w, t)` says that the written text
  `w` stands for the text `t` wherever it occurs: the reader passes it without a line end
  (`Passed`), and `parse_csv_record` finds `t` and the end of the field (`ReadAs`). `QuotedCell`
  shows it of what `write_csv_string` writes for any text, `PlainCell` of a text without marks,
  `IntegerCell` of an integer, the smallest one included. From cells `JoinedPassed` and `RowRead`
  come to the line by induction on their number, `LineRead`, `RowIsRecord` and `RowReads` to the
  file. The invariant `Decided` keeps what the steps have found: which file the header was read
  from, and that the row was written behind that file (`Stored`).
- `EachValueInItsColumn`: `[]ValuesLandInTheirColumns`, from the same invariant. `ValuesInPlace`
  shows of `OrderedValues`, which looks for the list index of each column of the schema, that it
  finds the value listed under that name; `RowIsReadBack` carries it to the record in the file.
- `InsertDecidesAsStorage`: `[]AcceptsAsSpecified`. `Refused` says of a call that has failed without
  a failing operation which check did not hold (`RefusedFor`); `AcceptsIs` shows that the checks
  together are `AppendAccepts`; `HeaderReads` that the header of a created table is read as the
  schema's columns, so that no call is refused after it has created the table.
- `SelectedRowsAreRead`: `[]SelectPrintsTable`, for a SELECT that succeeds and for one that fails
  after some rows. The invariant `Selected` says what a SELECT that has returned has printed:
  nothing, or the lines of the records up to the first bad one (`GoodRowsAre`). It is a sequence of
  lines, and `LinesRead` reads lines back: `Closed(u)` says that `u`, wherever it occurs before a
  line end, is one record up to that line end. A projected row is closed because it consists of
  cells (`PassedIsClosed`, `PrintedIsCell`), which here may be empty as well; the text of a record
  that is copied as it is, whatever quotes it holds, because the reader takes the decisions it took
  in the file (`TextIsClosed`, by downward induction on the place in the record). A record that ends
  inside quotes is not closed, but has no field and is never printed.
- `StoredRowIsReadBack`, `EachValueInItsColumn`, `InsertDecidesAsStorage` and `SelectedRowsAreRead`
  have hypotheses on the strings that texts stand for, of which the prover knows nothing (`Str`,
  `ToString`): the digits written are the decimal form (`IntegersAreDecimal`), a text that spells a
  column of a statement's list holds no mark (`ColumnsArePlain`, since `parse_identifier` takes
  letters, digits and underscores), and strings are in `Text` (`StringsAreText`). The SELECT needs
  the second alone. `MCAppendRow` evaluates them as an ASSUME, the first in full and the others for
  all texts of up to three characters.

**Induction over texts.** The reader of a record is a recursive function of the position in the text
and the prover neither knows that such a definition is met by a function nor can use an induction
theorem that takes a predicate. `DownwardRecursion` proves the first once, for every function whose
value at a position depends on later positions alone, `UpwardRecursion` where it depends on earlier
ones, and `DownwardInduction` is the second for a set in place of the predicate (`NatSetInduction`).
All three are in `StorageProofs`. `ScanSteps`, `RawSteps`, `BodySteps` and `FieldsSteps` apply them
to `CsvCodec`, `StringSteps`, `ReadSteps` and `DigitsUpToSteps` to the literals of `SqlParser`,
`LeftSteps` to `Begins`, `ProgressSteps` to `ScriptSemantics`, `FlattenSteps` to `FlattenSeq`.

**Only model-checked:** `Termination`, `MovedTableReturns` and the liveness of
`ImplementsAtomicScript`, because the prover handles neither fairness nor ENABLED, and
`StopsBetweenFiles`, which would need the invariants of the executor without the premise that
failures are undone. Every other safety property of the passing runs is a theorem.

## 5. Not modelled

- `parse_sql`, which takes a file of one statement and is called by the tests alone, and the
  positions the parser reports.
- NUL bytes. `parse_sql_script` takes the length of the file to be `strlen`, so a NUL byte ends it;
  a NUL byte in a CSV record ends the record's fields likewise.
- In `ScriptExec` a failing `storage_append_row` leaves a torn file or nothing, and the operations
  in it are not interleaved with other processes: they work on the stage. `AppendRow` has them one
  by one.
- Failed reads and writes inside `SelectCall`: it changes no file, and `ScriptExec` has its failure.
- Failed allocations, power loss (the code never calls `fsync`, so nothing it promises survives
  one), and Windows, where `rename` does not replace an existing file.
- Messages, line numbers and error codes, the usage check of `main`, memory ownership, the stubs.

## 6. Where the code and its documents disagree

| Run | Violates | What happens |
|---|---|---|
| `partial_commit` | `FailedScriptLeavesData` | The copy to the commit file or the rename to the backup fails for the second table: `commit_staged_csvs` returns without rolling back the first, and the cleanup deletes its backup |
| `reserved_names` | `SuccessIsWhole` | A table named `__commit_0` shares its name with the executor's own stage file; the commit copies it onto itself, and success is reported |
| `unopenable` | `SuccessKeepsRows` | A CSV file that is there but cannot be opened passes for missing at staging and at commit; it is created anew and replaced |
| `bad_schema` | `NeverDies` | A repeated column or unsupported type in a schema file is a null pointer dereference, not the error the code words |
| `created_trace` | `LeavesNoTrace` | Writing the header of a new table fails: `created_csv` is not set yet, and `storage_append_row` returns without removing the partial file |

The first four are why `atomic` and `disjoint` leave the failures `exists`, `commitCopy`, `backup`,
`restore` and `remove` out, and why `NoTableIsLost`, `FailureChangesNothing` and the theorems on the
refinement assume the same. `LostTablesAreReported` does not. Of these, `halfway` leaves out
`exists` alone. A failed restore or remove is not a disagreement: the documents say it is reported,
and `LossIsReported` checks that.

One disagreement has no run: `docs/PHASE2_IMPLEMENTATION_NOTES.md:105` has a header whose first line
is blank fail, and `load_csv_header` means to refuse it (`storage.c:720`), but `parse_csv_record`
makes one empty field of it and never a header of no column. The models follow the code.

## 7. Plan

Done: the executor with its storage semantics, the abstract specification and the refinement; the
codec and the storage functions on bytes; the parser and the program around it; two processes in and
out of order; proofs of type correctness, cleanup, recovery, lost tables, the refinement, whole
versions and scripts in turn for the executor, of the parser and the program, and of INSERTs and
SELECTs on bytes, failing and succeeding. Left: a proof of `StopsBetweenFiles`.
