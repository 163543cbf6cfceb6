------------------------------ MODULE AppendRow ------------------------------
(***************************************************************************)
(* storage_append_row and storage_select_projection (src/storage.c) on the *)
(* bytes of one table's files, one action per file operation.  The calls   *)
(* come one after the other, each with the files the one before it left:   *)
(* in the program that is a stage directory.                               *)
(*                                                                         *)
(* Storage says what the two functions do to records; here the records are *)
(* found in and written as bytes (CsvCodec), and every operation on a file *)
(* can fail.  A write that fails leaves any part of what it was to write,  *)
(* since the C library writes its buffer when it likes.                    *)
(*                                                                         *)
(* A file that is there and cannot be opened when file_exists looks is a   *)
(* fault of ScriptExec and not repeated here.                              *)
(***************************************************************************)
EXTENDS Storage, CsvCodec, FiniteSets

CONSTANTS Char,           \* the characters of a text
          LongMax,        \* LLONG_MAX, the largest integer a statement may hold
          Inserts,        \* the INSERT statements a call may carry
          Selects,        \* the SELECT statements
          Again,          \* those of both that a call after the first may carry
          Tables0,        \* what the two files hold at first: [schema, csv]
          FaultPoints,    \* the file operations that may fail
          MaxFaults,      \* how many of them do
          MaxCalls        \* bound on the number of calls

Bytes == Seq(Char)

\* A value as the parser leaves it.
ByteValue ==
  [type : {"STRING"}, text : Bytes] \cup [type : {"INT"}, int : (-LongMax - 1) .. LongMax]

ASSUME LongMaxAssumption == LongMax \in Nat
ASSUME SymbolsAssumption ==
  /\ {Quote, Comma, LF, CR, Bom, "-"} \cup {Digit[d] : d \in 0 .. 9} \subseteq Char
  /\ Quote \notin LineEnds
ASSUME FilesAssumption ==
  /\ NoFile \notin Bytes
  /\ \A files0 \in Tables0 : {files0.schema, files0.csv} \subseteq Bytes \cup {NoFile}
ASSUME StatementsAssumption ==
  /\ Inserts \subseteq [kind : {"INSERT"}, table : Tables, cols : Seq(Text), all : BOOLEAN,
                        vals : Seq(ByteValue)]
  /\ Selects \subseteq [kind : {"SELECT"}, table : Tables, cols : Seq(Text), all : BOOLEAN,
                        vals : Seq(ByteValue)]
ASSUME BoundsAssumption == MaxFaults \in Nat /\ MaxCalls \in Nat

FaultNames == {"schema", "create", "header", "reopen", "append", "remove"}

ASSUME FaultPointsAssumption == FaultPoints \subseteq FaultNames

NoStmt == [kind |-> "none"]

VARIABLES schema,    \* bytes of the .schema.csv file, or NoFile
          csv,       \* bytes of the .csv file, or NoFile
          at,        \* the point storage_append_row has reached
          stmt,      \* the statement of the last call
          created,   \* created_csv
          result,    \* what the last call returned
          shown,     \* what the last SELECT has written to out
          before,    \* csv when the last call was made
          met,       \* the operations that failed during the last call
          faults,    \* faults so far
          calls      \* calls so far

vars == <<schema, csv, at, stmt, created, result, shown, before, met, faults, calls>>
files == <<schema, csv>>
call  == <<stmt, shown, before, calls>>

----------------------------------------------------------------------------
(***************************************************************************)
(* The tables and statements of Storage that the bytes stand for.          *)
(***************************************************************************)
StrRow(row) == [i \in DOMAIN row |-> Str(row[i])]

Table(f) == IF f = NoFile THEN NoFile ELSE LET rows == Rows(f) IN [k \in DOMAIN rows |-> StrRow(rows[k])]

StrStmt(s) == [s EXCEPT !.vals = [i \in DOMAIN @ |-> StrValue(@[i])]]

\* What is read is bound with \E x \in {...}, which reads it once.
SchemaNow == Table(schema)
TableNow  == Table(csv)
RowsNow   == IF csv = NoFile THEN <<>> ELSE Rows(csv)

----------------------------------------------------------------------------
Init ==
  /\ \E files0 \in Tables0 : schema = files0.schema /\ csv = files0.csv
  /\ at = "idle" /\ stmt = NoStmt /\ created = FALSE /\ result = "none"
  /\ shown = <<>> /\ before = csv /\ met = {} /\ faults = 0 /\ calls = 0

Works == UNCHANGED <<met, faults>>

Fails(pt) ==
  /\ pt \in FaultPoints /\ faults < MaxFaults
  /\ met' = met \cup {pt}
  /\ faults' = faults + 1

\* Planted fault: the table is removed whoever created it.
ReturnAndRemove == result' = "failed" /\ at' = "cleanup"

\* An error return: a table this call has created is removed first.
Return == result' = "failed" /\ at' = IF created THEN "cleanup" ELSE "idle"

\* A call finds the files as the one before it left them.
Begin(s) ==
  /\ at = "idle" /\ calls < MaxCalls
  /\ calls = 0 \/ s \in Again
  /\ calls' = calls + 1
  /\ stmt' = s /\ before' = csv /\ created' = FALSE /\ met' = {}
  /\ UNCHANGED <<files, faults>>

AppendCall ==
  /\ \E s \in Inserts : Begin(s)
  /\ at' = "schema" /\ result' = "none" /\ shown' = <<>>

\* load_table_schema, then the checks that need no CSV file.
ListAccepted(s) ==
  IF SchemaAbsent(s) THEN stmt.cols = <<>>
  ELSE SchemaValid(s) /\ MapsToSchema(s, stmt) /\ TypesMatch(s, OrderedValues(s, stmt))

LoadSchema ==
  /\ at = "schema"
  /\ \/ \E s \in {SchemaNow} :
          /\ Works
          /\ \/ ~SchemaCrashes(s) /\ ListAccepted(s) /\ at' = "exists" /\ UNCHANGED result
             \/ ~SchemaCrashes(s) /\ ~ListAccepted(s) /\ Return
             \/ SchemaCrashes(s) /\ at' = "died" /\ UNCHANGED result
     \/ Fails("schema") /\ Return
  /\ UNCHANGED <<files, created, call>>

\* Planted fault: a table is expected to be there.
CheckListOnly ==
  /\ at = "exists"
  /\ at' = IF csv = NoFile /\ stmt.cols # <<>> THEN "create" ELSE "header"
  /\ Works
  /\ UNCHANGED <<files, created, result, call>>

\* Only a column list may create the table, and a list needs a schema.
CheckExists ==
  /\ at = "exists"
  /\ \/ csv # NoFile /\ at' = "header" /\ UNCHANGED result
     \/ csv = NoFile /\ stmt.cols # <<>> /\ at' = "create" /\ UNCHANGED result
     \/ csv = NoFile /\ stmt.cols = <<>> /\ Return
  /\ Works
  /\ UNCHANGED <<files, created, call>>

\* The schema's names as the file spells them, unquoted.
SchemaNames == [k \in 1 .. (Len(Rows(schema)) - 1) |-> Rows(schema)[k + 1][1]]

\* create_csv_from_schema: created_csv is set once it has returned.
CreateCsv ==
  /\ at = "create"
  /\ \/ Works /\ csv' = Line(SchemaNames) /\ created' = TRUE
        /\ at' = "header" /\ UNCHANGED result
     \/ Fails("create") /\ csv' \in Prefixes(Line(SchemaNames)) \cup {NoFile}
        /\ UNCHANGED created /\ Return
  /\ UNCHANGED <<schema, call>>

\* Planted fault: with a schema, too, the columns are only counted.
HeaderCounts(s, c) == HasHeader(c) /\ Len(c[1]) = Len(stmt.vals)

\* The header read anew is the schema's, or has as many columns as values.
HeaderAccepted(s, c) ==
  IF SchemaAbsent(s) THEN HasHeader(c) /\ Len(c[1]) = Len(stmt.vals) ELSE HeaderMatches(s, c)

\* load_csv_header on the file there is by now.
CheckHeader ==
  /\ at = "header"
  /\ \/ \E s \in {SchemaNow}, c \in {TableNow} :
          /\ Works
          /\ \/ HeaderAccepted(s, c) /\ at' = "reopen" /\ UNCHANGED result
             \/ ~HeaderAccepted(s, c) /\ Return
     \/ Fails("header") /\ Return
  /\ UNCHANGED <<files, created, call>>

\* Planted fault: this error path forgets the table just created.
ReopenOrLeave ==
  /\ at = "reopen"
  /\ \/ Works /\ at' = "append" /\ UNCHANGED result
     \/ Fails("reopen") /\ result' = "failed" /\ at' = "idle"
  /\ UNCHANGED <<files, created, call>>

Reopen ==
  /\ at = "reopen"
  /\ \/ Works /\ at' = "append" /\ UNCHANGED result
     \/ Fails("reopen") /\ Return
  /\ UNCHANGED <<files, created, call>>

\* append_row_to_file.
RowBytes(vals) ==
  NewlineIfNeeded(csv) \o Line([i \in DOMAIN vals |-> WriteValue(vals[i], LongMax)])

AppendBytes ==
  /\ at = "append"
  /\ \E s \in {SchemaNow} : \E row \in {RowBytes(RowToStore(s, stmt))} :
       \/ Works /\ csv' = csv \o row /\ result' = "ok" /\ at' = "idle"
       \/ Fails("append") /\ (\E part \in Prefixes(row) : csv' = csv \o part) /\ Return
  /\ UNCHANGED <<schema, created, call>>

\* cleanup_created_csv: what remove returns is not looked at.
CleanupCreated ==
  /\ at = "cleanup"
  /\ at' = "idle"
  /\ \/ Works /\ csv' = NoFile
     \/ Fails("remove") /\ UNCHANGED csv
  /\ UNCHANGED <<schema, created, result, call>>

----------------------------------------------------------------------------
(***************************************************************************)
(* storage_select_projection writes to out as it reads, header first.      *)
(***************************************************************************)
\* The header is what the statement can be answered from.
SelectChecks(s, c, st) ==
  /\ HasHeader(c)
  /\ SchemaAbsent(s) \/ (SchemaValid(s) /\ HeaderMatches(s, c))
  /\ st.all \/ (SchemaValid(s) /\ SelectsKnownColumns(s, st))

\* The rows read before the first that is malformed or of another length.
GoodRows(rows) ==
  LET bad == {k \in 2 .. Len(rows) : Len(rows[k]) # Len(rows[1])}
  IN  IF bad = {} THEN Len(rows) ELSE Min(bad) - 1

\* copy_stream_validated: records as they are, with a new line end.
CopiedLine(k) == Append(RawRecords(csv)[k].text, LF)

\* The header of a projection and write_projection_row: a STRING column is
\* quoted anew, an INT column is printed as it is.
ProjectedLine(s, rows, k, cols) ==
  LET Source(i) == CHOOSE j \in DOMAIN Names(s) : Names(s)[j] = cols[i]
      Printed(i) ==
        LET field == rows[k][Source(i)]
        IN  IF k > 1 /\ Types(s)[Source(i)] = "STRING" THEN WriteString(field) ELSE field
  IN  Line([i \in DOMAIN cols |-> Printed(i)])

\* Planted fault: a record is copied before its fields are counted.
LinesToFirstBad(s, rows, n, st) ==
  LET printed == IF st.all /\ n \in 1 .. (Len(rows) - 1) THEN n + 1 ELSE n
  IN  [k \in 1 .. printed |-> IF st.all THEN CopiedLine(k) ELSE ProjectedLine(s, rows, k, st.cols)]

\* The first row of a projection is the header, which is the schema's.
PrintedLines(s, rows, n, st) ==
  [k \in 1 .. n |-> IF st.all THEN CopiedLine(k) ELSE ProjectedLine(s, rows, k, st.cols)]

SelectCall ==
  \E st \in Selects :
    /\ Begin(st)
    /\ \E s \in {SchemaNow}, rows \in {RowsNow}, c \in {TableNow} :
         \E n \in {IF SelectChecks(s, c, st) THEN GoodRows(c) ELSE 0} :
           /\ shown' = FlattenSeq(PrintedLines(s, rows, n, st))
           /\ \/ SchemaCrashes(s) /\ at' = "died" /\ result' = "none"
              \/ /\ ~SchemaCrashes(s) /\ at' = "idle"
                 /\ result' = IF n > 0 /\ n = Len(c) THEN "ok" ELSE "failed"

Done == (at = "died" \/ (at = "idle" /\ calls = MaxCalls)) /\ UNCHANGED vars

Next == \/ AppendCall \/ LoadSchema \/ CheckExists \/ CreateCsv \/ CheckHeader
        \/ Reopen \/ AppendBytes \/ CleanupCreated \/ SelectCall \/ Done

Spec == Init /\ [][Next]_vars
=============================================================================
