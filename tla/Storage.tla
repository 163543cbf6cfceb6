------------------------------ MODULE Storage ------------------------------
(***************************************************************************)
(* src/storage.c as the executor sees it: what storage_append_row and      *)
(* storage_select_projection make of a table's two files, its CSV file and *)
(* its .schema.csv file.                                                   *)
(*                                                                         *)
(* A file is the sequence of records the CSV reader finds in it and a      *)
(* record is the sequence of its field texts.  The empty record <<>>       *)
(* stands for a record the reader rejects (text after a closing quote, a   *)
(* row cut short by a failed write): the parser never returns a record     *)
(* with no field.  No file a script finds ends inside a quoted field: an   *)
(* appended row would become part of that field.  NoFile is a path fopen   *)
(* finds nothing at.                                                       *)
(*                                                                         *)
(* A statement is an AST node of src/parser.c.  Its table is the stem that *)
(* build_data_path and build_relative_name make of [schema.]table.         *)
(***************************************************************************)
EXTENDS Naturals, Sequences

CONSTANTS Text,             \* the texts of names, fields and answers
          Tables,           \* the table stems the scripts may name
          NoFile,           \* no file at this path
          IntSpelling,      \* the texts ascii_equals_ignore_case equates with INT
          StringSpelling    \* and with STRING

\* The words of the answer to an INSERT, before the table's name.
Inserted == "INSERT 1 INTO"

ASSUME TextsNamed == Tables \subseteq Text /\ Inserted \in Text

Record  == Seq(Text)
Content == Seq(Record)
File    == Content \cup {NoFile}

ASSUME NoFileIsNoContent == NoFile \notin Content

\* The two files of a table; a stem holds no dot, so no two paths coincide.
Csv(t)    == <<t, ".csv">>
Schema(t) == <<t, ".schema.csv">>
CsvFiles   == {Csv(t) : t \in Tables}
TableFiles == CsvFiles \cup {Schema(t) : t \in Tables}

\* What a data directory may hold: a file or nothing under every name.
DataDir == [TableFiles -> File]

SqlType  == {"INT", "STRING"}
SqlValue == [type : SqlType, text : Text]

Statement == [kind : {"INSERT", "SELECT"}, table : Tables, cols : Seq(Text),
              all : BOOLEAN, vals : Seq(SqlValue)]

----------------------------------------------------------------------------
(***************************************************************************)
(* load_table_schema.  The header row must be name,type; the rows are read *)
(* in order and the first bad one decides the outcome.  A row of the wrong *)
(* shape is reported.  An unsupported type or a repeated column is not:    *)
(* csv_row_free has cleared row.fields when the message reads it, so the   *)
(* process dies on a null pointer.                                         *)
(***************************************************************************)
RowShapeOK(r) == Len(r) = 2 /\ r[1] # ""
RowTypeOK(r)  == r[2] \in IntSpelling \cup StringSpelling
Repeats(f, k) == \E j \in 2 .. (k - 1) : f[j][1] = f[k][1]

BadRows(f) ==
  {k \in 2 .. Len(f) : ~RowShapeOK(f[k]) \/ ~RowTypeOK(f[k]) \/ Repeats(f, k)}

HasSchemaHeader(f) == f # NoFile /\ f # <<>> /\ f[1] = <<"name", "type">>

SchemaAbsent(f) == f = NoFile

SchemaValid(f) == HasSchemaHeader(f) /\ Len(f) > 1 /\ BadRows(f) = {}

SchemaCrashes(f) ==
  /\ HasSchemaHeader(f)
  /\ \E k \in BadRows(f) : RowShapeOK(f[k]) /\ \A j \in BadRows(f) : k <= j

\* The columns of a valid schema file, in file order.
ColumnType(text) == IF text \in IntSpelling THEN "INT" ELSE "STRING"
Names(f) == [k \in 1 .. (Len(f) - 1) |-> f[k + 1][1]]
Types(f) == [k \in 1 .. (Len(f) - 1) |-> ColumnType(f[k + 1][2])]

----------------------------------------------------------------------------
(***************************************************************************)
(* load_csv_header and header_matches_schema.                              *)
(***************************************************************************)
HasHeader(c) == c # NoFile /\ c # <<>> /\ c[1] # <<>>

HeaderMatches(s, c) == HasHeader(c) /\ c[1] = Names(s)

RowsMatchHeader(c) == \A k \in 2 .. Len(c) : Len(c[k]) = Len(c[1])

ColumnSet(names) == {names[i] : i \in DOMAIN names}

----------------------------------------------------------------------------
(***************************************************************************)
(* storage_append_row on schema file s and CSV file c.                     *)
(***************************************************************************)
\* map_values_to_schema: every schema column exactly once, or no column list.
MapsToSchema(s, stmt) ==
  /\ Len(stmt.vals) = Len(Names(s))
  /\ \/ stmt.cols = <<>>
     \/ /\ Len(stmt.cols) = Len(Names(s))
        /\ ColumnSet(stmt.cols) = ColumnSet(Names(s))

\* Planted fault: the values stay in the order of the list.
ListedValues(s, stmt) == stmt.vals

\* The values in schema order.
OrderedValues(s, stmt) ==
  IF stmt.cols = <<>> THEN stmt.vals
  ELSE [k \in DOMAIN Names(s) |->
          stmt.vals[CHOOSE i \in DOMAIN stmt.vals : stmt.cols[i] = Names(s)[k]]]

RowToStore(s, stmt) == IF SchemaAbsent(s) THEN stmt.vals ELSE OrderedValues(s, stmt)

TypesMatch(s, vals) == \A k \in DOMAIN vals : vals[k].type = Types(s)[k]

\* With a schema a missing CSV file is created, but only for an explicit
\* column list; without one the CSV file must exist and no list is allowed.
AppendAccepts(s, c, stmt) ==
  \/ /\ SchemaAbsent(s)
     /\ stmt.cols = <<>>
     /\ HasHeader(c)
     /\ Len(c[1]) = Len(stmt.vals)
  \/ /\ SchemaValid(s)
     /\ MapsToSchema(s, stmt)
     /\ TypesMatch(s, OrderedValues(s, stmt))
     /\ \/ c = NoFile /\ stmt.cols # <<>>
        \/ HeaderMatches(s, c)

\* Planted fault: the CSV file is opened for writing from its start.
FileWrittenAnew(s, c, stmt) ==
  LET vals == RowToStore(s, stmt)
  IN  Append(IF c = NoFile THEN << Names(s) >> ELSE <<>>,
             [k \in DOMAIN vals |-> vals[k].text])

\* create_csv_from_schema, then append_row_to_file.
AppendedFile(s, c, stmt) ==
  LET vals == RowToStore(s, stmt)
  IN  Append(IF c = NoFile THEN << Names(s) >> ELSE c,
             [k \in DOMAIN vals |-> vals[k].text])

\* What a write that fails half way leaves: an empty new file, or a cut row.
TornFile(c) == IF c = NoFile THEN <<>> ELSE Append(c, <<>>)

----------------------------------------------------------------------------
(***************************************************************************)
(* storage_select_projection on schema file s and CSV file c.              *)
(***************************************************************************)
SelectsKnownColumns(s, stmt) ==
  /\ stmt.cols # <<>>
  /\ ColumnSet(stmt.cols) \subseteq ColumnSet(Names(s))
  /\ \A i, j \in DOMAIN stmt.cols : stmt.cols[i] = stmt.cols[j] => i = j

SelectAccepts(s, c, stmt) ==
  /\ HasHeader(c)
  /\ SchemaAbsent(s) \/ (SchemaValid(s) /\ HeaderMatches(s, c))
  /\ stmt.all \/ (SchemaValid(s) /\ SelectsKnownColumns(s, stmt))
  /\ RowsMatchHeader(c)

\* write_projection_row picks the same index in every row.
Project(s, row, cols) ==
  [i \in DOMAIN cols |-> row[CHOOSE k \in DOMAIN Names(s) : Names(s)[k] = cols[i]]]

\* Both forms start with the header line.
SelectOutput(s, c, stmt) ==
  IF stmt.all THEN c ELSE [k \in DOMAIN c |-> Project(s, c[k], stmt.cols)]

----------------------------------------------------------------------------
\* execute_statement_unstaged: the statement succeeds, or dies on the schema.
Accepts(s, c, stmt) ==
  IF stmt.kind = "INSERT" THEN AppendAccepts(s, c, stmt) ELSE SelectAccepts(s, c, stmt)

\* The CSV file it leaves and the lines it adds to the output buffer.
FileAfter(s, c, stmt) == IF stmt.kind = "INSERT" THEN AppendedFile(s, c, stmt) ELSE c

Reply(s, c, stmt) ==
  IF stmt.kind = "INSERT" THEN << <<Inserted, stmt.table>> >>
                          ELSE SelectOutput(s, c, stmt)
=============================================================================
