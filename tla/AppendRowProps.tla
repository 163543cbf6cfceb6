--------------------------- MODULE AppendRowProps ---------------------------
(***************************************************************************)
(* What the bytes storage.c reads and writes must come to: the table of    *)
(* records that Storage speaks of.                                         *)
(***************************************************************************)
EXTENDS AppendRow

Labels == {"idle", "schema", "exists", "create", "header", "reopen", "append", "cleanup", "died"}

\* Every variable keeps its type.
TypeOK ==
  /\ at \in Labels
  /\ created \in BOOLEAN
  /\ result \in {"none", "ok", "failed"}
  /\ stmt \in Inserts \cup Selects \cup {NoStmt}
  /\ met \subseteq FaultPoints
  /\ faults \in 0 .. MaxFaults
  /\ calls \in 0 .. MaxCalls
  /\ Cardinality(met) <= faults
  /\ at \in {"create", "header", "reopen", "append", "cleanup"} => stmt \in Inserts
  /\ at \in {"header", "reopen", "append"} => csv # NoFile

Returned == at = "idle" /\ stmt # NoStmt
InsertReturned == Returned /\ stmt.kind = "INSERT"

EndsInQuotes(f) ==
  f # NoFile /\ f # <<>> /\ LET raw == RawRecords(f) IN raw[Len(raw)].open

----------------------------------------------------------------------------
(***************************************************************************)
(* The reader, against the count of the quotes.                            *)
(***************************************************************************)
QuotesIn(t) == Cardinality({i \in DOMAIN t : t[i] = Quote})
IsEven(n) == n % 2 = 0

\* The line ends of f outside quotes.
Breaks(f) == {j \in DOMAIN f : f[j] \in LineEnds /\ IsEven(QuotesIn(SubSeq(f, 1, j)))}

\* Those that end a record: CR LF is one line end.
Ends(f) == {j \in Breaks(f) : ~(j > 1 /\ f[j] = LF /\ f[j - 1] = CR)}

\* A record ends at every line end outside quotes and nowhere else, and no
\* character but those line ends is lost on the way (read_csv_record, with its
\* look ahead at "" and CR LF); only an odd number of quotes is unterminated.
ReaderCountsQuotes ==
  at = "idle" /\ csv # NoFile =>
    \A raw \in {RawRecords(csv)}, breaks \in {Breaks(csv)} :
      LET kept == [i \in DOMAIN csv |-> IF i \in breaks THEN <<>> ELSE <<csv[i]>>]
          rest == IF csv = <<>> \/ Len(csv) \in breaks THEN 0 ELSE 1
      IN
        /\ FlattenSeq([k \in DOMAIN raw |-> raw[k].text]) = FlattenSeq(kept)
        /\ Len(raw) = Cardinality(Ends(csv)) + rest
        /\ \A k \in DOMAIN raw : raw[k].open <=> ~IsEven(QuotesIn(raw[k].text))

----------------------------------------------------------------------------
(***************************************************************************)
(* INSERT, against the records of Storage.                                 *)
(***************************************************************************)
\* What is decided step by step, on files opened several times, is what
\* Storage decides at once, and a refusal leaves the table as it was
\* (storage_append_row).
AcceptsAsSpecified ==
  InsertReturned /\ met = {} =>
    \A s \in {SchemaNow}, c \in {Table(before)} :
      /\ result = "ok" <=> AppendAccepts(s, c, StrStmt(stmt))
      /\ result = "failed" => csv = before

\* A text stored in the first column loses the byte order mark it starts with.
ReadIn(k, val) == IF k = 1 /\ val.type = "STRING" THEN [val EXCEPT !.text = StripBom(@)] ELSE val

AsRead(vals) == [i \in DOMAIN vals |-> ReadIn(i, vals[i])]

RowStored(s) == [stmt EXCEPT !.cols = <<>>, !.vals = AsRead(RowToStore(s, stmt))]

\* The row an INSERT has stored reads back as one record with exactly its
\* values, whatever quotes, commas, line ends or marks its texts hold and
\* however the file before it ended, and every earlier record stays
\* (append_newline_if_needed, write_csv_value, create_csv_from_schema).  A file
\* that ends inside quotes swallows the row.
RowReadsBack ==
  InsertReturned /\ result = "ok" /\ ~EndsInQuotes(before) =>
    \A s \in {SchemaNow} : TableNow = AppendedFile(s, Table(before), StrStmt(RowStored(s)))

\* An INSERT with a column list has put each of its values under the name listed
\* for it, whatever the order of the list and of the schema, and under no other
\* (map_values_to_schema); the header is the one in the file.
ValuesLandInTheirColumns ==
  InsertReturned /\ result = "ok" /\ stmt.cols # <<>> /\ ~EndsInQuotes(before) =>
    \A rows \in {TableNow} :
      LET header == rows[1]
          row    == rows[Len(rows)]
      IN
        /\ Len(row) = Len(header) /\ Len(stmt.cols) = Len(header)
        /\ \A k \in DOMAIN header : \E i \in DOMAIN stmt.cols :
             header[k] = stmt.cols[i] /\ row[k] = StrValue(ReadIn(k, stmt.vals[i])).text

\* An INSERT that fails, at whatever point, loses no record that was there.
FailedAppendKeepsRecords ==
  InsertReturned /\ result = "failed" /\ before # NoFile /\ ~EndsInQuotes(before) =>
    csv # NoFile /\ IsPrefix(Table(before), TableNow)

\* A table the failed INSERT has created is removed again at every later step
\* (created_csv), unless the remove itself fails or the creation did.
CreatedTableIsRemoved ==
  InsertReturned /\ result = "failed" /\ before = NoFile /\ met \cap {"create", "remove"} = {} =>
    csv = NoFile

----------------------------------------------------------------------------
(***************************************************************************)
(* What the theorems need to know of the strings that texts stand for.     *)
(***************************************************************************)
StringsAreText(texts) == \A t \in texts : Str(t) \in Text

\* The digits written are those of the integer (write_signed_integer).
IntegersAreDecimal ==
  \A v \in (-LongMax - 1) .. LongMax : Str(WriteInteger(v, LongMax)) = ToString(v)

Special == {Quote, Comma, LF, CR}

\* The column list of an INSERT or a SELECT holds identifiers
\* (parse_identifier): of the texts given, those that spell one hold no mark.
ColumnsArePlain(texts) ==
  \A s \in Inserts \cup Selects, t \in texts : \A k \in DOMAIN s.cols :
    Str(t) = s.cols[k] => t # <<>> /\ ToSet(t) \cap (Special \cup {Bom}) = {}

----------------------------------------------------------------------------
(***************************************************************************)
(* SELECT.                                                                 *)
(***************************************************************************)
\* What INSERT writes in a column of integers holds nothing CSV would quote.
PlainIntegers(s, rows) ==
  SchemaValid(s) =>
    \A k \in 2 .. Len(rows), i \in DOMAIN Types(s) :
      Types(s)[i] = "INT" => ToSet(rows[k][i]) \cap Special = {}

NoMarks(rows) == \A row \in ToSet(rows) : \A i \in DOMAIN row : StripBom(row[i]) = row[i]

FirstRows(n, rows) == [k \in 1 .. n |-> rows[k]]

\* What is printed of these rows reads as it did in the file.
Legible(s, rows) == stmt.all \/ (PlainIntegers(s, rows) /\ NoMarks(rows))

\* A SELECT prints the table it was asked for as far as it reads: its output,
\* read as CSV, has the selected fields of its records in order.  One that
\* succeeds has printed all of them; one that fails was to be refused, and has
\* printed nothing or every record before the first that is malformed or of
\* another length, and none of that one (copy_stream_validated,
\* write_projection_row).
SelectPrintsTable ==
  Returned /\ stmt.kind = "SELECT" =>
    \A s \in {SchemaNow}, c \in {TableNow}, rows \in {RowsNow} :
      /\ result = "ok" <=> SelectAccepts(s, c, stmt)
      /\ \E n \in 0 .. Len(rows) :
           /\ RowsMatchHeader(FirstRows(n, c))
           /\ result = "ok" => n = Len(rows)
           /\ result # "ok" /\ n > 0 => n < Len(rows) /\ Len(c[n + 1]) # Len(c[1])
           /\ Legible(s, FirstRows(n, rows)) => Table(shown) = SelectOutput(s, FirstRows(n, c), stmt)

----------------------------------------------------------------------------
(***************************************************************************)
(* What the documents say of storage_append_row.                           *)
(***************************************************************************)
\* No trace of the table stays after a failed INSERT that was to create it
\* (EDGE_CASE_FIXES.md:66-68, storage.c:1274-1280).
LeavesNoTrace == InsertReturned /\ result = "failed" /\ before = NoFile => csv = NoFile
=============================================================================
