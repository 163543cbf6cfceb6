------------------------------ MODULE CsvCodec ------------------------------
(***************************************************************************)
(* The CSV text format of src/storage.c: how the bytes of a file become    *)
(* records and fields, and how values become bytes.                        *)
(*                                                                         *)
(* A text is a sequence of characters.  A character that means something   *)
(* to the codec is a symbol of its own; so are the digits, the sign and    *)
(* the byte order mark, whose three bytes only ever count together.  Any   *)
(* other run of bytes may be one symbol.  No text holds a NUL byte.        *)
(*                                                                         *)
(* The recursion is written with functions on positions, as the code's     *)
(* loops are.                                                              *)
(***************************************************************************)
EXTENDS Integers, Sequences, SequencesExt

Quote == "\""
Comma == ","
LF    == "\n"
CR    == "\r"
Bom   == "BOM"
LineEnds == {LF, CR}

----------------------------------------------------------------------------
(***************************************************************************)
(* Reading.                                                                *)
(***************************************************************************)
\* A doubled quote.
EscapedQuote(f, j) == j < Len(f) /\ f[j] = Quote /\ f[j + 1] = Quote

\* Planted fault: CR LF ends two records.
AfterOneByte(f, j) == j + 1

\* The position after the line end at j.
AfterLineEnd(f, j) ==
  IF f[j] = CR /\ j < Len(f) /\ f[j + 1] = LF THEN j + 2 ELSE j + 1

\* read_csv_record on f, from each position, outside and inside quotes: where
\* the record's text ends, where the next record starts, and whether the file
\* ended inside quotes.
Scan(f) ==
  LET scan[j \in 1 .. (Len(f) + 2)] == [inQuotes \in BOOLEAN |->
        IF j > Len(f) THEN [end |-> j, next |-> j, open |-> inQuotes]
        ELSE IF f[j] = Quote THEN
          IF inQuotes /\ EscapedQuote(f, j) THEN scan[j + 2][TRUE]
                                            ELSE scan[j + 1][~inQuotes]
        ELSE IF ~inQuotes /\ f[j] \in LineEnds THEN
          [end |-> j, next |-> AfterLineEnd(f, j), open |-> FALSE]
        ELSE scan[j + 1][inQuotes]]
  IN  scan

ReadRecord(f, i) == Scan(f)[i][FALSE]

\* The records of a file, read one after the other to its end.
RawRecords(f) ==
  LET from[i \in 1 .. (Len(f) + 2)] ==
        IF i > Len(f) THEN <<>>
        ELSE LET r == ReadRecord(f, i)
             IN  << [text |-> SubSeq(f, i, r.end - 1), open |-> r.open] >> \o from[r.next]
  IN  from[1]

\* The rest of a quoted field of rec from each position inside it; the field
\* must be followed by a comma or by the end of the record.
QuotedBody(rec) ==
  LET With(ch, rest) == [rest EXCEPT !.text = <<ch>> \o @]
      body[j \in 1 .. (Len(rec) + 2)] ==
        IF j > Len(rec) THEN [text |-> <<>>, next |-> j, ok |-> FALSE]
        ELSE IF rec[j] # Quote THEN With(rec[j], body[j + 1])
        ELSE IF EscapedQuote(rec, j) THEN With(Quote, body[j + 2])
        ELSE [text |-> <<>>, next |-> j + 1, ok |-> j = Len(rec) \/ rec[j + 1] = Comma]
  IN  body

\* Any other field goes up to the next comma, quotes included.
PlainField(rec, p) ==
  LET ends == {j \in p .. Len(rec) : rec[j] = Comma}
      e    == IF ends = {} THEN Len(rec) + 1 ELSE Min(ends)
  IN  [text |-> SubSeq(rec, p, e - 1), next |-> e, ok |-> TRUE]

FieldAt(rec, p) ==
  IF p <= Len(rec) /\ rec[p] = Quote THEN QuotedBody(rec)[p + 1] ELSE PlainField(rec, p)

StripBom(t) == IF t # <<>> /\ t[1] = Bom THEN Tail(t) ELSE t

\* parse_csv_record: the fields of a record, or <<>> when it is malformed.  The
\* byte order mark goes from the first field of every record; a comma at the
\* end of the record is followed by one empty field.
Fields(rec) ==
  LET from[p \in 1 .. (Len(rec) + 1)] ==
        LET field == FieldAt(rec, p)
            text  == IF p = 1 THEN StripBom(field.text) ELSE field.text
        IN  IF ~field.ok THEN <<>>
            ELSE IF field.next > Len(rec) THEN <<text>>
            ELSE IF field.next = Len(rec) THEN <<text, <<>>>>
            ELSE LET rest == from[field.next + 1]
                 IN  IF rest = <<>> THEN <<>> ELSE <<text>> \o rest
  IN  from[1]

\* The rows of a file; <<>> stands for one that cannot be read.
Rows(f) ==
  LET raw == RawRecords(f)
  IN  [k \in DOMAIN raw |-> IF raw[k].open THEN <<>> ELSE Fields(raw[k].text)]

----------------------------------------------------------------------------
(***************************************************************************)
(* Writing.                                                                *)
(***************************************************************************)
\* Planted fault: quotes are not doubled.
WriteAsIs(t) == <<Quote>> \o t \o <<Quote>>

\* write_csv_string: always quoted, every quote twice.
WriteString(t) ==
  <<Quote>> \o FlattenSeq([i \in DOMAIN t |-> IF t[i] = Quote THEN <<Quote, Quote>> ELSE <<t[i]>>])
            \o <<Quote>>

Digit == [d \in 0 .. 9 |-> <<"0", "1", "2", "3", "4", "5", "6", "7", "8", "9">>[d + 1]]

\* The decimal digits of a number, from the lowest up.
Digits(n) ==
  LET upTo[m \in 0 .. n] == (IF m < 10 THEN <<>> ELSE upTo[m \div 10]) \o <<Digit[m % 10]>>
  IN  upTo[n]

\* The magnitude of an integer up to max as an unsigned one of the same width:
\* the smallest integer has no positive counterpart to convert.
Magnitude(v, max) ==
  LET Unsigned(n) == n % (2 * max + 2)
  IN  IF v = -max - 1 THEN Unsigned(max + 1) ELSE IF v < 0 THEN Unsigned(-v) ELSE Unsigned(v)

\* write_signed_integer.
WriteInteger(v, max) == (IF v < 0 THEN <<"-">> ELSE <<>>) \o Digits(Magnitude(v, max))

\* write_csv_value: a value of the parser, whatever the column says once the
\* types have been checked.
WriteValue(v, max) == IF v.type = "STRING" THEN WriteString(v.text) ELSE WriteInteger(v.int, max)

\* Fields side by side, and the line they make.
Joined(fields) ==
  FlattenSeq([i \in DOMAIN fields |-> IF i = 1 THEN fields[i] ELSE <<Comma>> \o fields[i]])

Line(fields) == Joined(fields) \o <<LF>>

\* append_newline_if_needed: the last byte decides, quoted or not.
NewlineIfNeeded(f) == IF f = <<>> \/ f[Len(f)] \in LineEnds THEN <<>> ELSE <<LF>>

----------------------------------------------------------------------------
(***************************************************************************)
(* What a text and a value are for Storage: the string of the characters,  *)
(* and the usual decimal form of an integer.                               *)
(***************************************************************************)
Str(t) == FoldLeft(LAMBDA string, ch : string \o ch, "", t)

StrValue(v) == [type |-> v.type,
                text |-> IF v.type = "STRING" THEN Str(v.text) ELSE ToString(v.int)]
=============================================================================
