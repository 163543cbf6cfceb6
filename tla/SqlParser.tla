----------------------------- MODULE SqlParser -----------------------------
(***************************************************************************)
(* parse_sql_script (src/parser.c): from the text of a SQL file to a       *)
(* script of INSERT and SELECT statements.                                 *)
(*                                                                         *)
(* The scanner skips white space before every decision, so a file is the   *)
(* sequence of its tokens: words, literals as they are spelled, and the    *)
(* punctuation marks.  Which word is a keyword depends on where it stands. *)
(* The parser looks at one token at a time, and the file is whatever the   *)
(* next token turns out to be: each parse function is an action, or one    *)
(* per place it can be at.                                                 *)
(***************************************************************************)
EXTENDS CsvCodec

CONSTANTS LongMax,         \* LLONG_MAX, the largest integer read
          Tokens,          \* the tokens a file may hold
          Spelling,        \* the words match_keyword takes for a keyword
          NameWords,       \* the words it uses as names
          MaxTokens,       \* bound on the length of a file
          MaxList          \* bound on the length of a list

Keywords == {"INSERT", "INTO", "VALUES", "SELECT", "FROM"}

ASSUME SpellingAssumption ==
  /\ DOMAIN Spelling = Keywords
  /\ \A k, l \in Keywords : k # l => Spelling[k] \cap Spelling[l] = {}
ASSUME ParserBounds == MaxTokens \in Nat /\ MaxList \in Nat \ {0} /\ LongMax \in Nat

Word(w)  == [kind |-> "word", text |-> w]
Mark(ch) == [kind |-> "mark", text |-> ch]
\* A sign or none and at least one digit; a quote and what follows it, up to
\* the closing quote if there is one.
Number(sign, digits) == [kind |-> "int", sign |-> sign, digits |-> digits]
Literal(chars)       == [kind |-> "string", chars |-> chars]
\* The end of the text, and a character that starts no token.
End   == [kind |-> "end"]
Other == [kind |-> "other"]

NoName  == ""

\* parse_identifier takes at least one character.
ASSUME WordsHaveNames ==
  \A t \in Tokens : t.kind = "word" => t = Word(t.text) /\ t.text # NoName

NoStatement == [kind |-> "none", schema |-> NoName, table |-> NoName, cols |-> <<>>,
                all |-> FALSE, vals |-> <<>>]

VARIABLES place,     \* where in the grammar the parser stands
          tok,       \* the token at the current position
          seen,      \* the tokens before it
          stmt,      \* the statement being parsed
          script     \* the statements parsed

pvars == <<place, tok, seen, stmt, script>>

----------------------------------------------------------------------------
(***************************************************************************)
(* Literals.                                                               *)
(***************************************************************************)
Apostrophe == "'"

DigitValue(ch) == CHOOSE d \in DOMAIN Digit : Digit[d] = ch

\* strtoll, before it looks at the range.
Value(n) ==
  LET upTo[k \in 0 .. Len(n.digits)] ==
        IF k = 0 THEN 0 ELSE 10 * upTo[k - 1] + DigitValue(n.digits[k])
      magnitude == upTo[Len(n.digits)]
  IN  IF n.sign = "-" THEN -magnitude ELSE magnitude

\* Planted fault: the magnitude must fit, whatever the sign.
MagnitudeFits(n) == Value(n) \in -LongMax .. LongMax

\* parse_integer_value: ERANGE is an error.
InRange(n) == Value(n) \in (-LongMax - 1) .. LongMax

\* An apostrophe behind the first that is not one of two closes the text.
Closes(chars, j) ==
  /\ chars[j] = Apostrophe /\ (j < Len(chars) => chars[j + 1] # Apostrophe)
  /\ Cardinality({i \in 2 .. j : chars[i] = Apostrophe}) % 2 = 1

\* A number has a digit, and a text ends where it is closed.
ASSUME LiteralsAreTokens ==
  \A t \in Tokens :
    /\ t.kind = "int" =>
         /\ t.sign \in {"", "+", "-"} /\ t.digits # <<>>
         /\ t.digits \in Seq({Digit[d] : d \in DOMAIN Digit})
    /\ t.kind = "string" =>
         /\ t.chars \in Seq(ToSet(t.chars)) /\ t.chars # <<>> /\ t.chars[1] = Apostrophe
         /\ \A j \in 2 .. (Len(t.chars) - 1) : ~Closes(t.chars, j)

\* parse_string_value from position p: '' is an apostrophe of the text.
StringFrom(chars, p) ==
  LET body[j \in p .. (Len(chars) + 2)] ==
        IF j > Len(chars) THEN [text |-> <<>>, closed |-> FALSE]
        ELSE IF chars[j] # Apostrophe
             THEN LET rest == body[j + 1] IN [rest EXCEPT !.text = <<chars[j]>> \o @]
        ELSE IF j < Len(chars) /\ chars[j + 1] = Apostrophe
             THEN LET rest == body[j + 2] IN [rest EXCEPT !.text = <<Apostrophe>> \o @]
        ELSE [text |-> <<>>, closed |-> TRUE]
  IN  body[p]

\* parse_value.
IsValue(t) ==
  \/ t.kind = "int" /\ InRange(t)
  \/ t.kind = "string" /\ StringFrom(t.chars, 2).closed

ValueOf(t) ==
  IF t.kind = "int" THEN [type |-> "INT", int |-> Value(t)]
                    ELSE [type |-> "STRING", text |-> StringFrom(t.chars, 2).text]

----------------------------------------------------------------------------
\* match_keyword.
Is(keyword) == tok.kind = "word" /\ tok.text \in Spelling[keyword]

\* Where parse_identifier is called next.
NamePlaces == {"table", "member", "column", "name"}

\* A list that is full is not offered another comma: a bound of the model.
Full ==
  \/ place' \in {"columnNext", "nameNext"} /\ Len(stmt'.cols) = MaxList
  \/ place' = "valueNext" /\ Len(stmt'.vals) = MaxList

\* The tokens that may follow.
Offered ==
  IF Len(seen') >= MaxTokens THEN {End}
  ELSE {t \in Tokens \cup {End} :
          /\ t = Mark(",") => ~Full
          /\ place' \in NamePlaces /\ t.kind = "word" => t.text \in NameWords}

Consume ==
  /\ seen' = Append(seen, tok)
  /\ tok' \in Offered

Stay == UNCHANGED <<seen, tok>>

GoTo(there) == place' = there

Fail == GoTo("failed") /\ UNCHANGED <<tok, seen, stmt, script>>

\* One token that must be there.
Expect(here, cond, there) ==
  /\ place = here
  /\ \/ cond /\ GoTo(there) /\ UNCHANGED <<stmt, script>> /\ Consume
     \/ ~cond /\ Fail

----------------------------------------------------------------------------
\* parse_statement_core, and the end of the loop of parse_sql_script: a file
\* without a statement is an error.
ParseStatement ==
  /\ place = "statement"
  /\ \/ /\ Is("INSERT") /\ GoTo("into")
        /\ stmt' = [NoStatement EXCEPT !.kind = "INSERT"] /\ UNCHANGED script /\ Consume
     \/ /\ Is("SELECT") /\ GoTo("selected")
        /\ stmt' = [NoStatement EXCEPT !.kind = "SELECT"] /\ UNCHANGED script /\ Consume
     \/ /\ tok = End /\ script # <<>> /\ GoTo("parsed")
        /\ UNCHANGED <<tok, seen, stmt, script>>
     \/ ~Is("INSERT") /\ ~Is("SELECT") /\ (tok = End => script = <<>>) /\ Fail

Into == Expect("into", Is("INTO"), "table")

From == Expect("from", Is("FROM"), "table")

\* parse_identifier: any word, a keyword's spelling too.
IsIdentifier == tok.kind = "word"

\* parse_qualified_name: what was read first is the schema if a dot follows.
ParseTable ==
  /\ place = "table"
  /\ \/ /\ IsIdentifier /\ GoTo("dot")
        /\ stmt' = [stmt EXCEPT !.table = tok.text] /\ UNCHANGED script /\ Consume
     \/ ~IsIdentifier /\ Fail

AfterName == IF stmt.kind = "INSERT" THEN "columns" ELSE "end"

ParseDot ==
  /\ place = "dot"
  /\ \/ tok = Mark(".") /\ GoTo("member") /\ UNCHANGED <<stmt, script>> /\ Consume
     \/ tok # Mark(".") /\ GoTo(AfterName) /\ Stay /\ UNCHANGED <<stmt, script>>

\* Planted fault: the schema and the table change places.
SwapMember ==
  /\ place = "member"
  /\ \/ /\ IsIdentifier /\ GoTo(AfterName)
        /\ stmt' = [stmt EXCEPT !.schema = tok.text] /\ UNCHANGED script /\ Consume
     \/ ~IsIdentifier /\ Fail

ParseMember ==
  /\ place = "member"
  /\ \/ /\ IsIdentifier /\ GoTo(AfterName)
        /\ stmt' = [stmt EXCEPT !.schema = stmt.table, !.table = tok.text]
        /\ UNCHANGED script /\ Consume
     \/ ~IsIdentifier /\ Fail

----------------------------------------------------------------------------
\* parse_insert: the column list is optional.
ParseColumnList ==
  /\ place = "columns"
  /\ \/ tok = Mark("(") /\ GoTo("column") /\ UNCHANGED <<stmt, script>> /\ Consume
     \/ tok # Mark("(") /\ GoTo("values") /\ Stay /\ UNCHANGED <<stmt, script>>

\* Planted fault: only a SELECT is looked through for repeated names.
NewInSelect == IsIdentifier /\ (stmt.kind = "INSERT" \/ tok.text \notin ToSet(stmt.cols))

\* append_name refuses a name that is on the list.
NewName == IsIdentifier /\ tok.text \notin ToSet(stmt.cols)

\* parse_parenthesized_identifier_list and parse_identifier_sequence: an empty
\* list and a trailing comma fail here, since no name follows.
ParseName(here, there) ==
  /\ place = here
  /\ \/ /\ NewName /\ GoTo(there)
        /\ stmt' = [stmt EXCEPT !.cols = Append(@, tok.text)] /\ UNCHANGED script /\ Consume
     \/ ~NewName /\ Fail

ParseColumn == ParseName("column", "columnNext")

\* A list goes on, ends, or is malformed.
ParseNext(here, again, there) ==
  /\ place = here
  /\ \/ tok = Mark(",") /\ GoTo(again) /\ UNCHANGED <<stmt, script>> /\ Consume
     \/ tok = Mark(")") /\ GoTo(there) /\ UNCHANGED <<stmt, script>> /\ Consume
     \/ tok \notin {Mark(","), Mark(")")} /\ Fail

ParseColumnNext == ParseNext("columnNext", "column", "values")

Values == Expect("values", Is("VALUES"), "open")

Open == Expect("open", tok = Mark("("), "value")

ParseValue ==
  /\ place = "value"
  /\ \/ /\ IsValue(tok) /\ GoTo("valueNext")
        /\ stmt' = [stmt EXCEPT !.vals = Append(@, ValueOf(tok))] /\ UNCHANGED script /\ Consume
     \/ ~IsValue(tok) /\ Fail

ParseValueNext == ParseNext("valueNext", "value", "counted")

\* At the end of parse_insert: as many values as columns, if there are columns.
CheckCounts ==
  LET match == stmt.cols = <<>> \/ Len(stmt.vals) = Len(stmt.cols)
  IN
  /\ place = "counted"
  /\ \/ match /\ GoTo("end") /\ Stay /\ UNCHANGED <<stmt, script>>
     \/ ~match /\ Fail

----------------------------------------------------------------------------
\* parse_select_columns.
ParseSelectColumns ==
  /\ place = "selected"
  /\ \/ /\ tok = Mark("*") /\ GoTo("from")
        /\ stmt' = [stmt EXCEPT !.all = TRUE] /\ UNCHANGED script /\ Consume
     \/ tok # Mark("*") /\ GoTo("name") /\ Stay /\ UNCHANGED <<stmt, script>>

ParseSelectName == ParseName("name", "nameNext")

ParseSelectNext ==
  /\ place = "nameNext"
  /\ \/ tok = Mark(",") /\ GoTo("name") /\ UNCHANGED <<stmt, script>> /\ Consume
     \/ tok # Mark(",") /\ GoTo("from") /\ Stay /\ UNCHANGED <<stmt, script>>

----------------------------------------------------------------------------
\* Planted fault: the statement handed over is not cleared.
EndStatementOnly ==
  /\ place = "end"
  /\ \/ /\ tok = Mark(";") /\ GoTo("statement")
        /\ script' = Append(script, stmt) /\ UNCHANGED stmt /\ Consume
     \/ tok # Mark(";") /\ Fail

\* parse_sql_script: the semicolon of each statement, and append_statement.
EndStatement ==
  /\ place = "end"
  /\ \/ /\ tok = Mark(";") /\ GoTo("statement")
        /\ script' = Append(script, stmt) /\ stmt' = NoStatement /\ Consume
     \/ tok # Mark(";") /\ Fail

ParserNext ==
  \/ ParseStatement \/ Into \/ From \/ ParseTable \/ ParseDot \/ ParseMember
  \/ ParseColumnList \/ ParseColumn \/ ParseColumnNext \/ Values \/ Open
  \/ ParseValue \/ ParseValueNext \/ CheckCounts
  \/ ParseSelectColumns \/ ParseSelectName \/ ParseSelectNext \/ EndStatement
=============================================================================
