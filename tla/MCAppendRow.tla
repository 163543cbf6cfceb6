----------------------------- MODULE MCAppendRow -----------------------------
(***************************************************************************)
(* Small instances of AppendRow: every short file next to the schemas it   *)
(* may have, and every short text as a value.                              *)
(***************************************************************************)
EXTENDS AppendRowProps

MCText == STRING
MCChar == STRING

Letters == {"a", Quote, Comma, LF, CR, Bom}

\* All texts of up to n characters.
UpTo(n) == UNION {[1 .. k -> Letters] : k \in 0 .. n}

S(text) == [type |-> "STRING", text |-> text]
I(n)    == [type |-> "INT", int |-> n]

Insert(cols, vals) ==
  [kind |-> "INSERT", table |-> "t", cols |-> cols, all |-> FALSE, vals |-> vals]
SelectAll    == [kind |-> "SELECT", table |-> "t", cols |-> <<>>, all |-> TRUE, vals |-> <<>>]
Select(cols) == [kind |-> "SELECT", table |-> "t", cols |-> cols, all |-> FALSE, vals |-> <<>>]

----------------------------------------------------------------------------
\* One column of texts, two columns, and schema files that will not do.
SchemaOf(names, types) ==
  Line(<< <<"name">>, <<"type">> >>)
  \o FlattenSeq([i \in DOMAIN names |-> Line(<< <<names[i]>>, <<types[i]>> >>)])

OneText   == SchemaOf(<<"a">>, <<"STRING">>)
TwoCols   == SchemaOf(<<"a", "b">>, <<"INT", "string">>)
TwoTexts  == SchemaOf(<<"a", "b">>, <<"STRING", "STRING">>)
MarkedOne == <<Bom>> \o OneText
Repeated  == SchemaOf(<<"a", "a">>, <<"INT", "INT">>)
NoColumn  == Line(<< <<"name">>, <<"type">> >>)

\* Tables of two columns, as INSERT leaves them and as other programs may.
Header2 == <<"a", Comma, "b">>
Files2 ==
  {NoFile, Header2, Header2 \o <<LF>>,
   Header2 \o <<CR, LF, "7", Comma, Quote, "x", Quote, Quote, Quote>>,
   Header2 \o <<LF, "7", Comma, "x", LF, "8", LF>>,
   Header2 \o <<LF, Quote, "7", Comma, "7", Quote, Comma, "x">>,
   Header2 \o <<LF, "7", Comma, Quote, "x">>,
   <<Bom>> \o Header2 \o <<CR, "7", Comma, Bom, "x", CR>>,
   <<"b", Comma, "a", LF>>}

\* Tables of one column, with stray quotes and line ends of all kinds.
Files1 ==
  {NoFile, <<"a">>, <<Bom, "a">>, <<"a", LF, Quote>>, <<"a", CR, Quote, Comma, Quote>>,
   <<"a", LF, "x", Quote, CR, LF, "y", Quote>>, <<Quote, "a", Quote, CR, LF, LF>>,
   <<Quote, "a", Quote, "x">>, <<"a", LF, Quote, Quote, Quote, LF, Quote>>,
   <<"a", LF, "x", Comma>>}

MCTables0 ==
  {[schema |-> s, csv |-> c] : s \in {NoFile, OneText}, c \in UpTo(2) \cup Files1}
  \cup {[schema |-> MarkedOne, csv |-> c] : c \in Files1}
  \cup {[schema |-> s, csv |-> c] : s \in {TwoCols, Repeated, NoColumn}, c \in Files2}
  \cup {[schema |-> TwoTexts, csv |-> c] : c \in {NoFile, Header2 \o <<LF>>}}

\* Eight-bit integers stand for the 64-bit ones.
Numbers == {-128, -127, -10, 0, 7, 127}

MCTexts ==
  UpTo(1) \cup {<<Quote, Quote>>, <<Quote, Comma>>, <<LF, Quote>>, <<Quote, LF>>,
                <<Bom, "a">>, <<Bom, Bom>>, <<CR, LF>>}

MCInserts ==
  {Insert(<<>>, <<S(t)>>) : t \in MCTexts}
  \cup {Insert(<<>>, <<I(n), S(<<Quote>>)>>) : n \in Numbers}
  \cup {Insert(<<"a">>, <<S(<<"a">>)>>), Insert(<<>>, <<I(7)>>), Insert(<<"a">>, <<I(7)>>),
        Insert(<<"b", "a">>, <<S(<<Comma>>), I(-128)>>),
        Insert(<<"b", "a">>, <<S(<<Comma>>), S(<<Bom, "a">>)>>),
        Insert(<<"a", "b">>, <<S(<<Comma>>), I(7)>>),
        Insert(<<"a", "c">>, <<I(7), S(<<Comma>>)>>)}

MCSelects == {SelectAll, Select(<<"a">>), Select(<<"b", "a">>), Select(<<"c">>), Select(<<"b">>)}

\* The second call works on what the first has left, whether it failed or not.
MCAgain ==
  {Insert(<<>>, <<S(<<Quote>>)>>), Insert(<<"b", "a">>, <<S(<<Comma>>), I(-128)>>),
   SelectAll, Select(<<"b", "a">>)}

\* What the theorems assume of strings holds of short texts.
ASSUME TextsAsTheTheoremsNeed ==
  IntegersAreDecimal /\ ColumnsArePlain(UpTo(3)) /\ StringsAreText(UpTo(3))
=============================================================================
