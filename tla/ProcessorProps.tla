--------------------------- MODULE ProcessorProps ---------------------------
(***************************************************************************)
(* What the parser must make of a file, against a grammar stated apart     *)
(* from it, and what the program may do to the tables.                     *)
(***************************************************************************)
EXTENDS Processor

Places == {"unread", "statement", "into", "table", "dot", "member", "columns", "column",
           "columnNext", "values", "open", "value", "valueNext", "counted", "selected",
           "name", "nameNext", "from", "end", "parsed", "failed"}

----------------------------------------------------------------------------
(***************************************************************************)
(* A script written back as a file.                                        *)
(***************************************************************************)
Keyword(w) == [kind |-> "keyword", text |-> w]

List(items) ==
  FlattenSeq([i \in DOMAIN items |-> IF i = 1 THEN <<items[i]>> ELSE <<Mark(","), items[i]>>])

Parenthesized(items) == <<Mark("(")>> \o List(items) \o <<Mark(")")>>

WordList(names) == [i \in DOMAIN names |-> Word(names[i])]

\* An integer in its shortest form and a text with its apostrophes doubled.
WriteLiteral(v) ==
  IF v.type = "INT" THEN [kind |-> "int", chars |-> WriteInteger(v.int, LongMax)]
  ELSE [kind |-> "string",
        chars |-> <<Apostrophe>>
                  \o FlattenSeq([i \in DOMAIN v.text |->
                       IF v.text[i] = Apostrophe THEN <<Apostrophe, Apostrophe>> ELSE <<v.text[i]>>])
                  \o <<Apostrophe>>]

Target(st) ==
  IF st.schema = NoName THEN <<Word(st.table)>>
                        ELSE <<Word(st.schema), Mark("."), Word(st.table)>>

Written(st) ==
  (IF st.kind = "INSERT"
   THEN <<Keyword("INSERT"), Keyword("INTO")>> \o Target(st)
        \o (IF st.cols = <<>> THEN <<>> ELSE Parenthesized(WordList(st.cols)))
        \o <<Keyword("VALUES")>>
        \o Parenthesized([i \in DOMAIN st.vals |-> WriteLiteral(st.vals[i])])
   ELSE <<Keyword("SELECT")>> \o (IF st.all THEN <<Mark("*")>> ELSE List(WordList(st.cols)))
        \o <<Keyword("FROM")>> \o Target(st))
  \o <<Mark(";")>>

\* The shortest spelling of a number token.
Shortest(n) ==
  LET zeros  == {k \in 0 .. (Len(n.digits) - 1) : \A i \in 1 .. k : n.digits[i] = "0"}
      digits == SubSeq(n.digits, 1 + Max(zeros), Len(n.digits))
  IN  (IF n.sign = "-" /\ digits # <<"0">> THEN <<"-">> ELSE <<>>) \o digits

Spells(t, w) ==
  CASE w.kind = "keyword" -> t.kind = "word" /\ t.text \in Spelling[w.text]
    [] w.kind = "int"     -> t.kind = "int" /\ Shortest(t) = w.chars
    [] w.kind = "string"  -> t.kind = "string" /\ t.chars = w.chars
    [] OTHER              -> t = w

IsFile(ts, sts) ==
  LET written == FlattenSeq([k \in DOMAIN sts |-> Written(sts[k])])
  IN  Len(ts) = Len(written) /\ \A i \in DOMAIN ts : Spells(ts[i], written[i])

\* A literal that is a value is spelled as the value is written back, but for
\* the leading zeros and the plus sign of an integer (parse_integer_value,
\* parse_string_value).  The runs evaluate it on their tokens.
LiteralsReadBack ==
  \A t \in Tokens : IsValue(t) => Spells(t, WriteLiteral(ValueOf(t)))

----------------------------------------------------------------------------
(***************************************************************************)
(* The sentences, over the tokens and up to the bounds of an instance.     *)
(***************************************************************************)
Spelled(keyword) == {t \in Tokens : t.kind = "word" /\ t.text \in Spelling[keyword]}
Words    == {t \in Tokens : t.kind = "word"}
Integers == {WriteInteger(v, LongMax) : v \in (-LongMax - 1) .. LongMax}

\* A number is a value if some integer is written so, a text if its quotes pair.
Literals ==
  {t \in Tokens : \/ t.kind = "int" /\ Shortest(t) \in Integers
                  \/ t.kind = "string"
                     /\ Cardinality({i \in DOMAIN t.chars : t.chars[i] = Apostrophe}) % 2 = 0}

Lists(items, n) == [1 .. n -> items]
NameLists(n)    == {names \in Lists(Words, n) : IsInjective(names)}

\* A phrase is a sequence of parts, each with the set of forms it may take.
One(items)     == {<<x>> : x \in items}
Targets        == One(Words) \cup {<<w, Mark("."), v>> : w, v \in Words}
ColumnLists(n) == {Parenthesized(names) : names \in NameLists(n)}
ValueLists(n)  == {Parenthesized(vals) : vals \in Lists(Literals, n)}
SelectLists    ==
  {<<Mark("*")>>} \cup {List(names) : names \in UNION {NameLists(n) : n \in 1 .. MaxList}}

\* As many values as columns, if there are columns.
InsertPhrase(n, columns) ==
  <<One(Spelled("INSERT")), One(Spelled("INTO")), Targets, columns,
    One(Spelled("VALUES")), ValueLists(n), {<<Mark(";")>>}>>

SelectPhrase ==
  <<One(Spelled("SELECT")), SelectLists, One(Spelled("FROM")), Targets, {<<Mark(";")>>}>>

Phrases ==
  {SelectPhrase} \cup UNION {{InsertPhrase(n, {<<>>}), InsertPhrase(n, ColumnLists(n))} : n \in 1 .. MaxList}

\* Some sentence of the phrase begins with ts: part after part a form of it is
\* taken off, until nothing is left.
Begins(ts, phrase) ==
  LET left[i \in 0 .. Len(phrase)] ==
        IF i = 0 THEN {ts}
        ELSE UNION {LET forms == {f \in phrase[i] : IsPrefix(f, r) \/ IsPrefix(r, f)}
                    IN  {SubSeq(r, Len(f) + 1, Len(r)) : f \in forms} \cup ({r} \cap {<<>>}) :
                    r \in left[i - 1]}
  IN  <<>> \in left[Len(phrase)]

\* The tokens of the statement that is being parsed.
Current ==
  LET ends == {i \in DOMAIN seen : seen[i] = Mark(";")} \cup {0}
  IN  SubSeq(seen, Max(ends) + 1, Len(seen))

----------------------------------------------------------------------------
\* Every variable keeps its type.
TypeOK ==
  /\ place \in Places
  /\ tok \in Tokens \cup {End}
  /\ stmt.kind \in {"none", "INSERT", "SELECT"}
  /\ place \in {"unread", "statement", "parsed"} => stmt = NoStatement
  /\ Len(stmt.cols) <= MaxList /\ Len(stmt.vals) <= MaxList
  /\ outcome[Main] \in {"running", "ok", "failed"}
  /\ outcome[Main] # "running" => place \in {"unread", "parsed", "failed"}

\* The script is the file and nothing but the file: written back statement by
\* statement it has the very tokens that were read, in their order and up to
\* the end, whatever words serve as names (parse_sql_script and all it calls).
\* In particular an integer keeps its value and a text its apostrophes.
ScriptIsTheFile == place = "parsed" => tok = End /\ IsFile(seen, script)

\* What the executor and storage take for granted of a statement: no column
\* twice, a value for each column, at least one of them, and no list beside a
\* star (append_name, parse_insert, parse_select_columns).
WellFormed(st) ==
  /\ IsInjective(st.cols)
  /\ st.kind = "INSERT" => st.vals # <<>> /\ Len(st.cols) \in {0, Len(st.vals)}
  /\ st.kind = "SELECT" => (st.all <=> st.cols = <<>>)

StatementsWellFormed == \A st \in ToSet(script) : WellFormed(st)

\* A file is refused only where no statement could go on: with the token at
\* fault it begins no sentence.  An empty file is refused, too.
RefusesNoSentence ==
  place = "failed" =>
    \/ seen = <<>> /\ tok = End
    \/ \A phrase \in Phrases : ~Begins(Append(Current, tok), phrase)

----------------------------------------------------------------------------
\* A file takes effect, on the tables or on the output, only as a whole: a
\* mistake in the last statement keeps the first from being executed, and what
\* was executed, even if it failed half way, is the script of the file to its
\* end (main, which parses all before it executes any).
OnlyWholeFilesTakeEffect ==
  tables # orig \/ shown[Main] # <<>> => tok = End /\ IsFile(seen, script)
=============================================================================
